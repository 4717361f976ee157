----------------------- MODULE TimestampPacketsProofs -----------------------
(***************************************************************************)
(* The first half of the invariant of TimestampPackets, for all numbers of *)
(* threads, receivers, queues, commands and tags: every step keeps the     *)
(* types and the control of the threads (ControlInv), the shape of the     *)
(* streams (StreamInv), and the counts of references to tags (RefInv).     *)
(* TimestampPacketsTagProofs continues with the tags themselves.           *)
(***************************************************************************)
EXTENDS TimestampPackets, FiniteSetTheorems, SequenceTheorems, TLAPS

\* How many entries of a list are in S, and where a family of lists has them.
Occ(S, s) == Cardinality({i \in DOMAIN s : s[i] \in S})
Sites(S, f) == {e \in UNION {{h} \X DOMAIN f[h] : h \in DOMAIN f} : f[e[1]][e[2]] \in S}

\* Families of lists over X, one for every element of H.
Families(H, X) == [H -> Seq(X)]

\* The states of a command.
Statuses == {"new", "blocked", "submitted", "executed", "aborted", "marked"}
\* What the GPU executes of a command: semaphores, decrements and the write of the tag.
Instructions == [op : {"wait", "decrement", "write"}, tag : Tags, for : Commands \cup {None}, by : Commands]

\* The types of the variables.
TypeOK ==
  /\ freeTags \in [Csrs -> Seq(Tags)] /\ deferredTags \in [Csrs -> Seq(Tags)] /\ usedTags \in [Csrs -> SUBSET Tags]
  /\ populated \in [Csrs -> Nat] /\ refCount \in [Tags -> Int] /\ tagOf \in [Tags -> Commands \cup {None}]
  /\ packet \in [Tags -> [ended : BOOLEAN, implicitDependenciesCount : Int]]
  /\ nodes \in [Holders -> Seq(Tags)]
  /\ stream \in [Csrs -> Seq(Instructions)] /\ dispatched \in [Commands -> Seq(Instructions)]
  /\ status \in [Commands -> Statuses] /\ virtualEvent \in [Queues -> Commands \cup {None}]
  /\ csrOwner \in [Csrs -> Threads \cup {None}] /\ calls \in [Threads -> Seq(Calls)]
  /\ thread \in [Threads -> ThreadState]

\* A command that a thread has still to enqueue, and the invariant of the calls: such a
\* command is new, its containers are empty and no thread is busy with it.
Awaited(c) == \E t \in Threads : <<"enqueue", c>> \in Range(calls[t])
CallInv ==
  /\ EnqueuedOnce(calls)
  /\ \A c \in Commands : Awaited(c) =>
       /\ status[c] = "new" /\ \A k \in {"event", "current", "previous", "stack"} : nodes[<<k, c>>] = <<>>
       /\ \A t \in Threads : thread[t].cmd # c
\* What the fields of a thread say of each other: a thread has tags in its hands only
\* in the steps of getTag, and puts a tag back only while it returns one.
ThreadOK(s) ==
  /\ s.pc = "idle" <=> s.cmd = None
  /\ s.node # None <=> s.pc = "use"
  /\ s.detached # <<>> => s.pc = "sort"
  /\ s.ready # <<>> => s.pc = "sort"
  /\ s.pending # <<>> => s.pc \in {"sort", "splice"}
  /\ s.toResolve # <<>> => s.pc = "resolve"
  /\ s.place # "none" => s.toReturn # <<>> /\ s.toDrop = <<>>
\* A thread in enqueueHandler or submit owns the receiver; until the command is
\* dispatched, blocked or flushed its containers are as the step says.
OwnerOK(t) ==
  LET s == thread[t] IN
  /\ s.pc # "idle" => csrOwner[Csr(s.cmd)] = t
  /\ s.pc \in Enqueuing => status[s.cmd] = "new" /\ nodes[<<"current", s.cmd>>] = <<>> /\ nodes[<<"previous", s.cmd>>] = <<>>
  /\ s.pc \in Early => nodes[<<"event", s.cmd>>] = <<>>
  /\ s.pc \in Early \ {"dispatch"} => nodes[QueueOf[s.cmd]] = <<>>
  /\ s.toResolve # <<>> => s.toResolve = nodes[<<"stack", s.cmd>>]
ThreadInv == \A t \in Threads : ThreadOK(thread[t]) /\ OwnerOK(t)
\* One tag for each command: a queue and the stack of enqueueHandler have at most one.
SizeInv ==
  /\ \A q \in Queues : Len(nodes[q]) <= 1
  /\ \A c \in Commands : Len(nodes[<<"stack", c>>]) <= 1
\* The control invariant: types, calls, threads and sizes.
ControlInv == TypeOK /\ CallInv /\ ThreadInv /\ SizeInv

\* The count of a tag is the number of its entries in containers and pending returns.
RefInv == \A n \in Tags : refCount[n] = Cardinality(Sites({n}, nodes)) + Cardinality(Sites({n}, toBeReturned))

\* The decrements and the writes of a tag.
Decrements(n) == {i \in Instructions : i.op = "decrement" /\ i.tag = n}
Writes(n) == {i \in Instructions : i.op = "write" /\ i.tag = n}
\* Behind every semaphore there is the decrement of the same tag.
Paired(s) == \A i \in 1..Len(s) : s[i].op = "wait" =>
                i + 1 <= Len(s) /\ s[i + 1].op = "decrement" /\ s[i + 1].tag = s[i].tag
PairInv == (\A r \in Csrs : Paired(stream[r])) /\ (\A c \in Commands : Paired(dispatched[c]))
\* What is in a stream belongs to submitted commands, what is dispatched to its command.
ByInv ==
  /\ \A r \in Csrs : \A i \in 1..Len(stream[r]) : status[stream[r][i].by] \in {"submitted", "executed"}
  /\ \A c \in Commands : \A i \in 1..Len(dispatched[c]) : dispatched[c][i].by = c

-----------------------------------------------------------------------------
(* Counting *)

\* A one-to-one map between finite sets: the counts of tags in lists are sizes of
\* sets of positions, and positions are shifted when lists are joined.
LEMMA SameSize ==
  ASSUME NEW S, NEW T, IsFiniteSet(S), NEW f \in [S -> T],
         \A x, y \in S : f[x] = f[y] => x = y,
         \A y \in T : \E x \in S : f[x] = y
  PROVE  IsFiniteSet(T) /\ Cardinality(T) = Cardinality(S)
<1>1. f \in Bijection(S, T)
  BY DEF Bijection, Injection, Surjection, IsInjective
<1>2. ExistsBijection(S, T)
  BY <1>1 DEF ExistsBijection
<1> QED
  BY <1>2, FS_Bijection

\* The size of a disjoint union of finite sets.
LEMMA DisjointUnion ==
  ASSUME NEW A, NEW B, IsFiniteSet(A), IsFiniteSet(B), A \cap B = {}
  PROVE  /\ IsFiniteSet(A \cup B) /\ Cardinality(A) \in Nat /\ Cardinality(B) \in Nat
         /\ Cardinality(A \cup B) = Cardinality(A) + Cardinality(B)
<1>1. Cardinality(A) \in Nat /\ Cardinality(B) \in Nat
  BY FS_CardinalityType
<1>2. Cardinality(A \cap B) = 0
  BY FS_EmptySet
<1>3. IsFiniteSet(A \cup B) /\ Cardinality(A \cup B) = Cardinality(A) + Cardinality(B) - Cardinality(A \cap B)
  BY FS_Union
<1> QED
  BY <1>1, <1>2, <1>3

\* The number is a natural number, and zero if the list has no such entry.
LEMMA OccType ==
  ASSUME NEW X, NEW s \in Seq(X), NEW S
  PROVE  /\ IsFiniteSet({i \in DOMAIN s : s[i] \in S}) /\ Occ(S, s) \in Nat
         /\ Occ(S, s) = 0 <=> \A i \in 1..Len(s) : s[i] \notin S
<1> DEFINE A == {i \in DOMAIN s : s[i] \in S}
<1>1. DOMAIN s = 1..Len(s) /\ Len(s) \in Nat
  BY LenProperties
<1>2. IsFiniteSet(A)
  <2>1. IsFiniteSet(1..Len(s))
    BY <1>1, FS_Interval
  <2> QED
    BY <1>1, <2>1, FS_Subset
<1>3. Cardinality(A) \in Nat /\ (Cardinality(A) = 0 <=> A = {})
  BY <1>2, FS_CardinalityType, FS_EmptySet
<1>4. A = {} <=> \A i \in 1..Len(s) : s[i] \notin S
  BY <1>1
<1> QED
  BY <1>2, <1>3, <1>4 DEF Occ

\* An empty list has no entries.
LEMMA OccEmpty == \A S : Occ(S, <<>>) = 0
<1>1. \A S : {i \in DOMAIN <<>> : <<>>[i] \in S} = {}
  OBVIOUS
<1> QED
  BY <1>1, FS_EmptySet DEF Occ

\* A list of one entry.
LEMMA OccOne ==
  ASSUME NEW S, NEW x
  PROVE  Occ(S, <<x>>) = IF x \in S THEN 1 ELSE 0
<1>1. {i \in DOMAIN <<x>> : <<x>>[i] \in S} = IF x \in S THEN {1} ELSE {}
  OBVIOUS
<1> QED
  BY <1>1, FS_EmptySet, FS_Singleton DEF Occ

\* Joining lists, as containers and streams are, adds their entries.
LEMMA OccConcat ==
  ASSUME NEW X, NEW s \in Seq(X), NEW u \in Seq(X), NEW S
  PROVE  Occ(S, s \o u) = Occ(S, s) + Occ(S, u)
<1> DEFINE m == Len(s)
           A == {i \in DOMAIN s : s[i] \in S}
           B == {i \in DOMAIN u : u[i] \in S}
           C == {i \in DOMAIN (s \o u) : (s \o u)[i] \in S}
           D == {i \in C : i > m}
           f == [i \in B |-> i + m]
<1>1. /\ m \in Nat /\ DOMAIN s = 1..m /\ Len(u) \in Nat /\ DOMAIN u = 1..Len(u)
      /\ DOMAIN (s \o u) = 1 .. m + Len(u)
      /\ \A i \in 1 .. m + Len(u) : (s \o u)[i] = IF i <= m THEN s[i] ELSE u[i - m]
  <2>1. s \o u \in Seq(X) /\ Len(s \o u) = m + Len(u)
    BY ConcatProperties
  <2> QED
    BY <2>1, LenProperties, ConcatProperties
<1>2. IsFiniteSet(A) /\ IsFiniteSet(B)
  <2>1. IsFiniteSet(1..m) /\ IsFiniteSet(1..Len(u))
    BY <1>1, FS_Interval
  <2>2. A \in SUBSET (1..m) /\ B \in SUBSET (1..Len(u))
    BY <1>1
  <2> HIDE DEF A, B
  <2> QED
    BY <2>1, <2>2, FS_Subset
<1>3. f \in [B -> D]
  BY <1>1
<1>4. \A i, j \in B : f[i] = f[j] => i = j
  BY <1>1
<1>5. ASSUME NEW d \in D PROVE \E i \in B : f[i] = d
  <2>1. d - m \in B
    BY <1>1, <1>5
  <2>2. f[d - m] = d
    BY <2>1, <1>1, <1>5
  <2> QED
    BY <2>1, <2>2
<1> HIDE DEF f
<1>6. IsFiniteSet(D) /\ Cardinality(D) = Cardinality(B)
  <2> HIDE DEF A, B, C, D
  <2> QED
    BY <1>2, <1>3, <1>4, <1>5, SameSize
<1>7. C = A \cup D /\ A \cap D = {}
  BY <1>1
<1>8. Occ(S, s) = Cardinality(A) /\ Occ(S, u) = Cardinality(B) /\ Occ(S, s \o u) = Cardinality(C)
  BY DEF Occ
<1> HIDE DEF A, B, C, D
<1>9. Cardinality(C) = Cardinality(A) + Cardinality(D)
  BY <1>2, <1>6, <1>7, DisjointUnion
<1> QED
  BY <1>6, <1>8, <1>9

\* Taking the head off a list, as returnTag and the GPU do, takes one entry away.
LEMMA OccTail ==
  ASSUME NEW X, NEW s \in Seq(X), NEW S, s # <<>>
  PROVE  Occ(S, s) = Occ(S, Tail(s)) + IF Head(s) \in S THEN 1 ELSE 0
<1>1. Head(s) \in X /\ Tail(s) \in Seq(X) /\ <<Head(s)>> \in Seq(X)
  BY HeadTailProperties
<1>2. s = <<Head(s)>> \o Tail(s)
  <2>1. Len(<<Head(s)>> \o Tail(s)) = Len(s) /\ <<Head(s)>> \o Tail(s) \in Seq(X)
    BY <1>1, ConcatProperties, HeadTailProperties, EmptySeq
  <2>2. \A i \in 1..Len(s) : s[i] = (<<Head(s)>> \o Tail(s))[i]
    OBVIOUS
  <2> QED
    BY <2>1, <2>2, SeqEqual
<1>3. Occ(S, s) = Occ(S, <<Head(s)>>) + Occ(S, Tail(s))
  BY <1>1, <1>2, OccConcat
<1>4. Occ(S, <<Head(s)>>) = IF Head(s) \in S THEN 1 ELSE 0
  BY OccOne
<1>5. Occ(S, Tail(s)) \in Nat
  BY <1>1, OccType
<1> QED
  BY <1>3, <1>4, <1>5

-----------------------------------------------------------------------------
(* Families of lists *)

\* The entries of a family of lists are finitely many, and none if no list has one.
LEMMA SitesType ==
  ASSUME NEW X, NEW H, IsFiniteSet(H), NEW f \in [H -> Seq(X)], NEW S
  PROVE  /\ IsFiniteSet(Sites(S, f)) /\ Cardinality(Sites(S, f)) \in Nat
         /\ Cardinality(Sites(S, f)) = 0 <=> \A h \in H : \A i \in 1..Len(f[h]) : f[h][i] \notin S
<1> DEFINE F == {{h} \X DOMAIN f[h] : h \in H}
<1>1. \A h \in H : DOMAIN f[h] = 1..Len(f[h]) /\ Len(f[h]) \in Nat
  BY LenProperties
<1>2. \A T \in F : IsFiniteSet(T)
  <2> TAKE T \in F
  <2>1. PICK h \in H : T = {h} \X DOMAIN f[h]
    OBVIOUS
  <2>2. IsFiniteSet({h})
    BY FS_Singleton
  <2>3. IsFiniteSet(DOMAIN f[h])
    BY <1>1, FS_Interval
  <2> QED
    BY <2>1, <2>2, <2>3, FS_Product
<1>3. IsFiniteSet(F)
  <2> DEFINE g == [h \in H |-> {h} \X DOMAIN f[h]]
  <2>1. g \in Surjection(H, F)
    BY DEF Surjection
  <2> QED
    BY <2>1, FS_Surjection
<1> HIDE DEF F
<1>4. IsFiniteSet(UNION F)
  BY <1>2, <1>3, FS_UNION
<1>5. Sites(S, f) \subseteq UNION F
  BY DEF Sites, F
<1>6. IsFiniteSet(Sites(S, f))
  BY <1>4, <1>5, FS_Subset
<1>7. Sites(S, f) = {} <=> \A h \in H : \A i \in 1..Len(f[h]) : f[h][i] \notin S
  <2>1. ASSUME Sites(S, f) = {}, NEW h \in H, NEW i \in 1..Len(f[h]), f[h][i] \in S
        PROVE FALSE
    <3>1. <<h, i>> \in {h} \X DOMAIN f[h]
      BY <1>1
    <3>2. <<h, i>> \in Sites(S, f)
      BY <3>1, <2>1 DEF Sites
    <3> QED
      BY <3>2, <2>1
  <2>2. ASSUME \A h \in H : \A i \in 1..Len(f[h]) : f[h][i] \notin S, NEW e \in Sites(S, f)
        PROVE FALSE
    <3>1. PICK h \in H : e \in {h} \X DOMAIN f[h] /\ f[e[1]][e[2]] \in S
      BY DEF Sites
    <3> QED
      BY <1>1, <2>2, <3>1
  <2> QED
    BY <2>1, <2>2
<1> QED
  BY <1>6, <1>7, FS_CardinalityType, FS_EmptySet

\* One list of the family is replaced: what a step on one container or stream does.
LEMMA SitesOne ==
  ASSUME NEW X, NEW H, IsFiniteSet(H), NEW f \in Families(H, X), NEW g \in Families(H, X), NEW S,
         NEW h \in H, \A x \in H \ {h} : g[x] = f[x]
  PROVE  Cardinality(Sites(S, g)) = Cardinality(Sites(S, f)) - Occ(S, f[h]) + Occ(S, g[h])
<1> DEFINE Here(u) == {i \in DOMAIN u : u[i] \in S}
           Rest(k) == {e \in Sites(S, k) : e[1] # h}
           Mine(k) == {e \in Sites(S, k) : e[1] = h}
<1>1. f \in [H -> Seq(X)] /\ g \in [H -> Seq(X)] /\ \A x \in H \ {h} : g[x] = f[x]
  BY DEF Families
<1>2. ASSUME NEW k \in [H -> Seq(X)]
      PROVE  /\ IsFiniteSet(Rest(k)) /\ Cardinality(Rest(k)) \in Nat
             /\ Cardinality(Sites(S, k)) = Cardinality(Rest(k)) + Occ(S, k[h])
  <2> DEFINE m == [i \in Here(k[h]) |-> <<h, i>>]
  <2>1. IsFiniteSet(Here(k[h])) /\ Cardinality(Here(k[h])) = Occ(S, k[h])
    BY OccType DEF Occ
  <2>2. \A i \in Here(k[h]) : <<h, i>> \in Mine(k)
    BY DEF Sites
  <2>3. m \in [Here(k[h]) -> Mine(k)]
    BY <2>2
  <2>4. \A i, j \in Here(k[h]) : m[i] = m[j] => i = j
    OBVIOUS
  <2>5. ASSUME NEW e \in Mine(k) PROVE \E i \in Here(k[h]) : m[i] = e
    <3>1. PICK x \in H : e \in {x} \X DOMAIN k[x] /\ k[e[1]][e[2]] \in S /\ e[1] = h
      BY DEF Sites
    <3>2. e = <<h, e[2]>> /\ e[2] \in Here(k[h])
      BY <3>1
    <3>3. m[e[2]] = e
      BY <3>2
    <3> QED
      BY <3>2, <3>3
  <2> HIDE DEF m, Mine, Here
  <2>6. IsFiniteSet(Mine(k)) /\ Cardinality(Mine(k)) = Occ(S, k[h])
    BY <2>1, <2>3, <2>4, <2>5, SameSize
  <2> USE DEF Mine
  <2>7. IsFiniteSet(Sites(S, k))
    BY SitesType
  <2>8. Sites(S, k) = Rest(k) \cup Mine(k) /\ Rest(k) \cap Mine(k) = {}
    OBVIOUS
  <2>9. IsFiniteSet(Rest(k))
    BY <2>7, FS_Subset
  <2> HIDE DEF Mine, Rest
  <2>10. Cardinality(Rest(k)) \in Nat /\ Cardinality(Sites(S, k)) = Cardinality(Rest(k)) + Cardinality(Mine(k))
    BY <2>6, <2>8, <2>9, DisjointUnion
  <2> QED
    BY <2>6, <2>9, <2>10
<1>3. Rest(g) = Rest(f)
  <2>1. ASSUME NEW k \in [H -> Seq(X)], NEW e
        PROVE  e \in Rest(k) <=> \E x \in H \ {h} : e \in {x} \X DOMAIN k[x] /\ k[x][e[2]] \in S
    BY DEF Sites
  <2>2. \A e : e \in Rest(g) <=> e \in Rest(f)
    BY <2>1, <1>1
  <2> QED
    BY <2>2
<1>4. Occ(S, f[h]) \in Nat /\ Occ(S, g[h]) \in Nat
  BY <1>1, OccType
<1> HIDE DEF Rest
<1>5. Cardinality(Sites(S, g)) = Cardinality(Rest(g)) + Occ(S, g[h])
  BY <1>1, <1>2
<1>6. Cardinality(Sites(S, f)) = Cardinality(Rest(f)) + Occ(S, f[h]) /\ Cardinality(Rest(f)) \in Nat
  BY <1>1, <1>2
<1> QED
  BY <1>3, <1>4, <1>5, <1>6

-----------------------------------------------------------------------------
(* Lists without repetition *)

\* Lists without common entries are joined, as releaseDeferredTags splices them.
LEMMA ConcatOnce ==
  ASSUME NEW X, NEW s \in Seq(X), NEW u \in Seq(X), IsInjective(s), IsInjective(u),
         Range(s) \cap Range(u) = {}
  PROVE  s \o u \in Seq(X) /\ IsInjective(s \o u) /\ Range(s \o u) = Range(s) \cup Range(u)
<1>1. /\ Len(s) \in Nat /\ DOMAIN s = 1..Len(s) /\ Len(u) \in Nat /\ DOMAIN u = 1..Len(u)
      /\ s \o u \in Seq(X) /\ Len(s \o u) = Len(s) + Len(u) /\ DOMAIN (s \o u) = 1 .. Len(s) + Len(u)
      /\ \A i \in 1 .. Len(s) + Len(u) : (s \o u)[i] = IF i <= Len(s) THEN s[i] ELSE u[i - Len(s)]
  BY ConcatProperties, LenProperties
<1>2. ASSUME NEW i \in 1 .. Len(s) + Len(u), NEW j \in 1 .. Len(s) + Len(u), (s \o u)[i] = (s \o u)[j]
      PROVE  i = j
  <2>1. CASE i <= Len(s) /\ j <= Len(s)
    BY <1>1, <1>2, <2>1 DEF IsInjective
  <2>2. CASE i > Len(s) /\ j > Len(s)
    <3>1. u[i - Len(s)] = u[j - Len(s)] /\ i - Len(s) \in DOMAIN u /\ j - Len(s) \in DOMAIN u
      BY <1>1, <1>2, <2>2
    <3>2. i - Len(s) = j - Len(s)
      BY <3>1 DEF IsInjective
    <3> QED
      BY <1>1, <3>2
  <2>3. CASE i <= Len(s) /\ j > Len(s)
    <3>1. s[i] \in Range(s) /\ u[j - Len(s)] \in Range(u) /\ s[i] = u[j - Len(s)]
      BY <1>1, <1>2, <2>3 DEF Range
    <3> QED
      BY <3>1
  <2>4. CASE i > Len(s) /\ j <= Len(s)
    <3>1. s[j] \in Range(s) /\ u[i - Len(s)] \in Range(u) /\ s[j] = u[i - Len(s)]
      BY <1>1, <1>2, <2>4 DEF Range
    <3> QED
      BY <3>1
  <2> QED
    BY <1>1, <2>1, <2>2, <2>3, <2>4
<1>3. IsInjective(s \o u)
  BY <1>1, <1>2 DEF IsInjective
<1>4. Range(s \o u) = Range(s) \cup Range(u)
  BY RangeConcatenation
<1> QED
  BY <1>1, <1>3, <1>4

\* A new entry is put in front, as pushFrontOne does.
LEMMA ConsOnce ==
  ASSUME NEW X, NEW s \in Seq(X), NEW x \in X, IsInjective(s), x \notin Range(s)
  PROVE  <<x>> \o s \in Seq(X) /\ IsInjective(<<x>> \o s) /\ Range(<<x>> \o s) = Range(s) \cup {x}
<1> DEFINE u == <<x>>
<1>1. u \in Seq(X) /\ IsInjective(u) /\ Range(u) = {x}
  BY DEF IsInjective, Range
<1> HIDE DEF u
<1>2. Range(u) \cap Range(s) = {}
  BY <1>1
<1>3. u \o s \in Seq(X) /\ IsInjective(u \o s) /\ Range(u \o s) = Range(u) \cup Range(s)
  BY <1>1, <1>2, ConcatOnce
<1> QED
  BY <1>1, <1>3 DEF u

\* The front entry is removed, as removeFrontOne does.
LEMMA TailOnce ==
  ASSUME NEW X, NEW s \in Seq(X), s # <<>>, IsInjective(s)
  PROVE  /\ Tail(s) \in Seq(X) /\ IsInjective(Tail(s)) /\ Range(Tail(s)) = Range(s) \ {Head(s)}
         /\ Head(s) \in Range(s) /\ Head(s) \in X
<1>1. /\ Len(s) \in Nat \ {0} /\ DOMAIN s = 1..Len(s) /\ Head(s) = s[1] /\ Head(s) \in X
      /\ Tail(s) \in Seq(X) /\ DOMAIN Tail(s) = 1 .. Len(s) - 1
      /\ \A i \in 1 .. Len(s) - 1 : Tail(s)[i] = s[i + 1]
  BY EmptySeq, LenProperties, HeadTailProperties
<1>2. ASSUME NEW i \in 1 .. Len(s) - 1, NEW j \in 1 .. Len(s) - 1, Tail(s)[i] = Tail(s)[j]
      PROVE  i = j
  <2>1. s[i + 1] = s[j + 1] /\ i + 1 \in DOMAIN s /\ j + 1 \in DOMAIN s
    BY <1>1, <1>2
  <2>2. i + 1 = j + 1
    BY <2>1 DEF IsInjective
  <2> QED
    BY <1>1, <2>2
<1>3. ASSUME NEW x \in Range(Tail(s)) PROVE x \in Range(s) \ {Head(s)}
  <2>1. PICK i \in 1 .. Len(s) - 1 : x = s[i + 1]
    BY <1>1 DEF Range
  <2>2. i + 1 \in DOMAIN s /\ i + 1 # 1 /\ 1 \in DOMAIN s
    BY <1>1
  <2> QED
    BY <1>1, <2>1, <2>2 DEF Range, IsInjective
<1>4. ASSUME NEW x \in Range(s), x # Head(s) PROVE x \in Range(Tail(s))
  <2>1. PICK i \in 1 .. Len(s) : x = s[i]
    BY <1>1 DEF Range
  <2>2. i - 1 \in 1 .. Len(s) - 1 /\ Tail(s)[i - 1] = x
    BY <1>1, <1>4, <2>1
  <2> QED
    BY <1>1, <2>2 DEF Range
<1>5. Head(s) \in Range(s)
  BY <1>1 DEF Range
<1> QED
  BY <1>1, <1>2, <1>3, <1>4, <1>5 DEF IsInjective

-----------------------------------------------------------------------------
(* Instructions *)

\* The order in which a set is listed has no repetition and no gap.
LEMMA SetAsSequence ==
  ASSUME NEW S, IsFiniteSet(S)
  PROVE  SetToSeq(S) \in [1..Cardinality(S) -> S] /\ Cardinality(S) \in Nat
<1>1. Cardinality(S) \in Nat /\ ExistsBijection(1..Cardinality(S), S)
  BY FS_CardinalityType
<1>2. PICK f \in Bijection(1..Cardinality(S), S) : TRUE
  BY <1>1 DEF ExistsBijection
<1>3. f \in [1..Cardinality(S) -> S] /\ IsInjective(f)
  BY <1>2 DEF Bijection, Injection, IsInjective
<1> QED
  BY <1>1, <1>3 DEF SetToSeq

\* The nodes of the events of a wait list are tags that these events hold.
LEMMA EventNodesType ==
  ASSUME TypeOK, NEW cs \in SUBSET Commands
  PROVE  /\ EventNodes(cs) \in Seq(Tags)
         /\ \A i \in 1..Len(EventNodes(cs)) : \E w \in cs :
               EventNodes(cs)[i] \in Range(nodes[<<"event", w>>])
<1> DEFINE at(w) == {w} \X DOMAIN nodes[<<"event", w>>]
           S == UNION {at(w) : w \in cs}
           f == SetToSeq(S)
           n == Cardinality(S)
<1>0. \A w \in cs : <<"event", w>> \in Holders /\ nodes[<<"event", w>>] \in Seq(Tags)
  BY DEF Holders, TypeOK
<1>1. IsFiniteSet(S)
  <2> DEFINE F == {at(w) : w \in cs}
             g == [w \in cs |-> at(w)]
  <2>1. IsFiniteSet(cs)
    BY PacketsAssumption, FS_Subset
  <2>2. g \in Surjection(cs, F)
    BY DEF Surjection
  <2>3. IsFiniteSet(F)
    BY <2>1, <2>2, FS_Surjection
  <2>4. ASSUME NEW w \in cs PROVE IsFiniteSet(at(w))
    <3>1. DOMAIN nodes[<<"event", w>>] = 1..Len(nodes[<<"event", w>>]) /\ Len(nodes[<<"event", w>>]) \in Nat
      BY <1>0, LenProperties
    <3>2. IsFiniteSet(DOMAIN nodes[<<"event", w>>])
      BY <3>1, FS_Interval
    <3>3. IsFiniteSet({w})
      BY FS_Singleton
    <3> QED
      BY <3>2, <3>3, FS_Product
  <2>5. \A T \in F : IsFiniteSet(T)
    BY <2>4
  <2> HIDE DEF F
  <2>6. IsFiniteSet(UNION F)
    BY <2>3, <2>5, FS_UNION
  <2> QED
    BY <2>6 DEF F
<1>2. f \in [1..n -> S] /\ n \in Nat
  <2> HIDE DEF S
  <2> QED
    BY <1>1, SetAsSequence
<1>3. EventNodes(cs) = [k \in 1..n |-> nodes[<<"event", f[k][1]>>][f[k][2]]]
  <2>1. DOMAIN f = 1..n
    BY <1>2
  <2> QED
    BY <2>1 DEF EventNodes
<1>4. ASSUME NEW k \in 1..n
      PROVE  \E w \in cs : nodes[<<"event", f[k][1]>>][f[k][2]] \in Range(nodes[<<"event", w>>])
  <2>1. f[k] \in S
    BY <1>2
  <2>2. PICK w \in cs : f[k] \in at(w)
    BY <2>1
  <2>3. f[k][1] = w /\ f[k][2] \in DOMAIN nodes[<<"event", w>>]
    BY <2>2
  <2> QED
    BY <2>3 DEF Range
<1>5. \A w \in cs : Range(nodes[<<"event", w>>]) \subseteq Tags
  BY <1>0, RangeOfSeq
<1>6. \A k \in 1..n : nodes[<<"event", f[k][1]>>][f[k][2]] \in Tags
  BY <1>4, <1>5
<1> HIDE DEF f, n, S
<1>7. EventNodes(cs) \in Seq(Tags) /\ Len(EventNodes(cs)) = n
  BY <1>2, <1>3, <1>6
<1> QED
  BY <1>3, <1>4, <1>7

-----------------------------------------------------------------------------
(* What is written to the streams *)

\* Instruction k, if even, is the second of the pair for entry (k + 1) \div 2 of the list.
LEMMA EvenHalf ==
  ASSUME NEW m \in Nat, NEW k \in 1 .. 2 * m, k % 2 # 1
  PROVE  (k + 1) \div 2 \in 1..m /\ 2 * ((k + 1) \div 2) = k
<1>1. PICK j \in Nat : k = 2 * j
  BY k % 2 = 0, k = 2 * (k \div 2), k \div 2 \in Nat
<1>2. (2 * j + 1) \div 2 = j
  OBVIOUS
<1> QED
  BY <1>1, <1>2

\* The semaphores and decrements for a list of tags: as many decrements of a tag as
\* the list has entries of it, each behind its semaphore, and no writes.
LEMMA DependenciesType ==
  ASSUME TypeOK, NEW c \in Commands, NEW s \in Seq(Tags)
  PROVE  LET d == programCsrDependencies(c, s) IN
         /\ d \in Seq(Instructions) /\ Paired(d)
         /\ \A k \in 1..Len(d) : /\ d[k].by = c /\ d[k].for = tagOf[d[k].tag]
                                 /\ d[k].op # "write" /\ d[k].tag \in Range(s)
         /\ \A n \in Tags : Occ(Decrements(n), d) = Occ({n}, s) /\ Occ(Writes(n), d) = 0
<1> DEFINE d == programCsrDependencies(c, s)
           m == Len(s)
           ins(o, n) == [op |-> o, tag |-> n, for |-> tagOf[n], by |-> c]
<1>1. m \in Nat /\ DOMAIN s = 1..m /\ \A i \in 1..m : s[i] \in Tags
  BY LenProperties, ElementOfSeq
<1>2. \A n \in Tags : tagOf[n] \in Commands \cup {None}
  BY DEF TypeOK
<1>3. ASSUME NEW k \in 1 .. 2 * m
      PROVE  /\ (k + 1) \div 2 \in 1..m
             /\ k % 2 = 1 => k + 1 \in 1 .. 2 * m /\ (k + 2) \div 2 = (k + 1) \div 2 /\ (k + 1) % 2 # 1
  BY <1>1
<1>4. ASSUME NEW k \in 1 .. 2 * m
      PROVE  LET n == s[(k + 1) \div 2] IN
             ins(IF k % 2 = 1 THEN "wait" ELSE "decrement", n) \in Instructions
  <2>1. s[(k + 1) \div 2] \in Tags
    BY <1>1, <1>3
  <2>2. tagOf[s[(k + 1) \div 2]] \in Commands \cup {None}
    BY <1>2, <2>1
  <2> QED
    BY <2>1, <2>2 DEF Instructions
<1>5. /\ d \in Seq(Instructions) /\ Len(d) = 2 * m /\ DOMAIN d = 1 .. 2 * m
      /\ \A k \in 1 .. 2 * m : d[k] = ins(IF k % 2 = 1 THEN "wait" ELSE "decrement", s[(k + 1) \div 2])
  <2>1. d = [k \in 1 .. 2 * m |-> ins(IF k % 2 = 1 THEN "wait" ELSE "decrement", s[(k + 1) \div 2])]
    BY DEF programCsrDependencies
  <2>2. 2 * m \in Nat
    BY <1>1
  <2> HIDE DEF d, m, ins
  <2>3. \A k \in 1 .. 2 * m : ins(IF k % 2 = 1 THEN "wait" ELSE "decrement", s[(k + 1) \div 2]) \in Instructions
    BY <1>4 DEF ins
  <2> QED
    BY <2>1, <2>2, <2>3
<1> HIDE DEF d
<1>6. \A k \in 1..Len(d) : /\ d[k].by = c /\ d[k].for = tagOf[d[k].tag]
                           /\ d[k].op # "write" /\ d[k].tag \in Range(s)
  <2> TAKE k \in 1..Len(d)
  <2> DEFINE n == s[(k + 1) \div 2]
             o == IF k % 2 = 1 THEN "wait" ELSE "decrement"
  <2>1. k \in 1 .. 2 * m /\ n \in Range(s)
    BY <1>1, <1>3, <1>5 DEF Range
  <2>2. d[k] = [op |-> o, tag |-> n, for |-> tagOf[n], by |-> c] /\ o # "write"
    BY <1>5, <2>1
  <2> HIDE DEF n, o
  <2> QED
    BY <2>1, <2>2
<1>7. Paired(d)
  <2> SUFFICES ASSUME NEW i \in 1..Len(d), d[i].op = "wait"
               PROVE  i + 1 <= Len(d) /\ d[i + 1].op = "decrement" /\ d[i + 1].tag = d[i].tag
    BY DEF Paired
  <2>1. i \in 1 .. 2 * m /\ i % 2 = 1
    BY <1>5
  <2>2. i + 1 \in 1 .. 2 * m /\ (i + 2) \div 2 = (i + 1) \div 2 /\ (i + 1) % 2 # 1 /\ i + 1 <= 2 * m
    BY <1>1, <1>3, <2>1
  <2>3. d[i + 1] = ins("decrement", s[((i + 1) + 1) \div 2]) /\ (i + 1) + 1 = i + 2
    BY <1>5, <2>2
  <2>4. d[i] = ins("wait", s[(i + 1) \div 2])
    BY <1>5, <2>1
  <2>5. d[i + 1].op = "decrement" /\ d[i + 1].tag = s[(i + 1) \div 2]
    BY <2>2, <2>3
  <2>6. d[i].tag = s[(i + 1) \div 2]
    BY <2>4
  <2> QED
    BY <1>5, <2>2, <2>5, <2>6
<1>8. ASSUME NEW n \in Tags PROVE Occ(Decrements(n), d) = Occ({n}, s)
  <2> DEFINE A == {i \in DOMAIN s : s[i] \in {n}}
             B == {k \in DOMAIN d : d[k] \in Decrements(n)}
             f == [i \in A |-> 2 * i]
  <2>1. \A i \in A : i \in 1..m /\ 2 * i \in 1 .. 2 * m /\ (2 * i) % 2 # 1 /\ (2 * i + 1) \div 2 = i
    BY <1>1
  <2>2. \A i \in A : 2 * i \in B
    <3> TAKE i \in A
    <3>1. d[2 * i] = ins("decrement", s[i]) /\ s[i] = n
      BY <1>5, <2>1
    <3>2. d[2 * i] \in Instructions
      BY <1>5, <2>1, ElementOfSeq
    <3>3. d[2 * i].op = "decrement" /\ d[2 * i].tag = n
      BY <3>1
    <3>4. 2 * i \in DOMAIN d
      BY <1>5, <2>1
    <3> QED
      BY <3>2, <3>3, <3>4 DEF Decrements
  <2>3. f \in [A -> B]
    BY <2>2
  <2>4. \A i, j \in A : f[i] = f[j] => i = j
    BY <2>1
  <2>5. ASSUME NEW k \in B PROVE \E i \in A : f[i] = k
    <3>1. k \in 1 .. 2 * m /\ d[k].op = "decrement" /\ d[k].tag = n
      BY <1>5 DEF Decrements
    <3>2. k % 2 # 1 /\ s[(k + 1) \div 2] = n
      BY <1>5, <3>1
    <3>3. (k + 1) \div 2 \in 1..m /\ 2 * ((k + 1) \div 2) = k
      BY <1>1, <3>1, <3>2, EvenHalf, Zenon
    <3>4. (k + 1) \div 2 \in A
      BY <1>1, <3>2, <3>3
    <3> QED
      BY <3>3, <3>4
  <2>6. IsFiniteSet(A) /\ Occ({n}, s) = Cardinality(A) /\ Occ(Decrements(n), d) = Cardinality(B)
    <3>1. IsFiniteSet(1..m) /\ A \in SUBSET (1..m)
      BY <1>1, FS_Interval
    <3>2. IsFiniteSet(A)
      <4> HIDE DEF A
      <4> QED  BY <3>1, FS_Subset
    <3> QED
      BY <3>2 DEF Occ
  <2> HIDE DEF f, A, B
  <2> QED
    BY <2>3, <2>4, <2>5, <2>6, SameSize
<1>9. ASSUME NEW n \in Tags PROVE Occ(Writes(n), d) = 0
  <2>1. \A k \in 1..Len(d) : d[k] \notin Writes(n)
    BY <1>6 DEF Writes
  <2> QED
    BY <1>5, <2>1, OccType
<1> QED
  BY <1>5, <1>6, <1>7, <1>8, <1>9 DEF d

\* The writes of a list of tags.
LEMMA WritesType ==
  ASSUME NEW c \in Commands, NEW s \in Seq(Tags)
  PROVE  LET d == setupTimestampPacket(c, s) IN
         /\ d \in Seq(Instructions) /\ Paired(d)
         /\ \A k \in 1..Len(d) : /\ d[k].by = c /\ d[k].for = c /\ d[k].op = "write" /\ d[k].tag \in Range(s)
         /\ \A n \in Tags : Occ(Decrements(n), d) = 0 /\ Occ(Writes(n), d) = Occ({n}, s)
<1> DEFINE d == setupTimestampPacket(c, s)
           m == Len(s)
<1>1. m \in Nat /\ DOMAIN s = 1..m /\ \A i \in 1..m : s[i] \in Tags
  BY LenProperties, ElementOfSeq
<1>2. d = [i \in 1..m |-> [op |-> "write", tag |-> s[i], for |-> c, by |-> c]]
  BY <1>1 DEF setupTimestampPacket
<1>3. \A i \in 1..m : [op |-> "write", tag |-> s[i], for |-> c, by |-> c] \in Instructions
  BY <1>1 DEF Instructions
<1>4. d \in Seq(Instructions) /\ Len(d) = m /\ DOMAIN d = 1..m
  BY <1>1, <1>2, <1>3
<1>5. \A k \in 1..m : d[k].by = c /\ d[k].for = c /\ d[k].op = "write" /\ d[k].tag = s[k] /\ d[k] \in Instructions
  BY <1>2, <1>3
<1> HIDE DEF d
<1>6. Paired(d)
  BY <1>4, <1>5 DEF Paired
<1>7. ASSUME NEW n \in Tags PROVE Occ(Decrements(n), d) = 0 /\ Occ(Writes(n), d) = Occ({n}, s)
  <2>1. \A k \in 1..Len(d) : d[k] \notin Decrements(n)
    BY <1>4, <1>5 DEF Decrements
  <2>2. {i \in DOMAIN d : d[i] \in Writes(n)} = {i \in DOMAIN s : s[i] \in {n}}
    BY <1>1, <1>4, <1>5 DEF Writes
  <2>3. Occ(Decrements(n), d) = 0
    BY <1>4, <2>1, OccType
  <2> QED
    BY <2>2, <2>3 DEF Occ
<1> QED
  BY <1>1, <1>4, <1>5, <1>6, <1>7 DEF d, Range

\* Semaphores stay in front of their decrements when streams are joined, and when
\* one that is not a semaphore is executed.
LEMMA PairedConcat ==
  ASSUME NEW s \in Seq(Instructions), NEW u \in Seq(Instructions), Paired(s), Paired(u)
  PROVE  s \o u \in Seq(Instructions) /\ Paired(s \o u)
<1>1. /\ Len(s) \in Nat /\ Len(u) \in Nat /\ s \o u \in Seq(Instructions) /\ Len(s \o u) = Len(s) + Len(u)
      /\ \A i \in 1 .. Len(s) + Len(u) : (s \o u)[i] = IF i <= Len(s) THEN s[i] ELSE u[i - Len(s)]
  BY ConcatProperties, LenProperties
<1>2. ASSUME NEW i \in 1 .. Len(s) + Len(u), (s \o u)[i].op = "wait"
      PROVE  /\ i + 1 <= Len(s) + Len(u) /\ (s \o u)[i + 1].op = "decrement"
             /\ (s \o u)[i + 1].tag = (s \o u)[i].tag
  <2>1. CASE i <= Len(s)
    <3>1. i \in 1..Len(s) /\ s[i].op = "wait"
      BY <1>1, <1>2, <2>1
    <3>2. i + 1 <= Len(s) /\ s[i + 1].op = "decrement" /\ s[i + 1].tag = s[i].tag
      BY <3>1 DEF Paired
    <3> QED
      BY <1>1, <2>1, <3>2
  <2>2. CASE i > Len(s)
    <3> DEFINE j == i - Len(s)
    <3>1. j \in 1..Len(u) /\ u[j].op = "wait" /\ (s \o u)[i] = u[j]
      BY <1>1, <1>2, <2>2
    <3>2. j + 1 <= Len(u) /\ u[j + 1].op = "decrement" /\ u[j + 1].tag = u[j].tag
      BY <3>1 DEF Paired
    <3>3. i + 1 \in 1 .. Len(s) + Len(u) /\ ~(i + 1 <= Len(s)) /\ i + 1 - Len(s) = j + 1
      BY <1>1, <2>2, <3>2
    <3>4. (s \o u)[i + 1] = u[j + 1]
      BY <1>1, <3>3
    <3> QED
      BY <1>1, <3>1, <3>2, <3>3, <3>4
  <2> QED
    BY <1>1, <2>1, <2>2
<1> QED
  BY <1>1, <1>2 DEF Paired

\* Semaphores stay in front of their decrements when the first instruction is executed.
LEMMA PairedTail ==
  ASSUME NEW s \in Seq(Instructions), s # <<>>, Paired(s)
  PROVE  Tail(s) \in Seq(Instructions) /\ Paired(Tail(s))
<1>1. /\ Len(s) \in Nat /\ Tail(s) \in Seq(Instructions) /\ Len(Tail(s)) = Len(s) - 1
      /\ \A i \in 1 .. Len(s) - 1 : Tail(s)[i] = s[i + 1]
  BY HeadTailProperties, LenProperties
<1>2. ASSUME NEW i \in 1 .. Len(s) - 1, Tail(s)[i].op = "wait"
      PROVE  /\ i + 1 <= Len(s) - 1 /\ Tail(s)[i + 1].op = "decrement"
             /\ Tail(s)[i + 1].tag = Tail(s)[i].tag
  <2>1. i + 1 \in 1..Len(s) /\ s[i + 1].op = "wait"
    BY <1>1, <1>2
  <2>2. i + 2 <= Len(s) /\ s[i + 2].op = "decrement" /\ s[i + 2].tag = s[i + 1].tag
    <3>1. (i + 1) + 1 = i + 2
      OBVIOUS
    <3> QED
      BY <2>1, <3>1 DEF Paired
  <2>3. i + 1 \in 1 .. Len(s) - 1 /\ Tail(s)[i + 1] = s[i + 2]
    BY <1>1, <2>2
  <2> QED
    BY <1>1, <2>2, <2>3
<1> QED
  BY <1>1, <1>2 DEF Paired

-----------------------------------------------------------------------------
(* Constants and fields *)

\* What the constants are.
LEMMA ConstantFacts ==
  /\ None \notin Threads /\ None \notin Tags /\ None \notin Commands
  /\ IsFiniteSet(Threads) /\ IsFiniteSet(Csrs) /\ IsFiniteSet(Commands) /\ IsFiniteSet(Holders)
  /\ \A c \in Commands : QueueOf[c] \in Queues /\ Csr(c) \in Csrs /\ QueueOf[c] \in Holders /\ WaitList[c] \in SUBSET Commands
  /\ \A q \in Queues : q \in Holders /\ CsrOf[q] \in Csrs
  /\ \A k \in {"event", "current", "previous", "stack"} : \A c \in Commands :
       <<k, c>> \in Holders /\ \A q \in Queues : q # <<k, c>>
<1>1. IsFiniteSet(Holders)
  <2>1. IsFiniteSet({"event"}) /\ IsFiniteSet({"current"}) /\ IsFiniteSet({"previous"}) /\ IsFiniteSet({"stack"})
    BY FS_Singleton
  <2>2. IsFiniteSet({"event"} \cup {"current"}) /\ IsFiniteSet({"previous"} \cup {"stack"})
    BY <2>1, FS_Union
  <2>3. IsFiniteSet({"event", "current", "previous", "stack"})
    <3>1. {"event", "current", "previous", "stack"} = ({"event"} \cup {"current"}) \cup ({"previous"} \cup {"stack"})
      OBVIOUS
    <3>2. IsFiniteSet(({"event"} \cup {"current"}) \cup ({"previous"} \cup {"stack"}))
      BY <2>2, FS_Union
    <3> QED
      BY <3>1, <3>2
  <2>4. IsFiniteSet({"event", "current", "previous", "stack"} \X Commands)
    BY <2>3, PacketsAssumption, FS_Product
  <2> QED
    BY <2>4, PacketsAssumption, FS_Union DEF Holders
<1>2. \A k \in {"event", "current", "previous", "stack"} : \A c \in Commands :
        <<k, c>> \in {"event", "current", "previous", "stack"} \X Commands
  OBVIOUS
<1>3. \A k \in {"event", "current", "previous", "stack"} : \A c \in Commands :
       <<k, c>> \in Holders /\ \A q \in Queues : q # <<k, c>>
  BY <1>2, PacketsAssumption DEF Holders
<1>4. \A c \in Commands : QueueOf[c] \in Queues /\ Csr(c) \in Csrs /\ QueueOf[c] \in Holders /\ WaitList[c] \in SUBSET Commands
  BY PacketsAssumption DEF Csr, Holders
<1>5. \A q \in Queues : q \in Holders /\ CsrOf[q] \in Csrs
  BY PacketsAssumption DEF Holders
<1> QED
  BY <1>1, <1>3, <1>4, <1>5, PacketsAssumption

-----------------------------------------------------------------------------
(* Types *)

\* A thread between calls.
LEMMA IdleType == Idle \in ThreadState
<1>1. \A X : <<>> \in Seq(X)
  OBVIOUS
<1> QED
  BY <1>1 DEF Idle, ThreadState, Enqueuing, Early

\* The fields of a thread's state.
LEMMA Fields ==
  ASSUME NEW s \in ThreadState
  PROVE  /\ s.pc \in Enqueuing \cup {"idle", "wait"} /\ s.cmd \in Commands \cup {None} /\ s.blocked \in BOOLEAN
         /\ s.toResolve \in Seq(Tags) /\ s.toDrop \in Seq(Commands) /\ s.toReturn \in Seq(Tags)
         /\ s.place \in {"none", "free", "deferred"} /\ s.node \in Tags \cup {None}
         /\ s.detached \in Seq(Tags) /\ s.ready \in Seq(Tags) /\ s.pending \in Seq(Tags)
  BY DEF ThreadState

\* A step of t sets the state of t and leaves the other threads.
LEMMA ThreadsTyped ==
  ASSUME TypeOK, NEW t \in Threads, NEW s \in ThreadState, thread' = [thread EXCEPT ![t] = s]
  PROVE  /\ thread' \in [Threads -> ThreadState] /\ thread'[t] = s
         /\ \A u \in Threads \ {t} : thread'[u] = thread[u]
  BY DEF TypeOK

\* References are added to the tags of a list.
LEMMA AddRefsType ==
  ASSUME TypeOK, NEW s \in Seq(Tags), AddRefs(s)
  PROVE  refCount' \in [Tags -> Int] /\ \A n \in Tags : refCount'[n] = refCount[n] + Occ({n}, s)
<1>1. \A n \in Tags : Occurrences(n, s) = Occ({n}, s)
  <2> TAKE n \in Tags
  <2>1. {i \in DOMAIN s : s[i] = n} = {i \in DOMAIN s : s[i] \in {n}}
    OBVIOUS
  <2> QED
    BY <2>1 DEF Occurrences, Occ
<1>2. \A n \in Tags : Occ({n}, s) \in Nat
  BY OccType
<1>3. \A n \in Tags : refCount[n] \in Int
  BY DEF TypeOK
<1>4. \A n \in Tags : refCount'[n] = refCount[n] + Occurrences(n, s)
  BY DEF AddRefs
<1>5. \A n \in Tags : refCount'[n] = refCount[n] + Occ({n}, s)
  BY <1>1, <1>4
<1>6. \A n \in Tags : refCount'[n] \in Int
  <2> TAKE n \in Tags
  <2>1. refCount[n] \in Int /\ Occ({n}, s) \in Nat
    BY <1>2, <1>3
  <2> QED
    BY <1>5, <2>1
<1>7. refCount' = [n \in Tags |-> refCount'[n]]
  BY DEF AddRefs
<1> QED
  BY <1>5, <1>6, <1>7

\* incImplicitDependenciesCount adds the entries of the list to the counters.
LEMMA IncrementType ==
  ASSUME TypeOK, NEW s \in Seq(Tags), incImplicitDependenciesCount(s)
  PROVE  /\ packet' \in [Tags -> [ended : BOOLEAN, implicitDependenciesCount : Int]]
         /\ \A n \in Tags : /\ packet'[n].ended = packet[n].ended
                            /\ packet'[n].implicitDependenciesCount
                                 = packet[n].implicitDependenciesCount + Occ({n}, s)
<1>1. \A n \in Tags : Occurrences(n, s) = Occ({n}, s)
  <2> TAKE n \in Tags
  <2>1. {i \in DOMAIN s : s[i] = n} = {i \in DOMAIN s : s[i] \in {n}}
    OBVIOUS
  <2> QED
    BY <2>1 DEF Occurrences, Occ
<1>2. \A n \in Tags : Occ({n}, s) \in Nat
  BY OccType
<1>3. \A n \in Tags : packet[n] \in [ended : BOOLEAN, implicitDependenciesCount : Int]
  BY DEF TypeOK
<1> DEFINE new(n) == [packet[n] EXCEPT !.implicitDependenciesCount = @ + Occurrences(n, s)]
<1>4. packet' = [n \in Tags |-> new(n)]
  BY DEF incImplicitDependenciesCount
<1>5. ASSUME NEW n \in Tags
      PROVE  /\ new(n) \in [ended : BOOLEAN, implicitDependenciesCount : Int]
             /\ new(n).ended = packet[n].ended
             /\ new(n).implicitDependenciesCount = packet[n].implicitDependenciesCount + Occ({n}, s)
  <2>1. packet[n] \in [ended : BOOLEAN, implicitDependenciesCount : Int] /\ Occ({n}, s) \in Nat
    BY <1>2, <1>3
  <2>2. Occurrences(n, s) = Occ({n}, s)
    BY <1>1
  <2> HIDE DEF new
  <2>3. new(n) = [packet[n] EXCEPT !.implicitDependenciesCount = @ + Occ({n}, s)]
    BY <2>2 DEF new
  <2> QED
    BY <2>1, <2>3
<1> HIDE DEF new
<1> QED
  BY <1>4, <1>5

\* What a command waits for are tags.
LEMMA WaitsType ==
  ASSUME TypeOK, NEW c \in Commands
  PROVE  OnCsr(c) \in Seq(Tags) /\ OutOfCsr(c) \in Seq(Tags)
<1>1. {w \in WaitList[c] : Csr(w) = Csr(c)} \in SUBSET Commands /\ {w \in WaitList[c] : Csr(w) # Csr(c)} \in SUBSET Commands
  BY ConstantFacts
<1> QED
  BY <1>1, EventNodesType DEF OnCsr, OutOfCsr

\* The steps of the allocator.
LEMMA AllocatorTypes ==
  ASSUME ControlInv, NEW t \in Threads, Allocator(t)
  PROVE  TypeOK'
<1> DEFINE s == thread[t]
           r == allocatorOf(t)
<1>0. TypeOK /\ s \in ThreadState /\ ThreadOK(s)
  BY DEF ControlInv, TypeOK, ThreadInv
<1>1. /\ s.pc \in Enqueuing \cup {"idle", "wait"} /\ s.toResolve \in Seq(Tags) /\ s.toDrop \in Seq(Commands) /\ s.toReturn \in Seq(Tags)
      /\ s.cmd \in Commands \cup {None} /\ s.node \in Tags \cup {None}
      /\ s.detached \in Seq(Tags) /\ s.ready \in Seq(Tags) /\ s.pending \in Seq(Tags)
      /\ s.place \in {"none", "free", "deferred"}
  BY <1>0, Fields
<1>2. \A n \in Seq(Tags) : n # <<>> => Head(n) \in Tags /\ Tail(n) \in Seq(Tags)
  BY HeadTailProperties
<1>3. s.pc # "idle" => s.cmd \in Commands /\ r \in Csrs
  BY <1>0, <1>1, ConstantFacts DEF ThreadOK, allocatorOf
<1>4. \A r1 \in Csrs : freeTags[r1] \in Seq(Tags) /\ deferredTags[r1] \in Seq(Tags) /\ usedTags[r1] \in SUBSET Tags /\ populated[r1] \in Nat
  BY <1>0 DEF TypeOK
<1>5. CASE returnTag(t)
  <2>1. Tail(s.toReturn) \in Seq(Tags) /\ Head(s.toReturn) \in Tags
    BY <1>1, <1>2, <1>5 DEF returnTag
  <2>2. refCount' \in [Tags -> Int]
    BY <1>0, <1>5, <2>1 DEF returnTag, TypeOK
  <2>3. thread' \in [Threads -> ThreadState]
    BY <1>0, <1>5, <2>1 DEF returnTag, TypeOK, ThreadState, Enqueuing, Early
  <2> QED
    BY <1>0, <1>5, <2>2, <2>3 DEF returnTag, TypeOK, cmdVars
<1>6. CASE returnTagToFreePool(t)
  <2> DEFINE n == Head(s.toReturn)
  <2>1. Tail(s.toReturn) \in Seq(Tags) /\ n \in Tags
    BY <1>0, <1>1, <1>2, <1>6 DEF returnTagToFreePool, ThreadOK
  <2>2. TagCsr(n) \in Csrs
    <3>1. \E r1 \in Csrs : n \in Range(TagMemory[r1])
      BY <2>1 DEF Tags
    <3> QED
      BY <3>1 DEF TagCsr
  <2>3. <<n>> \o freeTags[TagCsr(n)] \in Seq(Tags)
    BY <1>4, <2>1, <2>2
  <2>4. freeTags' \in [Csrs -> Seq(Tags)] /\ usedTags' \in [Csrs -> SUBSET Tags]
    BY <1>0, <1>4, <1>6, <2>2, <2>3 DEF returnTagToFreePool, TypeOK
  <2>5. thread' \in [Threads -> ThreadState]
    BY <1>0, <1>6, <2>1 DEF returnTagToFreePool, TypeOK, ThreadState, Enqueuing, Early
  <2> QED
    BY <1>0, <1>6, <2>4, <2>5 DEF returnTagToFreePool, TypeOK, cmdVars
<1>7. CASE returnTagToDeferredPool(t)
  <2> DEFINE n == Head(s.toReturn)
  <2>1. Tail(s.toReturn) \in Seq(Tags) /\ n \in Tags
    BY <1>0, <1>1, <1>2, <1>7 DEF returnTagToDeferredPool, ThreadOK
  <2>2. TagCsr(n) \in Csrs
    <3>1. \E r1 \in Csrs : n \in Range(TagMemory[r1])
      BY <2>1 DEF Tags
    <3> QED
      BY <3>1 DEF TagCsr
  <2>3. <<n>> \o deferredTags[TagCsr(n)] \in Seq(Tags)
    BY <1>4, <2>1, <2>2
  <2>4. deferredTags' \in [Csrs -> Seq(Tags)] /\ usedTags' \in [Csrs -> SUBSET Tags]
    BY <1>0, <1>4, <1>7, <2>2, <2>3 DEF returnTagToDeferredPool, TypeOK
  <2>5. thread' \in [Threads -> ThreadState]
    BY <1>0, <1>7, <2>1 DEF returnTagToDeferredPool, TypeOK, ThreadState, Enqueuing, Early
  <2> QED
    BY <1>0, <1>7, <2>4, <2>5 DEF returnTagToDeferredPool, TypeOK, cmdVars
<1>8. CASE GetTag(t)
  <2>1. thread' \in [Threads -> ThreadState]
    BY <1>0, <1>8 DEF GetTag, Goto, TypeOK, ThreadState, Enqueuing, Early
  <2> QED
    BY <1>0, <1>8, <2>1 DEF GetTag, TypeOK, cmdVars, tagVars
<1>9. CASE DetachDeferred(t)
  <2>1. r \in Csrs /\ deferredTags[r] \in Seq(Tags)
    BY <1>3, <1>4, <1>9 DEF DetachDeferred, At
  <2>2. thread' \in [Threads -> ThreadState]
    BY <1>0, <1>9, <2>1 DEF DetachDeferred, TypeOK, ThreadState, Enqueuing, Early
  <2>3. deferredTags' \in [Csrs -> Seq(Tags)]
    BY <1>0, <1>9, <2>1 DEF DetachDeferred, TypeOK
  <2> QED
    BY <1>0, <1>9, <2>2, <2>3 DEF DetachDeferred, TypeOK, cmdVars, notLists
<1>10. CASE SortDeferred(t)
  <2>1. Tail(s.detached) \in Seq(Tags) /\ Head(s.detached) \in Tags
    BY <1>1, <1>2, <1>10 DEF SortDeferred
  <2>2. <<Head(s.detached)>> \o s.ready \in Seq(Tags) /\ <<Head(s.detached)>> \o s.pending \in Seq(Tags)
    BY <1>1, <2>1
  <2>3. thread' \in [Threads -> ThreadState]
    BY <1>0, <1>10, <2>1, <2>2 DEF SortDeferred, TypeOK, ThreadState, Enqueuing, Early
  <2> QED
    BY <1>0, <1>10, <2>3 DEF SortDeferred, TypeOK, cmdVars, tagVars
<1>11. CASE SpliceReady(t)
  <2>1. r \in Csrs /\ freeTags[r] \o s.ready \in Seq(Tags)
    BY <1>1, <1>3, <1>4, <1>11 DEF SpliceReady, At
  <2>2. thread' \in [Threads -> ThreadState]
    BY <1>0, <1>11 DEF SpliceReady, TypeOK, ThreadState, Enqueuing, Early
  <2>3. freeTags' \in [Csrs -> Seq(Tags)]
    BY <1>0, <1>11, <2>1 DEF SpliceReady, TypeOK
  <2> QED
    BY <1>0, <1>11, <2>2, <2>3 DEF SpliceReady, TypeOK, cmdVars, notLists
<1>12. CASE SplicePending(t)
  <2>1. r \in Csrs /\ deferredTags[r] \o s.pending \in Seq(Tags)
    BY <1>1, <1>3, <1>4, <1>12 DEF SplicePending, At
  <2>2. thread' \in [Threads -> ThreadState]
    <3>1. "remove" \in Enqueuing \cup {"idle", "wait"} /\ <<>> \in Seq(Tags)
      BY DEF Enqueuing, Early
    <3> QED
      BY <1>0, <1>12, <3>1 DEF SplicePending, TypeOK, ThreadState
  <2>3. deferredTags' \in [Csrs -> Seq(Tags)]
    BY <1>0, <1>12, <2>1 DEF SplicePending, TypeOK
  <2> QED
    BY <1>0, <1>12, <2>2, <2>3 DEF SplicePending, TypeOK, cmdVars, notLists
<1>13. CASE RemoveFree(t)
  <2>1. r \in Csrs /\ Tail(freeTags[r]) \in Seq(Tags) /\ Head(freeTags[r]) \in Tags
    BY <1>2, <1>3, <1>4, <1>13 DEF RemoveFree, At
  <2>2. thread' \in [Threads -> ThreadState]
    BY <1>0, <1>13, <2>1 DEF RemoveFree, TypeOK, ThreadState, Enqueuing, Early
  <2>3. freeTags' \in [Csrs -> Seq(Tags)]
    BY <1>0, <1>13, <2>1 DEF RemoveFree, TypeOK
  <2> QED
    BY <1>0, <1>13, <2>2, <2>3 DEF RemoveFree, TypeOK, cmdVars, notLists
<1>14. CASE populateFreeTags(t)
  <2>1. r \in Csrs
    BY <1>3, <1>14 DEF populateFreeTags, At
  <2>2. TagMemory[r] \in Seq(Tags) /\ TagCount \in Nat /\ populated[r] \in Nat /\ populated[r] + TagCount <= Len(TagMemory[r])
    BY <1>4, <1>14, <2>1, PacketsAssumption DEF populateFreeTags
  <2>3. \A i \in populated[r] + 1 .. populated[r] + TagCount : TagMemory[r][i] \in Tags
    BY <2>2, LenProperties
  <2>4. SubSeq(TagMemory[r], populated[r] + 1, populated[r] + TagCount) \in Seq(Tags)
    BY <2>2, <2>3, SubSeqProperties
  <2>5. freeTags' \in [Csrs -> Seq(Tags)]
    BY <1>0, <1>14, <2>1, <2>4 DEF populateFreeTags, TypeOK
  <2>6. populated' \in [Csrs -> Nat]
    BY <1>0, <1>14, <2>1, <2>2 DEF populateFreeTags, TypeOK
  <2> QED
    BY <1>0, <1>14, <2>5, <2>6 DEF populateFreeTags, TypeOK, cmdVars, notLists
<1>15. CASE UseTag(t)
  <2> DEFINE c == s.cmd
             n == s.node
  <2>1. c \in Commands /\ n \in Tags /\ Csr(c) \in Csrs /\ QueueOf[c] \in Holders
    BY <1>0, <1>1, <1>15, ConstantFacts DEF UseTag, At, ThreadOK
  <2>2. Append(nodes[QueueOf[c]], n) \in Seq(Tags)
    BY <1>0, <2>1 DEF TypeOK
  <2>3. thread' \in [Threads -> ThreadState]
    BY <1>0, <1>15 DEF UseTag, TypeOK, ThreadState, Enqueuing, Early
  <2>4. usedTags' \in [Csrs -> SUBSET Tags] /\ refCount' \in [Tags -> Int] /\ tagOf' \in [Tags -> Commands \cup {None}]
    BY <1>0, <1>4, <1>15, <2>1 DEF UseTag, TypeOK
  <2>5. packet' \in [Tags -> [ended : BOOLEAN, implicitDependenciesCount : Int]]
    BY <1>0, <1>15, <2>1 DEF UseTag, TypeOK
  <2>6. nodes' \in [Holders -> Seq(Tags)]
    BY <1>0, <1>15, <2>1, <2>2 DEF UseTag, TypeOK
  <2> QED
    BY <1>0, <1>15, <2>3, <2>4, <2>5, <2>6 DEF UseTag, TypeOK, cmdVars
<1> QED
  BY <1>5, <1>6, <1>7, <1>8, <1>9, <1>10, <1>11, <1>12, <1>13, <1>14, <1>15 DEF Allocator

\* A thread makes the next of its calls.
LEMMA DequeueType ==
  ASSUME TypeOK, NEW t \in Threads, calls[t] # <<>>, calls' = [calls EXCEPT ![t] = Tail(@)]
  PROVE  calls' \in [Threads -> Seq(Calls)]
<1>1. Tail(calls[t]) \in Seq(Calls)
  BY HeadTailProperties DEF TypeOK
<1> QED
  BY <1>1 DEF TypeOK

\* The list of a removed entry.
LEMMA RemoveAtType ==
  ASSUME NEW s \in Seq(Tags), NEW i \in 1..Len(s)
  PROVE  RemoveAt(s, i) \in Seq(Tags) /\ Len(RemoveAt(s, i)) = Len(s) - 1
<1> DEFINE a == SubSeq(s, 1, i - 1)
           b == SubSeq(s, i + 1, Len(s))
<1>1. Len(s) \in Nat /\ \A j \in 1..Len(s) : s[j] \in Tags
  BY LenProperties
<1>2. a \in Seq(Tags) /\ Len(a) = i - 1
  BY <1>1, SubSeqProperties
<1>3. b \in Seq(Tags) /\ Len(b) = Len(s) - i
  <2>1. i + 1 \in Int /\ Len(s) \in Int /\ \A j \in i + 1 .. Len(s) : s[j] \in Tags
    BY <1>1
  <2>2. b \in Seq(Tags) /\ Len(b) = IF i + 1 <= Len(s) THEN Len(s) - (i + 1) + 1 ELSE 0
    BY <2>1, SubSeqProperties
  <2> QED
    BY <1>1, <2>2
<1> HIDE DEF a, b
<1>4. a \o b \in Seq(Tags) /\ Len(a \o b) = Len(a) + Len(b)
  BY <1>2, <1>3, ConcatProperties
<1>5. RemoveAt(s, i) = a \o b
  BY DEF RemoveAt, a, b
<1>6. Len(a) + Len(b) = Len(s) - 1
  BY <1>1, <1>2, <1>3
<1> QED
  BY <1>4, <1>5, <1>6

\* Lists of a family are replaced.
LEMMA ThreeLists ==
  ASSUME NEW H, NEW X, NEW f \in [H -> Seq(X)], NEW i \in H, NEW j \in H, NEW k \in H,
         NEW a \in Seq(X), NEW b \in Seq(X), NEW c \in Seq(X)
  PROVE  [f EXCEPT ![i] = a, ![j] = b, ![k] = c] \in [H -> Seq(X)]
<1>1. [f EXCEPT ![i] = a] \in [H -> Seq(X)]
  OBVIOUS
<1>2. [[f EXCEPT ![i] = a] EXCEPT ![j] = b] \in [H -> Seq(X)]
  BY <1>1
<1>3. [[[f EXCEPT ![i] = a] EXCEPT ![j] = b] EXCEPT ![k] = c] \in [H -> Seq(X)]
  BY <1>2
<1> QED
  BY <1>3

\* A command is added to the stream of its receiver.
LEMMA FlushType ==
  ASSUME TypeOK, NEW c \in Commands, flushTask(c)
  PROVE  /\ stream' \in [Csrs -> Seq(Instructions)] /\ status' \in [Commands -> Statuses]
         /\ packet' \in [Tags -> [ended : BOOLEAN, implicitDependenciesCount : Int]]
<1>1. OutOfCsr(c) \in Seq(Tags)
  BY WaitsType
<1>2. programCsrDependencies(c, OutOfCsr(c)) \in Seq(Instructions)
  BY <1>1, DependenciesType
<1>3. stream[Csr(c)] \in Seq(Instructions) /\ dispatched[c] \in Seq(Instructions) /\ Csr(c) \in Csrs
  BY ConstantFacts DEF TypeOK
<1>4. stream[Csr(c)] \o programCsrDependencies(c, OutOfCsr(c)) \o dispatched[c] \in Seq(Instructions)
  BY <1>2, <1>3, ConcatProperties
<1>5. stream' \in [Csrs -> Seq(Instructions)]
  BY <1>4 DEF flushTask, TypeOK
<1>6. status' \in [Commands -> Statuses]
  BY DEF flushTask, TypeOK, Statuses
<1>7. incImplicitDependenciesCount(OutOfCsr(c))
  BY DEF flushTask
<1> QED
  BY <1>1, <1>5, <1>6, <1>7, IncrementType

\* isQueueBlocked yields the virtual event that is dropped, if any.
LEMMA PollType ==
  ASSUME TypeOK, NEW q \in Queues
  PROVE  /\ isQueueBlocked(q) \in Seq(Commands) /\ VirtualEventOf(q) \in Seq(Commands)
         /\ AfterPoll(q) => virtualEvent' \in [Queues -> Commands \cup {None}]
<1>1. virtualEvent[q] \in Commands \cup {None}
  BY DEF TypeOK
<1>2. VirtualEventOf(q) \in Seq(Commands)
  BY <1>1 DEF VirtualEventOf
<1>3. isQueueBlocked(q) \in Seq(Commands)
  BY <1>2 DEF isQueueBlocked
<1>4. AfterPoll(q) => virtualEvent' \in [Queues -> Commands \cup {None}]
  BY <1>1 DEF AfterPoll, TypeOK
<1> QED
  BY <1>2, <1>3, <1>4

\* The steps of enqueueHandler, of the end of submit, and the drop of an event.
LEMMA EnqueueTypes ==
  ASSUME ControlInv, NEW t \in Threads, Enqueue(t)
  PROVE  TypeOK'
<1> DEFINE s == thread[t]
           c == s.cmd
           own == nodes[QueueOf[c]]
<1>0. TypeOK /\ s \in ThreadState /\ ThreadOK(s) /\ OwnerOK(t)
  BY DEF ControlInv, TypeOK, ThreadInv
<1>1. /\ s.pc \in Enqueuing \cup {"idle", "wait"} /\ s.toResolve \in Seq(Tags) /\ s.toDrop \in Seq(Commands)
      /\ s.toReturn \in Seq(Tags) /\ s.cmd \in Commands \cup {None}
  BY <1>0, Fields
<1>2. s.pc # "idle" => /\ c \in Commands /\ Csr(c) \in Csrs /\ QueueOf[c] \in Queues /\ QueueOf[c] \in Holders
                       /\ own \in Seq(Tags) /\ <<"stack", c>> \in Holders /\ nodes[<<"stack", c>>] \in Seq(Tags)
                       /\ <<"event", c>> \in Holders /\ <<"current", c>> \in Holders /\ <<"previous", c>> \in Holders
  BY <1>0, <1>1, ConstantFacts DEF ThreadOK, TypeOK
<1>3. CASE ResolveDependency(t)
  <2> DEFINE n == Head(s.toResolve)
             i == Len(nodes[<<"stack", c>>]) - Len(s.toResolve) + 1
  <2>1. s.pc = "resolve" /\ s.toResolve # <<>> /\ n \in Tags /\ Tail(s.toResolve) \in Seq(Tags)
    BY <1>1, <1>3, HeadTailProperties DEF ResolveDependency, At
  <2>2. i = 1 /\ 1 \in 1..Len(nodes[<<"stack", c>>])
    <3>1. s.toResolve = nodes[<<"stack", c>>] /\ Len(s.toResolve) \in Nat \ {0}
      BY <1>0, <1>1, <2>1, EmptySeq DEF OwnerOK
    <3> QED
      BY <3>1
  <2>3. RemoveAt(nodes[<<"stack", c>>], i) \in Seq(Tags)
    BY <1>2, <2>1, <2>2, RemoveAtType
  <2>4. nodes' \in [Holders -> Seq(Tags)]
    BY <1>0, <1>2, <1>3, <2>1, <2>3 DEF ResolveDependency, TypeOK
  <2>5. <<n>> \in Seq(Tags)
    BY <2>1
  <2>6. thread' \in [Threads -> ThreadState]
    <3>1. [s EXCEPT !.toResolve = Tail(@), !.toReturn = <<n>>] \in ThreadState /\ [s EXCEPT !.toResolve = Tail(@)] \in ThreadState
      <4> HIDE DEF n, s
      <4> QED
        BY <1>0, <2>1, <2>5 DEF ThreadState
    <3>2. \/ thread' = [thread EXCEPT ![t] = [s EXCEPT !.toResolve = Tail(@), !.toReturn = <<n>>]]
          \/ thread' = [thread EXCEPT ![t] = [s EXCEPT !.toResolve = Tail(@)]]
      BY <1>0, <1>3 DEF ResolveDependency, TypeOK
    <3> QED
      BY <1>0, <3>1, <3>2, ThreadsTyped
  <2> QED
    BY <1>0, <1>3, <2>4, <2>6 DEF ResolveDependency, TypeOK, tagVars, cmdVars
<1>4. CASE DependenciesResolved(t)
  <2>1. thread' \in [Threads -> ThreadState]
    BY <1>0, <1>4 DEF DependenciesResolved, Goto, TypeOK, ThreadState, Enqueuing, Early
  <2> QED
    BY <1>0, <1>4, <2>1 DEF DependenciesResolved, TypeOK, tagVars, cmdVars
<1>5. CASE Dispatch(t)
  <2> DEFINE waits == OnCsr(c) \o nodes[<<"stack", c>>]
             new == programCsrDependencies(c, waits) \o setupTimestampPacket(c, own)
  <2>1. s.pc = "dispatch" /\ c \in Commands
    BY <1>2, <1>5 DEF Dispatch, At
  <2>2. waits \in Seq(Tags)
    BY <1>0, <1>2, <2>1, WaitsType, ConcatProperties
  <2>3. programCsrDependencies(c, waits) \in Seq(Instructions) /\ setupTimestampPacket(c, own) \in Seq(Instructions)
    <3> HIDE DEF waits, own
    <3> QED
      BY <1>0, <1>2, <2>1, <2>2, DependenciesType, WritesType
  <2>4. new \in Seq(Instructions)
    BY <2>3, ConcatProperties
  <2> HIDE DEF waits, new
  <2>5. dispatched' = [dispatched EXCEPT ![c] = new] /\ incImplicitDependenciesCount(waits)
    BY <1>5 DEF Dispatch, new, waits
  <2>6. dispatched' \in [Commands -> Seq(Instructions)]
    BY <1>0, <2>4, <2>5 DEF TypeOK
  <2>7. packet' \in [Tags -> [ended : BOOLEAN, implicitDependenciesCount : Int]]
    BY <1>0, <2>2, <2>5, IncrementType
  <2>8. nodes' \in [Holders -> Seq(Tags)] /\ refCount' \in [Tags -> Int]
    <3>1. CASE c \in OutputEvents
      <4>1. nodes' = [nodes EXCEPT ![<<"event", c>>] = own] /\ AddRefs(own)
        BY <1>5, <3>1 DEF Dispatch
      <4>2. nodes' \in [Holders -> Seq(Tags)]
        BY <1>0, <1>2, <2>1, <4>1 DEF TypeOK
      <4> QED
        BY <1>0, <1>2, <2>1, <4>1, <4>2, AddRefsType
    <3>2. CASE c \notin OutputEvents
      BY <1>0, <1>5, <3>2 DEF Dispatch, TypeOK
    <3> QED
      BY <3>1, <3>2
  <2>9. thread' \in [Threads -> ThreadState]
    BY <1>0, <1>5 DEF Dispatch, Goto, TypeOK, ThreadState, Enqueuing, Early
  <2> QED
    BY <1>0, <1>5, <2>6, <2>7, <2>8, <2>9 DEF Dispatch, TypeOK
<1>6. CASE EnqueueNonBlocked(t)
  <2>1. s.pc = "flush" /\ c \in Commands /\ flushTask(c)
    BY <1>2, <1>6 DEF EnqueueNonBlocked, At
  <2>2. nodes' \in [Holders -> Seq(Tags)] /\ csrOwner' \in [Csrs -> Threads \cup {None}]
    BY <1>0, <1>2, <1>6, <2>1 DEF EnqueueNonBlocked, EnqueueReturn, TypeOK
  <2>3. thread' \in [Threads -> ThreadState]
    <3>0. <<>> \in Seq(Commands) /\ nodes[<<"stack", c>>] \in Seq(Tags)
      BY <1>2, <2>1
    <3>1. [Idle EXCEPT !.toReturn = nodes[<<"stack", c>>], !.toDrop = <<>>] \in ThreadState
      BY <3>0, IdleType DEF ThreadState
    <3> QED
      BY <1>0, <1>6, <3>1 DEF EnqueueNonBlocked, EnqueueReturn, TypeOK
  <2>4. /\ stream' \in [Csrs -> Seq(Instructions)] /\ status' \in [Commands -> Statuses]
        /\ packet' \in [Tags -> [ended : BOOLEAN, implicitDependenciesCount : Int]]
    BY <1>0, <2>1, FlushType
  <2> QED
    BY <1>0, <1>6, <2>2, <2>3, <2>4 DEF EnqueueNonBlocked, TypeOK
<1>7. CASE EnqueueBlocked(t)
  <2> DEFINE previous == nodes[<<"stack", c>>]
  <2>1. s.pc = "block" /\ c \in Commands
    BY <1>2, <1>7 DEF EnqueueBlocked, At
  <2>2. nodes' \in [Holders -> Seq(Tags)]
    <3>1. nodes' = [nodes EXCEPT ![<<"current", c>>] = own, ![<<"previous", c>>] = previous, ![<<"stack", c>>] = <<>>]
      BY <1>7 DEF EnqueueBlocked
    <3>2. nodes \in [Holders -> Seq(Tags)] /\ <<>> \in Seq(Tags)
      BY <1>0 DEF TypeOK
    <3> QED
      BY <1>2, <2>1, <3>1, <3>2, ThreeLists
  <2>3. own \o previous \in Seq(Tags) /\ AddRefs(own \o previous)
    BY <1>2, <1>7, <2>1, ConcatProperties DEF EnqueueBlocked
  <2>4. refCount' \in [Tags -> Int]
    BY <1>0, <2>3, AddRefsType
  <2>5. csrOwner' \in [Csrs -> Threads \cup {None}] /\ status' \in [Commands -> Statuses]
    BY <1>0, <1>2, <1>7, <2>1 DEF EnqueueBlocked, EnqueueReturn, TypeOK, Statuses
  <2>6. virtualEvent' \in [Queues -> Commands \cup {None}]
    BY <1>0, <1>2, <1>7, <2>1 DEF EnqueueBlocked, TypeOK
  <2>7. thread' \in [Threads -> ThreadState]
    <3>1. VirtualEventOf(QueueOf[c]) \in Seq(Commands)
      BY <1>0, <1>2, <2>1, PollType
    <3>2. [Idle EXCEPT !.toReturn = nodes[<<"stack", c>>], !.toDrop = VirtualEventOf(QueueOf[c])] \in ThreadState
      BY <1>2, <2>1, <3>1, IdleType DEF ThreadState
    <3> QED
      BY <1>0, <1>7, <3>2 DEF EnqueueBlocked, EnqueueReturn, TypeOK
  <2> QED
    BY <1>0, <1>7, <2>2, <2>4, <2>5, <2>6, <2>7 DEF EnqueueBlocked, TypeOK
<1>8. CASE Submitted(t)
  <2>1. s.pc = "wait" /\ c \in Commands
    BY <1>2, <1>8 DEF Submitted, At
  <2>2. csrOwner' \in [Csrs -> Threads \cup {None}]
    BY <1>0, <1>2, <1>8, <2>1 DEF Submitted, TypeOK
  <2>3. thread' \in [Threads -> ThreadState]
    <3>1. <<c>> \in Seq(Commands)
      BY <2>1
    <3>2. [Idle EXCEPT !.toDrop = <<c>>] \in ThreadState
      BY <3>1, IdleType DEF ThreadState
    <3> QED
      BY <1>0, <1>8, <3>2 DEF Submitted, TypeOK
  <2> QED
    BY <1>0, <1>8, <2>2, <2>3 DEF Submitted, TypeOK, tagVars, cmdVars
<1>9. CASE DropEvent(t)
  <2> DEFINE e == Head(s.toDrop)
             waited == IF nodes[<<"current", e>>] # <<>> THEN SetToSeq(WaitList[e]) ELSE <<>>
             drop == waited \o Tail(s.toDrop)
             back == nodes[<<"previous", e>>] \o nodes[<<"current", e>>] \o nodes[<<"event", e>>] \o s.toReturn
  <2>1. e \in Commands /\ Tail(s.toDrop) \in Seq(Commands)
    BY <1>1, <1>9, HeadTailProperties DEF DropEvent
  <2>2. /\ <<"event", e>> \in Holders /\ <<"current", e>> \in Holders /\ <<"previous", e>> \in Holders
        /\ nodes[<<"event", e>>] \in Seq(Tags) /\ nodes[<<"current", e>>] \in Seq(Tags)
        /\ nodes[<<"previous", e>>] \in Seq(Tags)
    BY <1>0, <2>1, ConstantFacts DEF TypeOK
  <2>3. waited \in Seq(Commands)
    <3>1. WaitList[e] \in SUBSET Commands /\ IsFiniteSet(WaitList[e])
      BY <2>1, ConstantFacts, FS_Subset
    <3>2. SetToSeq(WaitList[e]) \in [1..Cardinality(WaitList[e]) -> WaitList[e]] /\ Cardinality(WaitList[e]) \in Nat
      BY <3>1, SetAsSequence
    <3>3. SetToSeq(WaitList[e]) \in Seq(Commands)
      BY <3>1, <3>2
    <3> QED
      BY <3>3
  <2>4. drop \in Seq(Commands)
    BY <2>1, <2>3, ConcatProperties
  <2>5. back \in Seq(Tags)
    BY <1>1, <2>2, ConcatProperties
  <2>6. CASE eventRefs[e] = 1
    <3>1. nodes' \in [Holders -> Seq(Tags)]
      <4>1. nodes' = [nodes EXCEPT ![<<"previous", e>>] = <<>>, ![<<"current", e>>] = <<>>, ![<<"event", e>>] = <<>>]
        BY <1>9, <2>6 DEF DropEvent
      <4>2. nodes \in [Holders -> Seq(Tags)] /\ <<>> \in Seq(Tags)
        BY <1>0 DEF TypeOK
      <4> QED
        BY <2>2, <4>1, <4>2, ThreeLists
    <3>2. thread' = [thread EXCEPT ![t].toDrop = drop, ![t].toReturn = back]
      BY <1>9, <2>6 DEF DropEvent
    <3> HIDE DEF drop, back
    <3>3. thread' \in [Threads -> ThreadState]
      BY <1>0, <2>4, <2>5, <3>2 DEF TypeOK, ThreadState
    <3> QED
      BY <1>0, <1>9, <3>1, <3>3 DEF DropEvent, TypeOK, tagVars
  <2>7. CASE eventRefs[e] # 1
    <3>1. thread' \in [Threads -> ThreadState] /\ UNCHANGED nodes
      <4>1. thread' = [thread EXCEPT ![t] = [s EXCEPT !.toDrop = Tail(@)]] /\ UNCHANGED nodes
        BY <1>0, <1>9, <2>7 DEF DropEvent, TypeOK
      <4>2. [s EXCEPT !.toDrop = Tail(@)] \in ThreadState
        <5> HIDE DEF s
        <5> QED
          BY <1>0, <2>1 DEF ThreadState
      <4> QED
        BY <1>0, <4>1, <4>2, ThreadsTyped
    <3> QED
      BY <1>0, <1>9, <3>1 DEF DropEvent, TypeOK, tagVars
  <2> QED
    BY <2>6, <2>7
<1> QED
  BY <1>3, <1>4, <1>5, <1>6, <1>7, <1>8, <1>9 DEF Enqueue

\* The first steps of calls.
LEMMA BeginTypes ==
  ASSUME ControlInv, NEW t \in Threads, Begin(t)
  PROVE  TypeOK'
<1>0. TypeOK /\ thread[t] \in ThreadState
  BY DEF ControlInv, TypeOK
<1>1. ASSUME NEW op, NEW x, NextCall(t, op, x)
      PROVE  calls' \in [Threads -> Seq(Calls)] /\ thread[t] = Idle
  BY <1>0, <1>1, DequeueType DEF NextCall
<1>2. ASSUME NEW d \in Seq(Commands), NEW b \in Seq(Tags), thread[t] = Idle
      PROVE  [thread EXCEPT ![t].toDrop = d, ![t].toReturn = b] \in [Threads -> ThreadState]
  BY <1>0, IdleType, <1>2 DEF TypeOK, ThreadState
<1>3. ASSUME NEW d \in Seq(Commands), thread[t] = Idle
      PROVE  [thread EXCEPT ![t].toDrop = d] \in [Threads -> ThreadState]
  BY <1>0, IdleType, <1>3 DEF TypeOK, ThreadState
<1>4. ASSUME NEW c \in Commands, EnqueueKernel(t, c) PROVE TypeOK'
  <2> DEFINE q == QueueOf[c]
  <2>1. calls' \in [Threads -> Seq(Calls)]
    BY <1>1, <1>4 DEF EnqueueKernel
  <2>2. q \in Queues /\ q \in Holders /\ Csr(c) \in Csrs /\ Csr(c) = CsrOf[q] /\ <<"stack", c>> \in Holders /\ nodes[q] \in Seq(Tags)
    BY <1>0, ConstantFacts DEF TypeOK, Csr
  <2>3. csrOwner' \in [Csrs -> Threads \cup {None}]
    BY <1>0, <1>4, <2>2 DEF EnqueueKernel, TypeOK
  <2>4. nodes' \in [Holders -> Seq(Tags)]
    <3>1. nodes' = [nodes EXCEPT ![<<"stack", c>>] = nodes[q], ![q] = <<>>]
      BY <1>4 DEF EnqueueKernel
    <3>2. nodes \in [Holders -> Seq(Tags)] /\ <<>> \in Seq(Tags)
      BY <1>0 DEF TypeOK
    <3>3. [nodes EXCEPT ![<<"stack", c>>] = nodes[q]] \in [Holders -> Seq(Tags)]
      BY <2>2, <3>2
    <3> QED
      BY <2>2, <3>1, <3>2, <3>3
  <2>5. isQueueBlocked(q) \in Seq(Commands) /\ virtualEvent' \in [Queues -> Commands \cup {None}]
    BY <1>0, <1>4, <2>2, PollType DEF EnqueueKernel
  <2>6. isBlocked(c) \in BOOLEAN
    BY DEF isBlocked
  <2>7. [Idle EXCEPT !.pc = "resolve", !.cmd = c, !.blocked = isBlocked(c), !.toResolve = nodes[q],
                     !.toDrop = isQueueBlocked(q)] \in ThreadState
    BY <2>2, <2>5, <2>6, IdleType DEF ThreadState, Enqueuing, Early
  <2>8. thread' \in [Threads -> ThreadState]
    BY <1>0, <1>4, <2>7 DEF EnqueueKernel, TypeOK
  <2> QED
    BY <1>0, <1>4, <2>1, <2>3, <2>4, <2>5, <2>8 DEF EnqueueKernel, TypeOK, tagVars
<1>5. ASSUME NEW c \in Commands, EnqueueMarker(t, c) \/ EnqueueBlockedMarker(t, c) PROVE TypeOK'
  <2> DEFINE q == QueueOf[c]
             inherited == nodes[q] \o EventNodes(WaitList[c])
  <2>0. EnqueueWithoutKernel(t, c)
    BY <1>5 DEF EnqueueMarker, EnqueueBlockedMarker
  <2>1. calls' \in [Threads -> Seq(Calls)] /\ thread[t] = Idle
    BY <1>1, <2>0 DEF EnqueueWithoutKernel
  <2>2. q \in Queues /\ q \in Holders /\ <<"event", c>> \in Holders /\ nodes[q] \in Seq(Tags) /\ WaitList[c] \in SUBSET Commands
    BY <1>0, ConstantFacts DEF TypeOK
  <2>3. inherited \in Seq(Tags)
    BY <1>0, <2>2, EventNodesType, ConcatProperties
  <2>4. /\ isQueueBlocked(q) \in Seq(Commands) /\ VirtualEventOf(q) \in Seq(Commands)
        /\ virtualEvent' \in [Queues -> Commands \cup {None}]
    <3>1. AfterPoll(q) \/ virtualEvent' = [virtualEvent EXCEPT ![q] = c]
      BY <1>5 DEF EnqueueMarker, EnqueueBlockedMarker
    <3> QED
      BY <1>0, <2>2, <3>1, PollType DEF TypeOK
  <2>5. thread' \in [Threads -> ThreadState]
    <3>1. \/ thread' = [thread EXCEPT ![t].toDrop = isQueueBlocked(q)]
          \/ thread' = [thread EXCEPT ![t].toDrop = VirtualEventOf(q)]
      BY <1>5 DEF EnqueueMarker, EnqueueBlockedMarker
    <3> QED
      BY <1>3, <2>1, <2>4, <3>1
  <2>6. nodes' \in [Holders -> Seq(Tags)] /\ refCount' \in [Tags -> Int]
    <3>1. CASE c \in OutputEvents
      <4>1. nodes' = [nodes EXCEPT ![<<"event", c>>] = inherited] /\ AddRefs(inherited)
        BY <2>0, <3>1 DEF EnqueueWithoutKernel
      <4> HIDE DEF inherited
      <4>2. nodes' \in [Holders -> Seq(Tags)]
        BY <1>0, <2>2, <2>3, <4>1 DEF TypeOK
      <4> QED
        BY <1>0, <2>3, <4>1, <4>2, AddRefsType
    <3>2. CASE c \notin OutputEvents
      BY <1>0, <2>0, <3>2 DEF EnqueueWithoutKernel, TypeOK
    <3> QED
      BY <3>1, <3>2
  <2>7. status' \in [Commands -> Statuses]
    BY <1>0, <1>5 DEF EnqueueMarker, EnqueueBlockedMarker, TypeOK, Statuses
  <2> QED
    BY <1>0, <2>0, <2>1, <2>4, <2>5, <2>6, <2>7 DEF EnqueueWithoutKernel, TypeOK
<1>6. ASSUME NEW c \in Commands, Submit(t, c) PROVE TypeOK'
  <2>1. calls' \in [Threads -> Seq(Calls)] /\ flushTask(c)
    BY <1>1, <1>6 DEF Submit
  <2>2. /\ stream' \in [Csrs -> Seq(Instructions)] /\ status' \in [Commands -> Statuses]
        /\ packet' \in [Tags -> [ended : BOOLEAN, implicitDependenciesCount : Int]]
    BY <1>0, <2>1, FlushType
  <2>3. csrOwner' \in [Csrs -> Threads \cup {None}]
    BY <1>0, <1>6, ConstantFacts DEF Submit, TypeOK
  <2>4. [Idle EXCEPT !.pc = "wait", !.cmd = c] \in ThreadState
    BY IdleType DEF ThreadState
  <2>5. thread' \in [Threads -> ThreadState]
    BY <1>0, <1>6, <2>4 DEF Submit, TypeOK
  <2> QED
    BY <1>0, <1>6, <2>1, <2>2, <2>3, <2>5 DEF Submit, TypeOK
<1>10. ASSUME NEW c \in Commands, SubmitMarker(t, c) PROVE TypeOK'
  <2>1. calls' \in [Threads -> Seq(Calls)]
    BY <1>1, <1>10 DEF SubmitMarker
  <2>2. status' \in [Commands -> Statuses]
    BY <1>0, <1>10 DEF SubmitMarker, TypeOK, Statuses
  <2>3. csrOwner' \in [Csrs -> Threads \cup {None}]
    BY <1>0, <1>10, ConstantFacts DEF SubmitMarker, TypeOK
  <2>4. [Idle EXCEPT !.pc = "wait", !.cmd = c] \in ThreadState
    BY IdleType DEF ThreadState
  <2>5. thread' \in [Threads -> ThreadState]
    BY <1>0, <1>10, <2>4 DEF SubmitMarker, TypeOK
  <2> QED
    BY <1>0, <1>10, <2>1, <2>2, <2>3, <2>5 DEF SubmitMarker, TypeOK, tagVars
<1>7. ASSUME NEW c \in Commands, Abort(t, c) PROVE TypeOK'
  <2>1. calls' \in [Threads -> Seq(Calls)] /\ thread[t] = Idle
    BY <1>1, <1>7 DEF Abort
  <2>2. <<c>> \in Seq(Commands)
    OBVIOUS
  <2>3. thread' \in [Threads -> ThreadState]
    BY <1>3, <1>7, <2>1, <2>2 DEF Abort
  <2>4. status' \in [Commands -> Statuses]
    BY <1>0, <1>7 DEF Abort, TypeOK, Statuses
  <2> QED
    BY <1>0, <1>7, <2>1, <2>3, <2>4 DEF Abort, TypeOK, tagVars
<1>8. ASSUME NEW c \in Commands, ReleaseEvent(t, c) PROVE TypeOK'
  <2>1. calls' \in [Threads -> Seq(Calls)] /\ thread[t] = Idle
    BY <1>1, <1>8 DEF ReleaseEvent
  <2>2. <<c>> \in Seq(Commands)
    OBVIOUS
  <2>3. thread' \in [Threads -> ThreadState]
    BY <1>3, <1>8, <2>1, <2>2 DEF ReleaseEvent
  <2> QED
    BY <1>0, <1>8, <2>1, <2>3 DEF ReleaseEvent, TypeOK, tagVars, cmdVars
<1>9. ASSUME NEW q \in Queues, ReleaseQueue(t, q) PROVE TypeOK'
  <2>1. calls' \in [Threads -> Seq(Calls)] /\ thread[t] = Idle
    BY <1>1, <1>9 DEF ReleaseQueue
  <2>2. q \in Holders /\ nodes[q] \in Seq(Tags) /\ VirtualEventOf(q) \in Seq(Commands)
    BY <1>0, ConstantFacts, PollType DEF TypeOK
  <2>3. thread' \in [Threads -> ThreadState]
    BY <1>2, <1>9, <2>1, <2>2 DEF ReleaseQueue
  <2>4. nodes' \in [Holders -> Seq(Tags)]
    BY <1>0, <1>9, <2>2 DEF ReleaseQueue, TypeOK
  <2>5. virtualEvent' \in [Queues -> Commands \cup {None}]
    BY <1>0, <1>9, <2>2 DEF ReleaseQueue, TypeOK
  <2> QED
    BY <1>0, <1>9, <2>1, <2>3, <2>4, <2>5 DEF ReleaseQueue, TypeOK, tagVars
<1> QED
  BY <1>4, <1>5, <1>6, <1>7, <1>8, <1>9, <1>10 DEF Begin

\* The types are kept by the GPU.
LEMMA GpuTypes ==
  ASSUME TypeOK, NEW r \in Csrs, Gpu(r)
  PROVE  TypeOK'
<1> DEFINE i == Head(stream[r])
<1>1. stream[r] \in Seq(Instructions) /\ stream[r] # <<>>
  BY DEF Gpu, TypeOK
<1>2. i \in Instructions /\ Tail(stream[r]) \in Seq(Instructions)
  BY <1>1, HeadTailProperties
<1>3. i.tag \in Tags /\ i.by \in Commands
  BY <1>2 DEF Instructions
<1>4. stream' \in [Csrs -> Seq(Instructions)]
  BY <1>2 DEF Gpu, TypeOK
<1>5. packet[i.tag] \in [ended : BOOLEAN, implicitDependenciesCount : Int]
  BY <1>3 DEF TypeOK
<1>6. /\ [packet EXCEPT ![i.tag].implicitDependenciesCount = @ - 1] \in [Tags -> [ended : BOOLEAN, implicitDependenciesCount : Int]]
      /\ [packet EXCEPT ![i.tag].ended = TRUE] \in [Tags -> [ended : BOOLEAN, implicitDependenciesCount : Int]]
  <2>1. /\ [packet[i.tag] EXCEPT !.implicitDependenciesCount = @ - 1] \in [ended : BOOLEAN, implicitDependenciesCount : Int]
        /\ [packet[i.tag] EXCEPT !.ended = TRUE] \in [ended : BOOLEAN, implicitDependenciesCount : Int]
    <3> DEFINE p == packet[i.tag]
    <3>1. p \in [ended : BOOLEAN, implicitDependenciesCount : Int]
      BY <1>5
    <3> HIDE DEF p
    <3>2. [p EXCEPT !.implicitDependenciesCount = @ - 1] \in [ended : BOOLEAN, implicitDependenciesCount : Int]
      BY <3>1
    <3>3. [p EXCEPT !.ended = TRUE] \in [ended : BOOLEAN, implicitDependenciesCount : Int]
      BY <3>1
    <3> QED
      BY <3>2, <3>3 DEF p
  <2> HIDE DEF i
  <2> QED
    BY <1>3, <2>1 DEF TypeOK
<1>7. packet' \in [Tags -> [ended : BOOLEAN, implicitDependenciesCount : Int]]
  BY <1>6 DEF Gpu, TypeOK
<1>8. status' \in [Commands -> Statuses]
  BY <1>3 DEF Gpu, TypeOK, Statuses
<1> QED
  BY <1>4, <1>7, <1>8 DEF Gpu, TypeOK

-----------------------------------------------------------------------------
(* The control invariant is kept *)

\* Whoever is in a call owns the receiver: others are busy with other receivers.
LEMMA OtherThreads ==
  ASSUME ControlInv, NEW t \in Threads, NEW u \in Threads, u # t, NEW c \in Commands,
         csrOwner[Csr(c)] \in {t, None}, thread[u].pc # "idle"
  PROVE  /\ thread[u].cmd \in Commands /\ thread[u].cmd # c
         /\ Csr(thread[u].cmd) # Csr(c) /\ QueueOf[thread[u].cmd] # QueueOf[c]
<1>1. thread[u] \in ThreadState /\ ThreadOK(thread[u]) /\ OwnerOK(u)
  BY DEF ControlInv, TypeOK, ThreadInv
<1>2. thread[u].cmd \in Commands
  BY <1>1, Fields DEF ThreadOK
<1>3. csrOwner[Csr(thread[u].cmd)] = u
  BY <1>1 DEF OwnerOK
<1>4. Csr(thread[u].cmd) # Csr(c)
  BY <1>3, ConstantFacts
<1> QED
  BY <1>2, <1>4 DEF Csr

\* A call is made.
LEMMA CallsShrink ==
  ASSUME TypeOK, EnqueuedOnce(calls), NEW t \in Threads, calls[t] # <<>>,
         calls' = [calls EXCEPT ![t] = Tail(@)]
  PROVE  /\ EnqueuedOnce(calls)' /\ \A c : Awaited(c)' => Awaited(c)
         /\ \A c : Head(calls[t]) = <<"enqueue", c>> => Awaited(c) /\ ~Awaited(c)'
<1> DEFINE s == calls[t]
<1>1. /\ \A u \in Threads : calls[u] \in Seq(Calls) /\ Len(calls[u]) \in Nat /\ DOMAIN calls[u] = 1..Len(calls[u])
      /\ s # <<>>
  BY LenProperties DEF TypeOK
<1>2. Len(s) \in Nat \ {0} /\ Tail(s) \in Seq(Calls) /\ Len(Tail(s)) = Len(s) - 1 /\ Head(s) = s[1]
      /\ DOMAIN Tail(s) = 1 .. Len(s) - 1 /\ \A i \in 1 .. Len(s) - 1 : Tail(s)[i] = s[i + 1]
  BY <1>1, EmptySeq, HeadTailProperties, LenProperties
<1>3. calls'[t] = Tail(s) /\ \A u \in Threads \ {t} : calls'[u] = calls[u]
  BY DEF TypeOK
<1> DEFINE old(u, i) == IF u = t THEN i + 1 ELSE i
<1>4. ASSUME NEW u \in Threads, NEW i \in DOMAIN calls'[u]
      PROVE  /\ old(u, i) \in DOMAIN calls[u] /\ calls'[u][i] = calls[u][old(u, i)]
             /\ i \in Nat /\ (u = t => old(u, i) # 1)
  <2>1. CASE u = t
    <3>1. i \in 1 .. Len(s) - 1 /\ calls'[u][i] = s[i + 1]
      BY <1>2, <1>3, <1>4, <2>1
    <3>2. i + 1 \in 1 .. Len(s) /\ i \in Nat /\ i + 1 # 1
      BY <3>1, <1>2
    <3> QED
      BY <1>1, <2>1, <3>1, <3>2
  <2>2. CASE u # t
    BY <1>1, <1>3, <1>4, <2>2
  <2> QED
    BY <2>1, <2>2
<1>5. ASSUME NEW u \in Threads, NEW v \in Threads, NEW i \in DOMAIN calls'[u], NEW j \in DOMAIN calls'[v],
             calls'[u][i] = calls'[v][j], calls'[u][i][1] = "enqueue"
      PROVE  u = v /\ i = j
  <2> HIDE DEF old
  <2>1. u = v /\ old(u, i) = old(v, j)
    BY <1>4, <1>5 DEF EnqueuedOnce
  <2> QED
    BY <1>4, <2>1 DEF old
<1>6. EnqueuedOnce(calls)'
  BY <1>5 DEF EnqueuedOnce
<1>7. ASSUME NEW c, Awaited(c)' PROVE Awaited(c)
  <2>1. PICK u \in Threads : \E i \in DOMAIN calls'[u] : calls'[u][i] = <<"enqueue", c>>
    BY <1>7 DEF Awaited, Range
  <2>2. PICK i \in DOMAIN calls'[u] : calls'[u][i] = <<"enqueue", c>>
    BY <2>1
  <2> HIDE DEF old
  <2> QED
    BY <1>4, <2>2 DEF Awaited, Range
<1>8. ASSUME NEW c, Head(s) = <<"enqueue", c>> PROVE Awaited(c) /\ ~Awaited(c)'
  <2>1. 1 \in DOMAIN s /\ s[1] = <<"enqueue", c>>
    BY <1>1, <1>2, <1>8
  <2>2. Awaited(c)
    BY <2>1 DEF Awaited, Range
  <2>3. ASSUME Awaited(c)' PROVE FALSE
    <3>1. PICK u \in Threads : \E i \in DOMAIN calls'[u] : calls'[u][i] = <<"enqueue", c>>
      BY <2>3 DEF Awaited, Range
    <3>2. PICK i \in DOMAIN calls'[u] : calls'[u][i] = <<"enqueue", c>>
      BY <3>1
    <3> DEFINE k == old(u, i)
    <3>3. k \in DOMAIN calls[u] /\ calls[u][k] = s[1] /\ (u = t => k # 1) /\ s[1][1] = "enqueue"
      <4> HIDE DEF old
      <4>1. k \in DOMAIN calls[u] /\ calls[u][k] = calls'[u][i] /\ (u = t => k # 1)
        BY <1>4, <3>2
      <4> HIDE DEF k
      <4> QED
        BY <2>1, <3>2, <4>1
    <3> HIDE DEF k
    <3> QED
      BY <2>1, <3>3 DEF EnqueuedOnce
  <2> QED
    BY <2>2, <2>3
<1> QED
  BY <1>6, <1>7, <1>8

\* What a step of t has to leave of the other threads' invariants.
LEMMA OthersKept ==
  ASSUME ControlInv, NEW t \in Threads, \A u \in Threads \ {t} : thread'[u] = thread[u],
         ThreadOK(thread'[t]), OwnerOK(t)',
         \A u \in Threads \ {t} : thread[u].pc # "idle" =>
            LET c == thread[u].cmd IN
            /\ csrOwner'[Csr(c)] = csrOwner[Csr(c)] /\ status'[c] = status[c]
            /\ nodes'[QueueOf[c]] = nodes[QueueOf[c]] /\ nodes'[<<"stack", c>>] = nodes[<<"stack", c>>]
            /\ \A k \in {"event", "current", "previous"} : nodes'[<<k, c>>] \in {nodes[<<k, c>>], <<>>}
  PROVE  ThreadInv'
<1> SUFFICES ASSUME NEW u \in Threads PROVE ThreadOK(thread'[u]) /\ OwnerOK(u)'
  BY DEF ThreadInv
<1>1. CASE u = t
  BY <1>1
<1>2. CASE u # t
  <2> DEFINE s == thread[u]
             c == s.cmd
  <2>1. thread'[u] = s /\ ThreadOK(s) /\ OwnerOK(u)
    BY <1>2 DEF ControlInv, ThreadInv
  <2>2. s.pc # "idle" =>
            /\ csrOwner'[Csr(c)] = csrOwner[Csr(c)] /\ status'[c] = status[c]
            /\ nodes'[QueueOf[c]] = nodes[QueueOf[c]] /\ nodes'[<<"stack", c>>] = nodes[<<"stack", c>>]
            /\ nodes'[<<"event", c>>] \in {nodes[<<"event", c>>], <<>>}
            /\ nodes'[<<"current", c>>] \in {nodes[<<"current", c>>], <<>>}
            /\ nodes'[<<"previous", c>>] \in {nodes[<<"previous", c>>], <<>>}
    BY <1>2
  <2>3. "idle" \notin Enqueuing /\ "idle" \notin Early
    BY DEF Enqueuing, Early
  <2>4. s.toResolve # <<>> => s.pc # "idle"
    BY <2>1 DEF ThreadOK
  <2> QED
    BY <2>1, <2>2, <2>3, <2>4 DEF OwnerOK, Csr
<1> QED
  BY <1>1, <1>2

\* What a step of t has to leave for the calls still to be made.
LEMMA CallsKept ==
  ASSUME ControlInv, NEW t \in Threads, \A u \in Threads \ {t} : thread'[u] = thread[u],
         EnqueuedOnce(calls)',
         \A c \in Commands : Awaited(c)' =>
            /\ Awaited(c) /\ status'[c] = status[c] /\ thread'[t].cmd # c
            /\ \A k \in {"event", "current", "previous", "stack"} : nodes'[<<k, c>>] \in {nodes[<<k, c>>], <<>>}
  PROVE  CallInv'
<1>1. ASSUME NEW c \in Commands, Awaited(c)'
      PROVE  /\ status'[c] = "new" /\ \A k \in {"event", "current", "previous", "stack"} : nodes'[<<k, c>>] = <<>>
             /\ \A u \in Threads : thread'[u].cmd # c
  <2>1. Awaited(c) /\ status[c] = "new" /\ (\A k \in {"event", "current", "previous", "stack"} : nodes[<<k, c>>] = <<>>)
        /\ \A u \in Threads : thread[u].cmd # c
    BY <1>1 DEF ControlInv, CallInv
  <2> QED
    BY <1>1, <2>1
<1> QED
  BY <1>1 DEF CallInv

\* Steps that leave the containers, the calls and the owners alone.
LEMMA ControlOfThread ==
  ASSUME ControlInv, TypeOK', UNCHANGED <<nodes, status, csrOwner, calls>>, NEW t \in Threads,
         \A u \in Threads \ {t} : thread'[u] = thread[u],
         ThreadOK(thread'[t]), thread'[t].cmd = thread[t].cmd, thread[t].pc # "idle" \/ thread'[t].pc = "idle",
         thread'[t].pc \in Enqueuing => thread[t].pc \in Enqueuing,
         thread'[t].pc \in Early => thread[t].pc \in Early \ {"dispatch"} \/ thread'[t].pc = thread[t].pc,
         thread'[t].toResolve \in {<<>>, thread[t].toResolve}
  PROVE  ControlInv'
<1>1. OwnerOK(t)'
  <2>1. OwnerOK(t)
    BY DEF ControlInv, ThreadInv
  <2> QED
    BY <2>1 DEF OwnerOK, Csr
<1>2. ThreadInv'
  BY <1>1, OthersKept
<1>3. EnqueuedOnce(calls)' /\ \A c \in Commands : Awaited(c)' => Awaited(c) /\ thread[t].cmd # c
  <2>1. EnqueuedOnce(calls)'
    BY DEF EnqueuedOnce, ControlInv, CallInv
  <2>2. \A c \in Commands : Awaited(c)' => Awaited(c)
    BY DEF Awaited
  <2> QED
    BY <2>1, <2>2 DEF ControlInv, CallInv
<1>4. CallInv'
  BY <1>3, CallsKept
<1>5. SizeInv'
  BY DEF SizeInv, ControlInv
<1> QED
  BY <1>2, <1>4, <1>5 DEF ControlInv

-----------------------------------------------------------------------------
(* The effect of each step *)

\* The parts of a step of thread t: the other threads stay, and t goes on with the given
\* control, returns and tags in its hands.
Others(t) == \A u \in Threads \ {t} : thread'[u] = thread[u]
Control(t, pc, cmd, toResolve, toDrop) ==
  /\ thread'[t].pc = pc /\ thread'[t].cmd = cmd
  /\ thread'[t].toResolve = toResolve /\ thread'[t].toDrop = toDrop
Returns(t, toReturn, place) == thread'[t].toReturn = toReturn /\ thread'[t].place = place
Has(t, node, detached, ready, pending) ==
  /\ thread'[t].node = node /\ thread'[t].detached = detached
  /\ thread'[t].ready = ready /\ thread'[t].pending = pending

\* What returnTag does to the thread and to the variables of the proof.
LEMMA ReturnTagEffect ==
  ASSUME ControlInv, NEW t \in Threads, returnTag(t)
  PROVE  LET s == thread[t]
             n == Head(s.toReturn) IN
         /\ s.toDrop = <<>> /\ s.toReturn # <<>> /\ s.place = "none" /\ n \in Tags
         /\ refCount' = [refCount EXCEPT ![n] = @ - 1]
         /\ refCount[n] # 1 => Returns(t, Tail(s.toReturn), "none")
         /\ refCount[n] = 1 => Returns(t, s.toReturn, IF canBeReleased(n) THEN "free" ELSE "deferred")
         /\ Others(t) /\ Control(t, s.pc, s.cmd, s.toResolve, s.toDrop) /\ Has(t, s.node, s.detached, s.ready, s.pending)
         /\ UNCHANGED <<freeTags, usedTags, deferredTags, populated, packet, tagOf, nodes, stream, dispatched, status, csrOwner, calls>>
<1>0. TypeOK /\ thread[t] \in ThreadState /\ ThreadOK(thread[t])
  BY DEF ControlInv, TypeOK, ThreadInv
<1>1. thread \in [Threads -> ThreadState]
  BY <1>0 DEF TypeOK
<1>2. thread[t].toReturn # <<>> => Head(thread[t].toReturn) \in Tags /\ Tail(thread[t].toReturn) \in Seq(Tags)
  BY <1>0, Fields, HeadTailProperties
<1> QED
  BY <1>0, <1>1, <1>2 DEF returnTag, cmdVars, Others, Control, Returns, Has, ThreadState

\* What returnTagToFreePool does to the thread and to the variables of the proof.
LEMMA ReturnToFreeEffect ==
  ASSUME ControlInv, NEW t \in Threads, returnTagToFreePool(t)
  PROVE  LET s == thread[t]
             n == Head(s.toReturn) IN
         /\ s.toDrop = <<>> /\ s.toReturn # <<>> /\ s.place = "free" /\ n \in Tags
         /\ usedTags' = [usedTags EXCEPT ![TagCsr(n)] = @ \ {n}]
         /\ freeTags' = [freeTags EXCEPT ![TagCsr(n)] = <<n>> \o @]
         /\ Others(t) /\ Control(t, s.pc, s.cmd, s.toResolve, s.toDrop) /\ Returns(t, Tail(s.toReturn), "none") /\ Has(t, s.node, s.detached, s.ready, s.pending)
         /\ UNCHANGED <<deferredTags, populated, refCount, packet, tagOf, nodes, stream, dispatched, status, csrOwner, calls>>
<1>0. TypeOK /\ thread[t] \in ThreadState /\ ThreadOK(thread[t])
  BY DEF ControlInv, TypeOK, ThreadInv
<1>1. thread \in [Threads -> ThreadState]
  BY <1>0 DEF TypeOK
<1>2. thread[t].toReturn # <<>> => Head(thread[t].toReturn) \in Tags /\ Tail(thread[t].toReturn) \in Seq(Tags)
  BY <1>0, Fields, HeadTailProperties
<1> QED
  BY <1>0, <1>1, <1>2 DEF returnTagToFreePool, cmdVars, ThreadOK, Others, Control, Returns, Has, ThreadState

\* What returnTagToDeferredPool does to the thread and to the variables of the proof.
LEMMA ReturnToDeferredEffect ==
  ASSUME ControlInv, NEW t \in Threads, returnTagToDeferredPool(t)
  PROVE  LET s == thread[t]
             n == Head(s.toReturn) IN
         /\ s.toDrop = <<>> /\ s.toReturn # <<>> /\ s.place = "deferred" /\ n \in Tags
         /\ usedTags' = [usedTags EXCEPT ![TagCsr(n)] = @ \ {n}]
         /\ deferredTags' = [deferredTags EXCEPT ![TagCsr(n)] = <<n>> \o @]
         /\ Others(t) /\ Control(t, s.pc, s.cmd, s.toResolve, s.toDrop) /\ Returns(t, Tail(s.toReturn), "none") /\ Has(t, s.node, s.detached, s.ready, s.pending)
         /\ UNCHANGED <<freeTags, populated, refCount, packet, tagOf, nodes, stream, dispatched, status, csrOwner, calls>>
<1>0. TypeOK /\ thread[t] \in ThreadState /\ ThreadOK(thread[t])
  BY DEF ControlInv, TypeOK, ThreadInv
<1>1. thread \in [Threads -> ThreadState]
  BY <1>0 DEF TypeOK
<1>2. thread[t].toReturn # <<>> => Head(thread[t].toReturn) \in Tags /\ Tail(thread[t].toReturn) \in Seq(Tags)
  BY <1>0, Fields, HeadTailProperties
<1> QED
  BY <1>0, <1>1, <1>2 DEF returnTagToDeferredPool, cmdVars, ThreadOK, Others, Control, Returns, Has, ThreadState

\* What the look at the free tags in getTag does to the thread and to the variables of the proof.
LEMMA GetTagEffect ==
  ASSUME ControlInv, NEW t \in Threads, GetTag(t)
  PROVE  LET s == thread[t]
             r == allocatorOf(t) IN
         /\ At(t, "getTag") /\ r \in Csrs
         /\ Others(t) /\ Control(t, IF freeTags[r] = <<>> THEN "detach" ELSE "remove", s.cmd, s.toResolve, s.toDrop)
         /\ Returns(t, s.toReturn, s.place) /\ Has(t, s.node, s.detached, s.ready, s.pending)
         /\ UNCHANGED <<freeTags, usedTags, deferredTags, populated, refCount, packet, tagOf, nodes, stream, dispatched, status, csrOwner, calls>>
<1>0. TypeOK /\ thread[t] \in ThreadState /\ ThreadOK(thread[t])
  BY DEF ControlInv, TypeOK, ThreadInv
<1>1. thread \in [Threads -> ThreadState]
  BY <1>0 DEF TypeOK
<1>2. thread[t].pc # "idle" => thread[t].cmd \in Commands /\ allocatorOf(t) \in Csrs
  BY <1>0, Fields, ConstantFacts DEF ThreadOK, allocatorOf
<1> QED
  BY <1>0, <1>1, <1>2 DEF GetTag, Goto, At, tagVars, cmdVars, Others, Control, Returns, Has, ThreadState

\* What detaching the deferred tags does to the thread and to the variables of the proof.
LEMMA DetachDeferredEffect ==
  ASSUME ControlInv, NEW t \in Threads, DetachDeferred(t)
  PROVE  LET s == thread[t]
             r == allocatorOf(t) IN
         /\ At(t, "detach") /\ r \in Csrs
         /\ deferredTags' = [deferredTags EXCEPT ![r] = <<>>]
         /\ Others(t) /\ Control(t, "sort", s.cmd, s.toResolve, s.toDrop)
         /\ Returns(t, s.toReturn, s.place) /\ Has(t, s.node, deferredTags[r], s.ready, s.pending)
         /\ UNCHANGED <<freeTags, usedTags, populated, refCount, packet, tagOf, nodes, stream, dispatched, status, csrOwner, calls>>
<1>0. TypeOK /\ thread[t] \in ThreadState /\ ThreadOK(thread[t])
  BY DEF ControlInv, TypeOK, ThreadInv
<1>1. thread \in [Threads -> ThreadState]
  BY <1>0 DEF TypeOK
<1>2. thread[t].pc # "idle" => thread[t].cmd \in Commands /\ allocatorOf(t) \in Csrs
  BY <1>0, Fields, ConstantFacts DEF ThreadOK, allocatorOf
<1> QED
  BY <1>0, <1>1, <1>2 DEF DetachDeferred, At, notLists, cmdVars, Others, Control, Returns, Has, ThreadState

\* What examining a deferred tag does to the thread and to the variables of the proof.
LEMMA SortDeferredEffect ==
  ASSUME ControlInv, NEW t \in Threads, SortDeferred(t)
  PROVE  LET s == thread[t]
             r == allocatorOf(t) IN
         /\ At(t, "sort") /\ s.detached # <<>> /\ r \in Csrs
         /\ Others(t) /\ Control(t, s.pc, s.cmd, s.toResolve, s.toDrop) /\ Returns(t, s.toReturn, s.place)
         /\ IF canBeReleased(Head(s.detached))
            THEN Has(t, s.node, Tail(s.detached), <<Head(s.detached)>> \o s.ready, s.pending)
            ELSE Has(t, s.node, Tail(s.detached), s.ready, <<Head(s.detached)>> \o s.pending)
         /\ UNCHANGED <<freeTags, usedTags, deferredTags, populated, refCount, packet, tagOf, nodes, stream, dispatched, status, csrOwner, calls>>
<1>0. TypeOK /\ thread[t] \in ThreadState /\ ThreadOK(thread[t])
  BY DEF ControlInv, TypeOK, ThreadInv
<1>1. thread \in [Threads -> ThreadState]
  BY <1>0 DEF TypeOK
<1>2. thread[t].pc # "idle" => thread[t].cmd \in Commands /\ allocatorOf(t) \in Csrs
  BY <1>0, Fields, ConstantFacts DEF ThreadOK, allocatorOf
<1> QED
  BY <1>0, <1>1, <1>2 DEF SortDeferred, At, tagVars, cmdVars, Others, Control, Returns, Has, ThreadState

\* What splicing the ready tags does to the thread and to the variables of the proof.
LEMMA SpliceReadyEffect ==
  ASSUME ControlInv, NEW t \in Threads, SpliceReady(t)
  PROVE  LET s == thread[t]
             r == allocatorOf(t) IN
         /\ At(t, "sort") /\ s.detached = <<>> /\ r \in Csrs
         /\ freeTags' = [freeTags EXCEPT ![r] = @ \o s.ready]
         /\ Others(t) /\ Control(t, "splice", s.cmd, s.toResolve, s.toDrop)
         /\ Returns(t, s.toReturn, s.place) /\ Has(t, s.node, s.detached, <<>>, s.pending)
         /\ UNCHANGED <<usedTags, deferredTags, populated, refCount, packet, tagOf, nodes, stream, dispatched, status, csrOwner, calls>>
<1>0. TypeOK /\ thread[t] \in ThreadState /\ ThreadOK(thread[t])
  BY DEF ControlInv, TypeOK, ThreadInv
<1>1. thread \in [Threads -> ThreadState]
  BY <1>0 DEF TypeOK
<1>2. thread[t].pc # "idle" => thread[t].cmd \in Commands /\ allocatorOf(t) \in Csrs
  BY <1>0, Fields, ConstantFacts DEF ThreadOK, allocatorOf
<1> QED
  BY <1>0, <1>1, <1>2 DEF SpliceReady, At, notLists, cmdVars, Others, Control, Returns, Has, ThreadState

\* What splicing the pending tags does to the thread and to the variables of the proof.
LEMMA SplicePendingEffect ==
  ASSUME ControlInv, NEW t \in Threads, SplicePending(t)
  PROVE  LET s == thread[t]
             r == allocatorOf(t) IN
         /\ At(t, "splice") /\ r \in Csrs
         /\ deferredTags' = [deferredTags EXCEPT ![r] = @ \o s.pending]
         /\ Others(t) /\ Control(t, "remove", s.cmd, s.toResolve, s.toDrop)
         /\ Returns(t, s.toReturn, s.place) /\ Has(t, s.node, s.detached, s.ready, <<>>)
         /\ UNCHANGED <<freeTags, usedTags, populated, refCount, packet, tagOf, nodes, stream, dispatched, status, csrOwner, calls>>
<1>0. TypeOK /\ thread[t] \in ThreadState /\ ThreadOK(thread[t])
  BY DEF ControlInv, TypeOK, ThreadInv
<1>1. thread \in [Threads -> ThreadState]
  BY <1>0 DEF TypeOK
<1>2. thread[t].pc # "idle" => thread[t].cmd \in Commands /\ allocatorOf(t) \in Csrs
  BY <1>0, Fields, ConstantFacts DEF ThreadOK, allocatorOf
<1> QED
  BY <1>0, <1>1, <1>2 DEF SplicePending, At, notLists, cmdVars, Others, Control, Returns, Has, ThreadState

\* What removing a free tag does to the thread and to the variables of the proof.
LEMMA RemoveFreeEffect ==
  ASSUME ControlInv, NEW t \in Threads, RemoveFree(t)
  PROVE  LET s == thread[t]
             r == allocatorOf(t) IN
         /\ At(t, "remove") /\ freeTags[r] # <<>> /\ r \in Csrs
         /\ freeTags' = [freeTags EXCEPT ![r] = Tail(@)]
         /\ Others(t) /\ Control(t, "use", s.cmd, s.toResolve, s.toDrop)
         /\ Returns(t, s.toReturn, s.place) /\ Has(t, Head(freeTags[r]), s.detached, s.ready, s.pending)
         /\ UNCHANGED <<usedTags, deferredTags, populated, refCount, packet, tagOf, nodes, stream, dispatched, status, csrOwner, calls>>
<1>0. TypeOK /\ thread[t] \in ThreadState /\ ThreadOK(thread[t])
  BY DEF ControlInv, TypeOK, ThreadInv
<1>1. thread \in [Threads -> ThreadState]
  BY <1>0 DEF TypeOK
<1>2. thread[t].pc # "idle" => thread[t].cmd \in Commands /\ allocatorOf(t) \in Csrs
  BY <1>0, Fields, ConstantFacts DEF ThreadOK, allocatorOf
<1> QED
  BY <1>0, <1>1, <1>2 DEF RemoveFree, At, notLists, cmdVars, Others, Control, Returns, Has, ThreadState

\* What populateFreeTags does to the thread and to the variables of the proof.
LEMMA PopulateEffect ==
  ASSUME ControlInv, NEW t \in Threads, populateFreeTags(t)
  PROVE  LET s == thread[t]
             r == allocatorOf(t) IN
         /\ At(t, "remove") /\ freeTags[r] = <<>> /\ r \in Csrs /\ populated[r] + TagCount <= Len(TagMemory[r])
         /\ freeTags' = [freeTags EXCEPT ![r] = SubSeq(TagMemory[r], populated[r] + 1, populated[r] + TagCount)]
         /\ populated' = [populated EXCEPT ![r] = @ + TagCount]
         /\ UNCHANGED thread
         /\ UNCHANGED <<usedTags, deferredTags, refCount, packet, tagOf, nodes, stream, dispatched, status, csrOwner, calls>>
<1>0. TypeOK /\ thread[t] \in ThreadState /\ ThreadOK(thread[t])
  BY DEF ControlInv, TypeOK, ThreadInv
<1>1. thread \in [Threads -> ThreadState]
  BY <1>0 DEF TypeOK
<1>2. thread[t].pc # "idle" => thread[t].cmd \in Commands /\ allocatorOf(t) \in Csrs
  BY <1>0, Fields, ConstantFacts DEF ThreadOK, allocatorOf
<1> QED
  BY <1>0, <1>1, <1>2 DEF populateFreeTags, At, notLists, cmdVars, Others, Control, Returns, Has, ThreadState

\* What counting and initialising the tag in getTag does to the thread and to the variables of the proof.
LEMMA UseTagEffect ==
  ASSUME ControlInv, NEW t \in Threads, UseTag(t)
  PROVE  LET s == thread[t]
             c == s.cmd
             n == s.node IN
         /\ At(t, "use") /\ c \in Commands /\ Csr(c) \in Csrs /\ n \in Tags
         /\ usedTags' = [usedTags EXCEPT ![Csr(c)] = @ \cup {n}]
         /\ refCount' = [refCount EXCEPT ![n] = @ + 1]
         /\ packet' = [packet EXCEPT ![n] = [ended |-> FALSE, implicitDependenciesCount |-> 0]]
         /\ tagOf' = [tagOf EXCEPT ![n] = c]
         /\ nodes' = [nodes EXCEPT ![QueueOf[c]] = Append(@, n)]
         /\ Others(t) /\ Control(t, "dispatch", c, s.toResolve, s.toDrop)
         /\ Returns(t, s.toReturn, s.place) /\ Has(t, None, s.detached, s.ready, s.pending)
         /\ UNCHANGED <<freeTags, deferredTags, populated, stream, dispatched, status, csrOwner, calls>>
<1>0. TypeOK /\ thread[t] \in ThreadState /\ ThreadOK(thread[t])
  BY DEF ControlInv, TypeOK, ThreadInv
<1>1. thread \in [Threads -> ThreadState]
  BY <1>0 DEF TypeOK
<1>2. thread[t].pc # "idle" => thread[t].cmd \in Commands /\ Csr(thread[t].cmd) \in Csrs
  BY <1>0, Fields, ConstantFacts DEF ThreadOK
<1>3. thread[t].pc = "use" => thread[t].node \in Tags
  BY <1>0, Fields DEF ThreadOK
<1> QED
  BY <1>0, <1>1, <1>2, <1>3 DEF UseTag, At, cmdVars, Others, Control, Returns, Has, ThreadState

\* What resolveDependencies does to the thread and to the variables of the proof.
LEMMA ResolveDependencyEffect ==
  ASSUME ControlInv, NEW t \in Threads, ResolveDependency(t)
  PROVE  LET s == thread[t]
             c == s.cmd IN
         /\ At(t, "resolve") /\ s.toResolve # <<>> /\ c \in Commands
         /\ IF canBeReleased(Head(s.toResolve)) \/ QueueOf[c] \in OutOfOrder
            THEN /\ nodes' = [nodes EXCEPT ![<<"stack", c>>] = RemoveAt(@, Len(@) - Len(s.toResolve) + 1)]
                 /\ Returns(t, <<Head(s.toResolve)>>, s.place)
            ELSE UNCHANGED nodes /\ Returns(t, s.toReturn, s.place)
         /\ Others(t) /\ Control(t, s.pc, c, Tail(s.toResolve), s.toDrop)
         /\ Has(t, s.node, s.detached, s.ready, s.pending)
         /\ UNCHANGED <<freeTags, usedTags, deferredTags, populated, refCount, packet, tagOf, stream, dispatched, status, csrOwner, calls>>
<1>0. TypeOK /\ thread[t] \in ThreadState /\ ThreadOK(thread[t])
  BY DEF ControlInv, TypeOK, ThreadInv
<1>1. thread \in [Threads -> ThreadState]
  BY <1>0 DEF TypeOK
<1>2. thread[t].pc # "idle" => thread[t].cmd \in Commands /\ Csr(thread[t].cmd) \in Csrs
  BY <1>0, Fields, ConstantFacts DEF ThreadOK
<1>3. thread[t].pc = "use" => thread[t].node \in Tags
  BY <1>0, Fields DEF ThreadOK
<1> DEFINE s == thread[t]
           drop == canBeReleased(Head(s.toResolve)) \/ QueueOf[s.cmd] \in OutOfOrder
<1>4. /\ At(t, "resolve") /\ s.toResolve # <<>> /\ s.cmd \in Commands
      /\ UNCHANGED <<freeTags, usedTags, deferredTags, populated, refCount, packet, tagOf, stream, dispatched, status, csrOwner, calls>>
  BY <1>2 DEF ResolveDependency, At, tagVars, cmdVars
<1>5. CASE drop
  <2>1. /\ nodes' = [nodes EXCEPT ![<<"stack", s.cmd>>] = RemoveAt(@, Len(@) - Len(s.toResolve) + 1)]
        /\ thread' = [thread EXCEPT ![t].toResolve = Tail(@), ![t].toReturn = <<Head(s.toResolve)>>]
    BY <1>5 DEF ResolveDependency
  <2>2. /\ Returns(t, <<Head(s.toResolve)>>, s.place) /\ Others(t)
        /\ Control(t, s.pc, s.cmd, Tail(s.toResolve), s.toDrop) /\ Has(t, s.node, s.detached, s.ready, s.pending)
    BY <1>1, <2>1 DEF Others, Control, Returns, Has, ThreadState
  <2> QED
    BY <1>4, <1>5, <2>1, <2>2
<1>6. CASE ~drop
  <2>1. UNCHANGED nodes /\ thread' = [thread EXCEPT ![t].toResolve = Tail(@)]
    BY <1>6 DEF ResolveDependency
  <2>2. /\ Returns(t, s.toReturn, s.place) /\ Others(t)
        /\ Control(t, s.pc, s.cmd, Tail(s.toResolve), s.toDrop) /\ Has(t, s.node, s.detached, s.ready, s.pending)
    BY <1>1, <2>1 DEF Others, Control, Returns, Has, ThreadState
  <2> QED
    BY <1>4, <1>6, <2>1, <2>2
<1> QED
  BY <1>5, <1>6

\* What the end of resolveDependencies does to the thread and to the variables of the proof.
LEMMA DependenciesResolvedEffect ==
  ASSUME ControlInv, NEW t \in Threads, DependenciesResolved(t)
  PROVE  LET s == thread[t] IN
         /\ At(t, "resolve") /\ s.toResolve = <<>>
         /\ Others(t) /\ Control(t, "getTag", s.cmd, s.toResolve, s.toDrop)
         /\ Returns(t, s.toReturn, s.place) /\ Has(t, s.node, s.detached, s.ready, s.pending)
         /\ UNCHANGED <<freeTags, usedTags, deferredTags, populated, refCount, packet, tagOf, nodes, stream, dispatched, status, csrOwner, calls>>
<1>0. TypeOK /\ thread[t] \in ThreadState /\ ThreadOK(thread[t])
  BY DEF ControlInv, TypeOK, ThreadInv
<1>1. thread \in [Threads -> ThreadState]
  BY <1>0 DEF TypeOK
<1>2. thread[t].pc # "idle" => thread[t].cmd \in Commands /\ Csr(thread[t].cmd) \in Csrs
  BY <1>0, Fields, ConstantFacts DEF ThreadOK
<1>3. thread[t].pc = "use" => thread[t].node \in Tags
  BY <1>0, Fields DEF ThreadOK
<1> QED
  BY <1>0, <1>1, <1>2 DEF DependenciesResolved, Goto, At, tagVars, cmdVars, Others, Control, Returns, Has, ThreadState

\* What processDispatchForKernels does to the thread and to the variables of the proof.
LEMMA DispatchEffect ==
  ASSUME ControlInv, NEW t \in Threads, Dispatch(t)
  PROVE  LET s == thread[t]
             c == s.cmd
             own == nodes[QueueOf[c]]
             waits == OnCsr(c) \o nodes[<<"stack", c>>] IN
         /\ At(t, "dispatch") /\ c \in Commands
         /\ IF c \in OutputEvents THEN nodes' = [nodes EXCEPT ![<<"event", c>>] = own] /\ AddRefs(own)
            ELSE UNCHANGED <<nodes, refCount>>
         /\ dispatched' = [dispatched EXCEPT ![c] = programCsrDependencies(c, waits) \o setupTimestampPacket(c, own)]
         /\ incImplicitDependenciesCount(waits)
         /\ Others(t) /\ Control(t, IF s.blocked THEN "block" ELSE "flush", c, s.toResolve, s.toDrop)
         /\ Returns(t, s.toReturn, s.place) /\ Has(t, s.node, s.detached, s.ready, s.pending)
         /\ UNCHANGED <<freeTags, usedTags, deferredTags, populated, tagOf, stream, status, csrOwner, calls>>
<1>0. TypeOK /\ thread[t] \in ThreadState /\ ThreadOK(thread[t])
  BY DEF ControlInv, TypeOK, ThreadInv
<1>1. thread \in [Threads -> ThreadState]
  BY <1>0 DEF TypeOK
<1>2. thread[t].pc # "idle" => thread[t].cmd \in Commands /\ Csr(thread[t].cmd) \in Csrs
  BY <1>0, Fields, ConstantFacts DEF ThreadOK
<1>3. thread[t].pc = "use" => thread[t].node \in Tags
  BY <1>0, Fields DEF ThreadOK
<1> QED
  BY <1>0, <1>1, <1>2 DEF Dispatch, Goto, At, Others, Control, Returns, Has, ThreadState

\* What enqueueNonBlocked does to the thread and to the variables of the proof.
LEMMA NonBlockedEffect ==
  ASSUME ControlInv, NEW t \in Threads, EnqueueNonBlocked(t)
  PROVE  LET s == thread[t]
             c == s.cmd IN
         /\ At(t, "flush") /\ c \in Commands
         /\ flushTask(c) /\ nodes' = [nodes EXCEPT ![<<"stack", c>>] = <<>>]
         /\ csrOwner' = [csrOwner EXCEPT ![Csr(c)] = None]
         /\ Others(t) /\ Control(t, "idle", None, <<>>, <<>>)
         /\ Returns(t, nodes[<<"stack", c>>], "none") /\ Has(t, None, <<>>, <<>>, <<>>)
         /\ UNCHANGED <<freeTags, usedTags, deferredTags, populated, refCount, tagOf, dispatched, calls>>
<1>0. TypeOK /\ thread[t] \in ThreadState /\ ThreadOK(thread[t])
  BY DEF ControlInv, TypeOK, ThreadInv
<1>1. thread \in [Threads -> ThreadState]
  BY <1>0 DEF TypeOK
<1>2. thread[t].pc # "idle" => thread[t].cmd \in Commands /\ Csr(thread[t].cmd) \in Csrs
  BY <1>0, Fields, ConstantFacts DEF ThreadOK
<1>3. thread[t].pc = "use" => thread[t].node \in Tags
  BY <1>0, Fields DEF ThreadOK
<1> QED
  BY <1>0, <1>1, <1>2 DEF EnqueueNonBlocked, EnqueueReturn, At, Idle, Others, Control, Returns, Has, ThreadState

\* What enqueueBlocked does to the thread and to the variables of the proof.
LEMMA BlockedEffect ==
  ASSUME ControlInv, NEW t \in Threads, EnqueueBlocked(t)
  PROVE  LET s == thread[t]
             c == s.cmd IN
         /\ At(t, "block") /\ c \in Commands
         /\ nodes' = [nodes EXCEPT ![<<"current", c>>] = nodes[QueueOf[c]], ![<<"previous", c>>] = nodes[<<"stack", c>>],
                                ![<<"stack", c>>] = <<>>]
         /\ AddRefs(nodes[QueueOf[c]] \o nodes[<<"stack", c>>])
         /\ status' = [status EXCEPT ![c] = "blocked"]
         /\ csrOwner' = [csrOwner EXCEPT ![Csr(c)] = None]
         /\ Others(t) /\ Control(t, "idle", None, <<>>, VirtualEventOf(QueueOf[c]))
         /\ Returns(t, nodes[<<"stack", c>>], "none") /\ Has(t, None, <<>>, <<>>, <<>>)
         /\ UNCHANGED <<freeTags, usedTags, deferredTags, populated, packet, tagOf, stream, dispatched, calls>>
<1>0. TypeOK /\ thread[t] \in ThreadState /\ ThreadOK(thread[t])
  BY DEF ControlInv, TypeOK, ThreadInv
<1>1. thread \in [Threads -> ThreadState]
  BY <1>0 DEF TypeOK
<1>2. thread[t].pc # "idle" => thread[t].cmd \in Commands /\ Csr(thread[t].cmd) \in Csrs
  BY <1>0, Fields, ConstantFacts DEF ThreadOK
<1>3. thread[t].pc = "use" => thread[t].node \in Tags
  BY <1>0, Fields DEF ThreadOK
<1> QED
  BY <1>0, <1>1, <1>2 DEF EnqueueBlocked, EnqueueReturn, At, Idle, Others, Control, Returns, Has, ThreadState

\* What the end of submit does to the thread and to the variables of the proof.
LEMMA SubmittedEffect ==
  ASSUME ControlInv, NEW t \in Threads, Submitted(t)
  PROVE  LET s == thread[t]
             c == s.cmd IN
         /\ At(t, "wait") /\ c \in Commands
         /\ csrOwner' = [csrOwner EXCEPT ![Csr(c)] = None]
         /\ Others(t) /\ Control(t, "idle", None, <<>>, <<c>>)
         /\ Returns(t, <<>>, "none") /\ Has(t, None, <<>>, <<>>, <<>>)
         /\ UNCHANGED <<freeTags, usedTags, deferredTags, populated, refCount, packet, tagOf, nodes, stream, dispatched, status, calls>>
<1>0. TypeOK /\ thread[t] \in ThreadState /\ ThreadOK(thread[t])
  BY DEF ControlInv, TypeOK, ThreadInv
<1>1. thread \in [Threads -> ThreadState]
  BY <1>0 DEF TypeOK
<1>2. thread[t].pc # "idle" => thread[t].cmd \in Commands /\ Csr(thread[t].cmd) \in Csrs
  BY <1>0, Fields, ConstantFacts DEF ThreadOK
<1>3. thread[t].pc = "use" => thread[t].node \in Tags
  BY <1>0, Fields DEF ThreadOK
<1> QED
  BY <1>0, <1>1, <1>2 DEF Submitted, At, Idle, tagVars, cmdVars, Others, Control, Returns, Has, ThreadState

\* What dropping an event does to the thread and to the variables of the proof.
LEMMA DropEventEffect ==
  ASSUME ControlInv, NEW t \in Threads, DropEvent(t)
  PROVE  LET s == thread[t]
             c == Head(s.toDrop) IN
         /\ s.toDrop # <<>> /\ c \in Commands /\ s.place = "none"
         /\ IF eventRefs[c] = 1
            THEN /\ nodes' = [nodes EXCEPT ![<<"previous", c>>] = <<>>, ![<<"current", c>>] = <<>>, ![<<"event", c>>] = <<>>]
                 /\ Returns(t, nodes[<<"previous", c>>] \o nodes[<<"current", c>>] \o nodes[<<"event", c>>] \o s.toReturn, s.place)
            ELSE UNCHANGED nodes /\ Returns(t, s.toReturn, s.place)
         /\ Others(t) /\ \E d : Control(t, s.pc, s.cmd, s.toResolve, d)
         /\ Has(t, s.node, s.detached, s.ready, s.pending)
         /\ UNCHANGED <<freeTags, usedTags, deferredTags, populated, refCount, packet, tagOf, stream, dispatched, status, csrOwner, calls>>
<1>0. TypeOK /\ thread[t] \in ThreadState /\ ThreadOK(thread[t])
  BY DEF ControlInv, TypeOK, ThreadInv
<1>1. thread \in [Threads -> ThreadState]
  BY <1>0 DEF TypeOK
<1>2. thread[t].toDrop # <<>>
  BY DEF DropEvent
<1>3. Head(thread[t].toDrop) \in Commands /\ thread[t].place = "none"
  BY <1>0, <1>2, Fields, HeadTailProperties DEF ThreadOK
<1>4. CASE eventRefs[Head(thread[t].toDrop)] = 1
  <2> DEFINE e == Head(thread[t].toDrop)
             waited == IF nodes[<<"current", e>>] # <<>> THEN SetToSeq(WaitList[e]) ELSE <<>>
             drop == waited \o Tail(thread[t].toDrop)
             back == nodes[<<"previous", e>>] \o nodes[<<"current", e>>] \o nodes[<<"event", e>>] \o thread[t].toReturn
  <2>1. thread' = [thread EXCEPT ![t].toDrop = drop, ![t].toReturn = back]
    BY <1>4 DEF DropEvent
  <2>2. nodes' = [nodes EXCEPT ![<<"previous", e>>] = <<>>, ![<<"current", e>>] = <<>>, ![<<"event", e>>] = <<>>]
    BY <1>4 DEF DropEvent
  <2> HIDE DEF drop, back
  <2>3. /\ Others(t) /\ Control(t, thread[t].pc, thread[t].cmd, thread[t].toResolve, drop)
        /\ Returns(t, back, thread[t].place)
        /\ Has(t, thread[t].node, thread[t].detached, thread[t].ready, thread[t].pending)
    BY <1>1, <2>1 DEF Others, Control, Returns, Has, ThreadState
  <2> QED
    BY <1>2, <1>3, <1>4, <2>2, <2>3 DEF DropEvent, tagVars, back
<1>5. CASE eventRefs[Head(thread[t].toDrop)] # 1
  BY <1>1, <1>2, <1>3, <1>5 DEF DropEvent, tagVars, Others, Control, Returns, Has, ThreadState
<1> QED
  BY <1>4, <1>5

\* What enqueueHandler for a kernel does to the thread and to the variables of the proof.
LEMMA EnqueueKernelEffect ==
  ASSUME ControlInv, NEW t \in Threads, NEW c \in Commands, EnqueueKernel(t, c)
  PROVE  LET s == thread[t] IN
         /\ s = Idle /\ calls[t] # <<>> /\ Head(calls[t]) = <<"enqueue", c>> /\ calls' = [calls EXCEPT ![t] = Tail(@)]
         /\ c \in Kernels /\ csrOwner[Csr(c)] = None /\ csrOwner' = [csrOwner EXCEPT ![Csr(c)] = t]
         /\ nodes' = [nodes EXCEPT ![<<"stack", c>>] = nodes[QueueOf[c]], ![QueueOf[c]] = <<>>]
         /\ Others(t) /\ Control(t, "resolve", c, nodes[QueueOf[c]], isQueueBlocked(QueueOf[c]))
         /\ Returns(t, <<>>, "none") /\ Has(t, None, <<>>, <<>>, <<>>)
         /\ UNCHANGED <<freeTags, usedTags, deferredTags, populated, refCount, packet, tagOf, stream, dispatched, status>>
<1>0. TypeOK /\ thread[t] \in ThreadState /\ ThreadOK(thread[t])
  BY DEF ControlInv, TypeOK, ThreadInv
<1>1. thread \in [Threads -> ThreadState]
  BY <1>0 DEF TypeOK
<1>2. QueueOf[c] \in Queues /\ Csr(c) = CsrOf[QueueOf[c]]
  BY ConstantFacts DEF Csr
<1> QED
  BY <1>0, <1>1, <1>2 DEF EnqueueKernel, NextCall, Idle, tagVars, Others, Control, Returns, Has, ThreadState

\* What enqueueHandler for a marker does to the thread and to the variables of the proof.
LEMMA EnqueueMarkerEffect ==
  ASSUME ControlInv, NEW t \in Threads, NEW c \in Commands, EnqueueMarker(t, c) \/ EnqueueBlockedMarker(t, c)
  PROVE  LET s == thread[t]
             inherited == nodes[QueueOf[c]] \o EventNodes(WaitList[c]) IN
         /\ s = Idle /\ calls[t] # <<>> /\ Head(calls[t]) = <<"enqueue", c>> /\ calls' = [calls EXCEPT ![t] = Tail(@)]
         /\ csrOwner[Csr(c)] = None /\ \E v \in {"marked", "blocked"} : status' = [status EXCEPT ![c] = v]
         /\ IF c \in OutputEvents
            THEN nodes' = [nodes EXCEPT ![<<"event", c>>] = inherited] /\ AddRefs(inherited)
            ELSE UNCHANGED <<nodes, refCount>>
         /\ Others(t) /\ \E d : Control(t, "idle", None, <<>>, d)
         /\ Returns(t, <<>>, "none") /\ Has(t, None, <<>>, <<>>, <<>>)
         /\ UNCHANGED <<freeTags, usedTags, deferredTags, populated, packet, tagOf, stream, dispatched, csrOwner>>
<1>0. TypeOK /\ thread[t] \in ThreadState /\ ThreadOK(thread[t])
  BY DEF ControlInv, TypeOK, ThreadInv
<1>1. thread \in [Threads -> ThreadState]
  BY <1>0 DEF TypeOK
<1>2. EnqueueWithoutKernel(t, c)
  BY DEF EnqueueMarker, EnqueueBlockedMarker
<1>3. PICK d : thread' = [thread EXCEPT ![t].toDrop = d]
  BY DEF EnqueueMarker, EnqueueBlockedMarker
<1>4. thread[t] = Idle
  BY <1>2 DEF EnqueueWithoutKernel, NextCall
<1>5. /\ Others(t) /\ Control(t, "idle", None, <<>>, d)
      /\ Returns(t, <<>>, "none") /\ Has(t, None, <<>>, <<>>, <<>>)
  BY <1>1, <1>3, <1>4 DEF Others, Control, Returns, Has, ThreadState, Idle
<1>6. \E v \in {"marked", "blocked"} : status' = [status EXCEPT ![c] = v]
  BY DEF EnqueueMarker, EnqueueBlockedMarker
<1> QED
  BY <1>2, <1>5, <1>6 DEF EnqueueWithoutKernel, NextCall

\* What submitting a marker does to the thread and to the variables of the proof.
LEMMA SubmitMarkerEffect ==
  ASSUME ControlInv, NEW t \in Threads, NEW c \in Commands, SubmitMarker(t, c)
  PROVE  LET s == thread[t] IN
         /\ s = Idle /\ calls[t] # <<>> /\ Head(calls[t]) = <<"submit", c>> /\ calls' = [calls EXCEPT ![t] = Tail(@)]
         /\ status[c] = "blocked" /\ csrOwner[Csr(c)] = None /\ csrOwner' = [csrOwner EXCEPT ![Csr(c)] = t]
         /\ status' = [status EXCEPT ![c] = "marked"]
         /\ Others(t) /\ Control(t, "wait", c, <<>>, <<>>)
         /\ Returns(t, <<>>, "none") /\ Has(t, None, <<>>, <<>>, <<>>)
         /\ UNCHANGED <<freeTags, usedTags, deferredTags, populated, refCount, packet, tagOf, nodes, stream, dispatched>>
<1>0. TypeOK /\ thread[t] \in ThreadState /\ ThreadOK(thread[t])
  BY DEF ControlInv, TypeOK, ThreadInv
<1>1. thread \in [Threads -> ThreadState]
  BY <1>0 DEF TypeOK
<1>2. QueueOf[c] \in Queues /\ Csr(c) = CsrOf[QueueOf[c]]
  BY ConstantFacts DEF Csr
<1> QED
  BY <1>0, <1>1, <1>2 DEF SubmitMarker, NextCall, Idle, tagVars, Others, Control, Returns, Has, ThreadState

\* What submit does to the thread and to the variables of the proof.
LEMMA SubmitEffect ==
  ASSUME ControlInv, NEW t \in Threads, NEW c \in Commands, Submit(t, c)
  PROVE  LET s == thread[t] IN
         /\ s = Idle /\ calls[t] # <<>> /\ Head(calls[t]) = <<"submit", c>> /\ calls' = [calls EXCEPT ![t] = Tail(@)]
         /\ status[c] = "blocked" /\ csrOwner[Csr(c)] = None /\ csrOwner' = [csrOwner EXCEPT ![Csr(c)] = t] /\ flushTask(c)
         /\ Others(t) /\ Control(t, "wait", c, <<>>, <<>>)
         /\ Returns(t, <<>>, "none") /\ Has(t, None, <<>>, <<>>, <<>>)
         /\ UNCHANGED <<freeTags, usedTags, deferredTags, populated, refCount, tagOf, nodes, dispatched>>
<1>0. TypeOK /\ thread[t] \in ThreadState /\ ThreadOK(thread[t])
  BY DEF ControlInv, TypeOK, ThreadInv
<1>1. thread \in [Threads -> ThreadState]
  BY <1>0 DEF TypeOK
<1>2. QueueOf[c] \in Queues /\ Csr(c) = CsrOf[QueueOf[c]]
  BY ConstantFacts DEF Csr
<1> QED
  BY <1>0, <1>1, <1>2 DEF Submit, NextCall, Idle, Others, Control, Returns, Has, ThreadState

\* What terminating a blocked command does to the thread and to the variables of the proof.
LEMMA AbortEffect ==
  ASSUME ControlInv, NEW t \in Threads, NEW c \in Commands, Abort(t, c)
  PROVE  LET s == thread[t] IN
         /\ s = Idle /\ calls[t] # <<>> /\ Head(calls[t]) = <<"abort", c>> /\ calls' = [calls EXCEPT ![t] = Tail(@)]
         /\ status[c] = "blocked" /\ csrOwner[Csr(c)] = None /\ status' = [status EXCEPT ![c] = "aborted"]
         /\ Others(t) /\ Control(t, "idle", None, <<>>, <<c>>)
         /\ Returns(t, <<>>, "none") /\ Has(t, None, <<>>, <<>>, <<>>)
         /\ UNCHANGED <<freeTags, usedTags, deferredTags, populated, refCount, packet, tagOf, nodes, stream, dispatched, csrOwner>>
<1>0. TypeOK /\ thread[t] \in ThreadState /\ ThreadOK(thread[t])
  BY DEF ControlInv, TypeOK, ThreadInv
<1>1. thread \in [Threads -> ThreadState]
  BY <1>0 DEF TypeOK
<1>2. QueueOf[c] \in Queues /\ Csr(c) = CsrOf[QueueOf[c]]
  BY ConstantFacts DEF Csr
<1> QED
  BY <1>0, <1>1, <1>2 DEF Abort, NextCall, Idle, tagVars, Others, Control, Returns, Has, ThreadState

\* What clReleaseEvent does to the thread and to the variables of the proof.
LEMMA ReleaseEventEffect ==
  ASSUME ControlInv, NEW t \in Threads, NEW c \in Commands, ReleaseEvent(t, c)
  PROVE  LET s == thread[t] IN
         /\ s = Idle /\ calls[t] # <<>> /\ Head(calls[t]) = <<"release", c>> /\ calls' = [calls EXCEPT ![t] = Tail(@)]
         /\ Others(t) /\ Control(t, "idle", None, <<>>, <<c>>)
         /\ Returns(t, <<>>, "none") /\ Has(t, None, <<>>, <<>>, <<>>)
         /\ UNCHANGED <<freeTags, usedTags, deferredTags, populated, refCount, packet, tagOf, nodes, stream, dispatched, status, csrOwner>>
<1>0. TypeOK /\ thread[t] \in ThreadState /\ ThreadOK(thread[t])
  BY DEF ControlInv, TypeOK, ThreadInv
<1>1. thread \in [Threads -> ThreadState]
  BY <1>0 DEF TypeOK
<1>2. QueueOf[c] \in Queues /\ Csr(c) = CsrOf[QueueOf[c]]
  BY ConstantFacts DEF Csr
<1> QED
  BY <1>0, <1>1, <1>2 DEF ReleaseEvent, NextCall, Idle, tagVars, cmdVars, Others, Control, Returns, Has, ThreadState

\* What the destructor of a queue does to the thread and to the variables of the proof.
LEMMA ReleaseQueueEffect ==
  ASSUME ControlInv, NEW t \in Threads, NEW q \in Queues, ReleaseQueue(t, q)
  PROVE  LET s == thread[t] IN
         /\ s = Idle /\ calls[t] # <<>> /\ Head(calls[t]) = <<"releaseQueue", q>> /\ calls' = [calls EXCEPT ![t] = Tail(@)]
         /\ \A c \in Commands : QueueOf[c] = q => \A u \in Threads : thread[u].cmd # c
         /\ nodes' = [nodes EXCEPT ![q] = <<>>]
         /\ Others(t) /\ Control(t, "idle", None, <<>>, VirtualEventOf(q))
         /\ Returns(t, nodes[q], "none") /\ Has(t, None, <<>>, <<>>, <<>>)
         /\ UNCHANGED <<freeTags, usedTags, deferredTags, populated, refCount, packet, tagOf, stream, dispatched, status, csrOwner>>
<1>0. TypeOK /\ thread[t] \in ThreadState /\ ThreadOK(thread[t])
  BY DEF ControlInv, TypeOK, ThreadInv
<1>1. thread \in [Threads -> ThreadState]
  BY <1>0 DEF TypeOK
<1>2. thread[t] = Idle /\ thread' = [thread EXCEPT ![t].toDrop = VirtualEventOf(q), ![t].toReturn = nodes[q]]
  BY DEF ReleaseQueue, NextCall
<1>3. /\ Others(t) /\ Control(t, "idle", None, <<>>, VirtualEventOf(q))
      /\ Returns(t, nodes[q], "none") /\ Has(t, None, <<>>, <<>>, <<>>)
  BY <1>1, <1>2 DEF Others, Control, Returns, Has, ThreadState, Idle
<1>4. \A c \in Commands : QueueOf[c] = q => \A u \in Threads : thread[u].cmd # c
  BY DEF ReleaseQueue
<1> QED
  BY <1>3, <1>4 DEF ReleaseQueue, NextCall, tagVars

-----------------------------------------------------------------------------
(* Control, step by step *)

\* A step within a call leaves the calls to be made.
LEMMA CallsSame ==
  ASSUME UNCHANGED calls
  PROVE  (EnqueuedOnce(calls) => EnqueuedOnce(calls)') /\ \A c : Awaited(c)' <=> Awaited(c)
<1>1. EnqueuedOnce(calls) => EnqueuedOnce(calls)'
  BY DEF EnqueuedOnce
<1>2. \A c : Awaited(c)' <=> Awaited(c)
  BY DEF Awaited
<1> QED
  BY <1>1, <1>2

\* The steps of a thread within its call that touch no container.
LEMMA QuietControl ==
  ASSUME ControlInv, NEW t \in Threads, TypeOK',
         \/ returnTag(t) \/ returnTagToFreePool(t) \/ returnTagToDeferredPool(t)
         \/ GetTag(t) \/ DetachDeferred(t) \/ SortDeferred(t) \/ SpliceReady(t) \/ SplicePending(t)
         \/ RemoveFree(t) \/ populateFreeTags(t) \/ DependenciesResolved(t)
  PROVE  ControlInv'
<1> DEFINE s == thread[t]
           Goal == /\ UNCHANGED <<nodes, status, csrOwner, calls>> /\ Others(t)
                   /\ ThreadOK(thread'[t]) /\ thread'[t].cmd = s.cmd
                   /\ s.pc # "idle" \/ thread'[t].pc = "idle"
                   /\ thread'[t].pc \in Enqueuing => s.pc \in Enqueuing
                   /\ thread'[t].pc \in Early => s.pc \in Early \ {"dispatch"} \/ thread'[t].pc = s.pc
                   /\ thread'[t].toResolve \in {<<>>, s.toResolve}
<1> SUFFICES Goal
  BY ControlOfThread DEF Others
<1>1. ThreadOK(s) /\ s \in ThreadState /\ ThreadOK(s)
  BY DEF ControlInv, ThreadInv, TypeOK
<1>2. \A x \in Tags : x # None
  BY ConstantFacts
<1>3. CASE returnTag(t)
  BY <1>1, <1>3, ReturnTagEffect DEF Control, Returns, Has, ThreadOK
<1>4. CASE returnTagToFreePool(t)
  BY <1>1, <1>4, ReturnToFreeEffect DEF Control, Returns, Has, ThreadOK
<1>5. CASE returnTagToDeferredPool(t)
  BY <1>1, <1>5, ReturnToDeferredEffect DEF Control, Returns, Has, ThreadOK
<1>6. CASE GetTag(t)
  BY <1>1, <1>6, GetTagEffect DEF Control, Returns, Has, ThreadOK, At, Enqueuing, Early
<1>7. CASE DetachDeferred(t)
  BY <1>1, <1>7, DetachDeferredEffect DEF Control, Returns, Has, ThreadOK, At, Enqueuing, Early
<1>8. CASE SortDeferred(t)
  BY <1>1, <1>8, SortDeferredEffect DEF Control, Returns, Has, ThreadOK, At, Enqueuing, Early
<1>9. CASE SpliceReady(t)
  BY <1>1, <1>9, SpliceReadyEffect DEF Control, Returns, Has, ThreadOK, At, Enqueuing, Early
<1>10. CASE SplicePending(t)
  BY <1>1, <1>10, SplicePendingEffect DEF Control, Returns, Has, ThreadOK, At, Enqueuing, Early
<1>11. CASE RemoveFree(t)
  <2>1. allocatorOf(t) \in Csrs /\ freeTags[allocatorOf(t)] # <<>>
    BY <1>11, RemoveFreeEffect
  <2>2. Head(freeTags[allocatorOf(t)]) # None
    BY <1>2, <2>1, HeadTailProperties DEF ControlInv, TypeOK
  <2> QED
    BY <1>1, <1>11, <2>2, RemoveFreeEffect DEF Control, Returns, Has, ThreadOK, At, Enqueuing, Early
<1>12. CASE populateFreeTags(t)
  BY <1>1, <1>12, PopulateEffect DEF Others, At, Enqueuing, Early
<1>13. CASE DependenciesResolved(t)
  BY <1>1, <1>13, DependenciesResolvedEffect DEF Control, Returns, Has, ThreadOK, At, Enqueuing, Early
<1> QED
  BY <1>3, <1>4, <1>5, <1>6, <1>7, <1>8, <1>9, <1>10, <1>11, <1>12, <1>13

\* getTag puts the tag into the container of the queue.
LEMMA UseTagControl ==
  ASSUME ControlInv, NEW t \in Threads, TypeOK', UseTag(t)
  PROVE  ControlInv'
<1> DEFINE s == thread[t]
           c == s.cmd
           q == QueueOf[c]
<1>1. TypeOK /\ ThreadOK(s) /\ OwnerOK(t) /\ c \in Commands /\ q \in Queues /\ q \in Holders
  BY UseTagEffect, ConstantFacts DEF ControlInv, ThreadInv
<1>2. nodes[q] = <<>> /\ nodes'[q] = <<s.node>> /\ (\A h \in Holders \ {q} : nodes'[h] = nodes[h])
      /\ csrOwner[Csr(c)] = t
  <2>1. s.pc = "use" /\ nodes' = [nodes EXCEPT ![q] = Append(@, s.node)]
    BY UseTagEffect DEF At
  <2>2. nodes[q] = <<>> /\ csrOwner[Csr(c)] = t
    BY <1>1, <2>1 DEF OwnerOK, Early
  <2>3. Append(<<>>, s.node) = <<s.node>>
    OBVIOUS
  <2> QED
    BY <1>1, <2>1, <2>2, <2>3 DEF TypeOK
<1>3. ThreadOK(thread'[t])
  BY <1>1, UseTagEffect DEF Control, Returns, Has, ThreadOK, At
<1>4. OwnerOK(t)'
  <2>1. /\ s.pc = "use" /\ UNCHANGED <<status, csrOwner>>
        /\ thread'[t].pc = "dispatch" /\ thread'[t].cmd = c /\ thread'[t].toResolve = s.toResolve
    BY UseTagEffect DEF Control, At
  <2>2. \A k \in {"event", "current", "previous", "stack"} : nodes'[<<k, c>>] = nodes[<<k, c>>]
    BY <1>1, <1>2, ConstantFacts
  <2>3. thread'[t].toResolve = <<>>
    BY <1>1, <2>1 DEF ThreadOK
  <2> QED
    BY <1>1, <1>2, <2>1, <2>2, <2>3 DEF OwnerOK, Enqueuing, Early, Csr
<1>5. ThreadInv'
  <2>1. ASSUME NEW u \in Threads \ {t}, thread[u].pc # "idle"
        PROVE  LET d == thread[u].cmd IN
               /\ csrOwner'[Csr(d)] = csrOwner[Csr(d)] /\ status'[d] = status[d]
               /\ nodes'[QueueOf[d]] = nodes[QueueOf[d]] /\ nodes'[<<"stack", d>>] = nodes[<<"stack", d>>]
               /\ \A k \in {"event", "current", "previous"} : nodes'[<<k, d>>] \in {nodes[<<k, d>>], <<>>}
    <3>1. thread[u].cmd \in Commands /\ QueueOf[thread[u].cmd] # q
      BY <1>1, <1>2, <2>1, OtherThreads
    <3> QED
      BY <1>1, <1>2, <3>1, UseTagEffect, ConstantFacts
  <2> QED
    BY <1>3, <1>4, <2>1, OthersKept, UseTagEffect DEF Others
<1>6. CallInv'
  <2>1. \A d \in Commands : Awaited(d)' => thread'[t].cmd # d /\ Awaited(d)
    <3>1. UNCHANGED calls /\ thread'[t].cmd = c
      BY UseTagEffect DEF Control
    <3>2. \A d \in Commands : Awaited(d) => c # d
      BY DEF ControlInv, CallInv
    <3> QED
      BY <3>1, <3>2, CallsSame
  <2>2. EnqueuedOnce(calls)' /\ UNCHANGED status /\ Others(t)
    BY UseTagEffect, CallsSame DEF ControlInv, CallInv
  <2>3. \A d \in Commands : \A k \in {"event", "current", "previous", "stack"} : nodes'[<<k, d>>] = nodes[<<k, d>>]
    BY <1>1, <1>2, ConstantFacts
  <2> QED
    BY <2>1, <2>2, <2>3, CallsKept DEF Others
<1>7. SizeInv'
  <2>1. Len(nodes'[q]) <= 1
    BY <1>2
  <2>2. \A h \in Queues : h \in Holders
    BY ConstantFacts
  <2> QED
    BY <1>1, <1>2, <2>1, <2>2, ConstantFacts DEF SizeInv, ControlInv
<1> QED
  BY <1>5, <1>6, <1>7 DEF ControlInv

\* A step of t changes the state of the command c only, and events may lose their tags.
LEMMA ControlOfCommand ==
  ASSUME ControlInv, TypeOK', NEW t \in Threads, NEW c \in Commands, Others(t),
         ThreadOK(thread'[t]), OwnerOK(t)', SizeInv', EnqueuedOnce(calls)',
         \A d \in Commands : Awaited(d)' => Awaited(d) /\ thread'[t].cmd # d,
         \A d \in Commands \ {c} :
           /\ status'[d] = status[d] /\ nodes'[<<"stack", d>>] = nodes[<<"stack", d>>]
           /\ \A k \in {"event", "current", "previous"} : nodes'[<<k, d>>] \in {nodes[<<k, d>>], <<>>},
         ~Awaited(c)', \A u \in Threads \ {t} : thread[u].cmd # c,
         \A u \in Threads \ {t} : thread[u].pc # "idle" =>
            /\ csrOwner'[Csr(thread[u].cmd)] = csrOwner[Csr(thread[u].cmd)]
            /\ nodes'[QueueOf[thread[u].cmd]] = nodes[QueueOf[thread[u].cmd]]
  PROVE  ControlInv'
<1>1. \A u \in Threads \ {t} : thread[u].pc # "idle" => thread[u].cmd \in Commands
  BY Fields DEF ControlInv, TypeOK, ThreadInv, ThreadOK
<1>2. ThreadInv'
  BY <1>1, OthersKept DEF Others
<1>3. CallInv'
  <2>1. \A d \in Commands : Awaited(d)' => d # c
    OBVIOUS
  <2> QED
    BY <2>1, CallsKept DEF Others
<1> QED
  BY <1>2, <1>3 DEF ControlInv

\* The command that a thread is busy with is no other thread's and in no call.
LEMMA OwnCommand ==
  ASSUME ControlInv, NEW t \in Threads, thread[t].pc # "idle"
  PROVE  LET c == thread[t].cmd IN
         /\ c \in Commands /\ ~Awaited(c) /\ csrOwner[Csr(c)] = t
         /\ \A u \in Threads \ {t} : thread[u].cmd # c
         /\ \A u \in Threads \ {t} : thread[u].pc # "idle" =>
              Csr(thread[u].cmd) # Csr(c) /\ QueueOf[thread[u].cmd] # QueueOf[c]
<1> DEFINE c == thread[t].cmd
<1>1. TypeOK /\ \A u \in Threads : thread[u] \in ThreadState /\ ThreadOK(thread[u]) /\ OwnerOK(u)
  BY DEF ControlInv, TypeOK, ThreadInv
<1>2. c \in Commands /\ csrOwner[Csr(c)] = t
  BY <1>1, Fields DEF ThreadOK, OwnerOK
<1>3. ~Awaited(c)
  BY <1>2 DEF ControlInv, CallInv
<1>4. ASSUME NEW u \in Threads \ {t} PROVE thread[u].cmd # c
  <2>1. CASE thread[u].pc = "idle"
    BY <1>1, <1>2, <2>1, ConstantFacts DEF ThreadOK
  <2>2. CASE thread[u].pc # "idle"
    BY <1>2, <2>2, OtherThreads
  <2> QED
    BY <2>1, <2>2
<1>5. \A u \in Threads \ {t} : thread[u].pc # "idle" =>
              Csr(thread[u].cmd) # Csr(c) /\ QueueOf[thread[u].cmd] # QueueOf[c]
  BY <1>2, OtherThreads
<1> QED
  BY <1>2, <1>3, <1>4, <1>5

\* A container of at most one tag is that tag.
LEMMA OneTag ==
  ASSUME NEW s \in Seq(Tags), s # <<>>, Len(s) <= 1
  PROVE  /\ Head(s) \in Tags /\ s = <<Head(s)>> /\ Len(s) = 1 /\ Tail(s) = <<>>
         /\ Len(s) - Len(s) + 1 = 1 /\ RemoveAt(s, 1) = <<>>
<1>1. Len(s) = 1 /\ Len(s) \in Nat
  <2>1. Len(s) \in Nat
    BY LenProperties
  <2>2. Len(s) # 0
    BY EmptySeq
  <2> QED
    BY <2>1, <2>2
<1>2. Head(s) \in Tags /\ Head(s) = s[1] /\ Tail(s) \in Seq(Tags) /\ Len(Tail(s)) = 0
  BY <1>1, HeadTailProperties
<1>3. Tail(s) = <<>>
  BY <1>2, EmptySeq
<1>4. s = <<Head(s)>>
  BY <1>1, <1>2
<1>5. RemoveAt(s, 1) = <<>>
  <2>1. RemoveAt(s, 1) \in Seq(Tags) /\ Len(RemoveAt(s, 1)) = 0
    <3>1. 1 \in 1..Len(s)
      BY <1>1
    <3>2. RemoveAt(s, 1) \in Seq(Tags) /\ Len(RemoveAt(s, 1)) = Len(s) - 1
      BY <3>1, RemoveAtType
    <3> QED
      BY <1>1, <3>2
  <2> QED
    BY <2>1, EmptySeq
<1> QED
  BY <1>1, <1>2, <1>3, <1>4, <1>5

\* resolveDependencies drops the previous tag.
LEMMA ResolveControl ==
  ASSUME ControlInv, NEW t \in Threads, TypeOK', ResolveDependency(t)
  PROVE  ControlInv'
<1> DEFINE s == thread[t]
           c == s.cmd
           old == nodes[<<"stack", c>>]
<1>1. TypeOK /\ ThreadOK(s) /\ OwnerOK(t) /\ s \in ThreadState /\ s.pc = "resolve" /\ s.toResolve # <<>> /\ s.toReturn = <<>> /\ s.toDrop = <<>>
  BY ResolveDependencyEffect DEF ControlInv, ThreadInv, TypeOK, At
<1>2. c \in Commands /\ s.toResolve = old /\ <<"stack", c>> \in Holders /\ old \in Seq(Tags) /\ Len(old) <= 1
  <2>1. c \in Commands /\ s.toResolve = old
    BY <1>1, OwnCommand DEF OwnerOK
  <2> QED
    BY <1>1, <2>1, ConstantFacts DEF TypeOK, SizeInv, ControlInv
<1>3. Tail(s.toResolve) = <<>> /\ RemoveAt(old, 1) = <<>> /\ Len(old) - Len(s.toResolve) + 1 = 1
  <2> HIDE DEF old, s
  <2> QED
    BY <1>1, <1>2, OneTag
<1>4. nodes' = nodes \/ nodes' = [nodes EXCEPT ![<<"stack", c>>] = <<>>]
  BY <1>3, ResolveDependencyEffect
<1>6. (\A h \in Holders \ {<<"stack", c>>} : nodes'[h] = nodes[h]) /\ Len(nodes'[<<"stack", c>>]) <= 1
  <2>1. CASE nodes' = nodes
    BY <1>2, <2>1
  <2>2. CASE nodes' = [nodes EXCEPT ![<<"stack", c>>] = <<>>]
    BY <1>1, <1>2, <2>2 DEF TypeOK
  <2> QED
    BY <1>4, <2>1, <2>2
<1>7. ThreadOK(thread'[t])
  BY <1>1, <1>3, ResolveDependencyEffect DEF ThreadOK, Control, Returns, Has, At
<1>8. OwnerOK(t)'
  <2>1. /\ thread'[t].pc = s.pc /\ thread'[t].cmd = c /\ thread'[t].toResolve = <<>> /\ UNCHANGED <<status, csrOwner>>
    BY <1>3, ResolveDependencyEffect DEF Control
  <2>2. \A k \in {"event", "current", "previous"} : nodes'[<<k, c>>] = nodes[<<k, c>>]
    BY <1>2, <1>6, ConstantFacts
  <2>3. nodes'[QueueOf[c]] = nodes[QueueOf[c]]
    BY <1>2, <1>6, ConstantFacts
  <2> QED
    BY <1>1, <2>1, <2>2, <2>3 DEF OwnerOK, Csr
<1>9. SizeInv'
  BY <1>2, <1>6, ConstantFacts DEF SizeInv, ControlInv
<1>10. Others(t) /\ UNCHANGED <<status, csrOwner, calls>> /\ thread'[t].cmd = c
  BY ResolveDependencyEffect DEF Control
<1>11. \A d \in Commands \ {c} : \A k \in {"event", "current", "previous", "stack"} : nodes'[<<k, d>>] = nodes[<<k, d>>]
  BY <1>6, ConstantFacts
<1>12. ~Awaited(c)' /\ EnqueuedOnce(calls)' /\ \A d \in Commands : Awaited(d)' => Awaited(d) /\ c # d
  BY <1>1, <1>10, CallsSame, OwnCommand DEF ControlInv, CallInv
<1>13. \A u \in Threads \ {t} : thread[u].cmd # c
  BY <1>1, OwnCommand
<1>14. \A u \in Threads \ {t} : thread[u].pc # "idle" =>
            /\ csrOwner'[Csr(thread[u].cmd)] = csrOwner[Csr(thread[u].cmd)]
            /\ nodes'[QueueOf[thread[u].cmd]] = nodes[QueueOf[thread[u].cmd]]
  <2>1. \A u \in Threads \ {t} : thread[u].pc # "idle" => thread[u].cmd \in Commands
    BY OwnCommand
  <2> QED
    BY <1>2, <1>6, <1>10, <2>1, ConstantFacts
<1> QED
  BY <1>2, <1>7, <1>8, <1>9, <1>10, <1>11, <1>12, <1>13, <1>14, ControlOfCommand

\* A step of t on its own command, within the call or at its end.
LEMMA ControlOfOwn ==
  ASSUME ControlInv, TypeOK', NEW t \in Threads, Others(t), thread[t].pc # "idle", UNCHANGED calls,
         thread'[t].cmd \in {thread[t].cmd, None}, ThreadOK(thread'[t]), OwnerOK(t)', SizeInv',
         \A h \in Holders : h \notin ({"event", "current", "previous", "stack"} \X {thread[t].cmd}) =>
             nodes'[h] = nodes[h],
         \A d \in Commands \ {thread[t].cmd} : status'[d] = status[d],
         \A r \in Csrs \ {Csr(thread[t].cmd)} : csrOwner'[r] = csrOwner[r]
  PROVE  ControlInv'
<1>0. PICK c \in Commands : c = thread[t].cmd
  BY OwnCommand
<1>1. ~Awaited(c) /\ \A u \in Threads \ {t} : thread[u].cmd # c
  BY <1>0, OwnCommand
<1>2. ~Awaited(c)' /\ EnqueuedOnce(calls)' /\ \A d \in Commands : Awaited(d)' => Awaited(d) /\ thread'[t].cmd # d
  <2>1. EnqueuedOnce(calls)' /\ \A d \in Commands : Awaited(d)' <=> Awaited(d)
    BY CallsSame DEF ControlInv, CallInv
  <2>2. \A d \in Commands : Awaited(d) => thread'[t].cmd # d
    BY <1>0, <1>1, ConstantFacts
  <2> QED
    BY <1>1, <2>1, <2>2
<1>3. \A d \in Commands \ {c} : \A k \in {"event", "current", "previous", "stack"} : nodes'[<<k, d>>] = nodes[<<k, d>>]
  BY <1>0, ConstantFacts
<1>4. \A u \in Threads \ {t} : thread[u].pc # "idle" =>
            /\ csrOwner'[Csr(thread[u].cmd)] = csrOwner[Csr(thread[u].cmd)]
            /\ nodes'[QueueOf[thread[u].cmd]] = nodes[QueueOf[thread[u].cmd]]
  <2>1. \A q \in Queues : nodes'[q] = nodes[q]
    <3>1. \A q \in Queues : q \in Holders /\ q \notin ({"event", "current", "previous", "stack"} \X {c})
      BY <1>1, ConstantFacts
    <3> QED
      BY <1>0, <3>1
  <2> QED
    BY <1>0, <1>1, <2>1, OwnCommand, ConstantFacts
<1> QED
  BY <1>0, <1>1, <1>2, <1>3, <1>4, ControlOfCommand

\* processDispatchForKernels gives the tag to the event.
LEMMA DispatchControl ==
  ASSUME ControlInv, NEW t \in Threads, TypeOK', Dispatch(t)
  PROVE  ControlInv'
<1> DEFINE s == thread[t]
           c == s.cmd
<1>1. TypeOK /\ ThreadOK(s) /\ OwnerOK(t) /\ c \in Commands /\ s.pc = "dispatch"
  BY DispatchEffect DEF ControlInv, ThreadInv, At
<1>2. \A h \in Holders \ {<<"event", c>>} : nodes'[h] = nodes[h]
  BY <1>1, DispatchEffect DEF TypeOK
<1>3. ThreadOK(thread'[t])
  BY <1>1, DispatchEffect DEF ThreadOK, Control, Returns, Has
<1>4. thread'[t].cmd = c /\ thread'[t].pc \in {"block", "flush"} /\ thread'[t].toResolve = <<>>
  BY <1>1, DispatchEffect DEF ThreadOK, Control
<1>5. OwnerOK(t)'
  <2>1. nodes'[<<"current", c>>] = nodes[<<"current", c>>] /\ nodes'[<<"previous", c>>] = nodes[<<"previous", c>>]
    BY <1>1, <1>2, ConstantFacts
  <2> QED
    BY <1>1, <1>4, <2>1, DispatchEffect DEF OwnerOK, Csr, Enqueuing, Early
<1>6. SizeInv'
  BY <1>1, <1>2, ConstantFacts DEF SizeInv, ControlInv
<1>8. \A h \in Holders : h \notin ({"event", "current", "previous", "stack"} \X {c}) => nodes'[h] = nodes[h]
  <2>1. \A k \in {"event", "current", "previous", "stack"} : <<k, c>> \in {"event", "current", "previous", "stack"} \X {c}
    OBVIOUS
  <2> QED
    BY <1>2, <2>1
<1>9. Others(t) /\ UNCHANGED <<status, csrOwner, calls>>
  BY DispatchEffect
<1> QED
  BY <1>1, <1>3, <1>4, <1>5, <1>6, <1>8, <1>9, ControlOfOwn

\* enqueueNonBlocked submits the command and releases the ownership.
LEMMA NonBlockedControl ==
  ASSUME ControlInv, NEW t \in Threads, TypeOK', EnqueueNonBlocked(t)
  PROVE  ControlInv'
<1> DEFINE s == thread[t]
           c == s.cmd
<1>1. TypeOK /\ ThreadOK(s) /\ OwnerOK(t) /\ c \in Commands /\ s.pc = "flush" /\ <<"stack", c>> \in Holders
  BY NonBlockedEffect, ConstantFacts DEF ControlInv, ThreadInv, At
<1>2. (\A h \in Holders \ {<<"stack", c>>} : nodes'[h] = nodes[h]) /\ nodes'[<<"stack", c>>] = <<>>
  BY <1>1, NonBlockedEffect DEF TypeOK
<1>3. ThreadOK(thread'[t])
  BY <1>1, NonBlockedEffect DEF ThreadOK, Control, Returns, Has
<1>4. thread'[t].cmd = None /\ thread'[t].pc = "idle" /\ thread'[t].toResolve = <<>>
  BY NonBlockedEffect DEF Control
<1>5. OwnerOK(t)'
  BY <1>4 DEF OwnerOK, Enqueuing, Early
<1>6. SizeInv'
  BY <1>1, <1>2, ConstantFacts DEF SizeInv, ControlInv
<1>7. (\A d \in Commands \ {c} : status'[d] = status[d]) /\ \A r \in Csrs \ {Csr(c)} : csrOwner'[r] = csrOwner[r]
  <2>1. /\ status' = [status EXCEPT ![c] = "submitted"]
        /\ csrOwner' = [csrOwner EXCEPT ![Csr(c)] = None]
    BY NonBlockedEffect DEF flushTask
  <2> QED
    BY <1>1, <2>1 DEF TypeOK
<1> QED
  BY <1>1, <1>2, <1>3, <1>4, <1>5, <1>6, <1>7, ControlOfOwn, NonBlockedEffect

\* enqueueBlocked stores the tags in the command and releases the ownership.
LEMMA BlockedControl ==
  ASSUME ControlInv, NEW t \in Threads, TypeOK', EnqueueBlocked(t)
  PROVE  ControlInv'
<1> DEFINE s == thread[t]
           c == s.cmd
<1>1. TypeOK /\ ThreadOK(s) /\ OwnerOK(t) /\ c \in Commands /\ s.pc = "block" /\ <<"stack", c>> \in Holders
  BY BlockedEffect, ConstantFacts DEF ControlInv, ThreadInv, At
<1>2. /\ \A h \in Holders \ {<<"stack", c>>, <<"current", c>>, <<"previous", c>>} : nodes'[h] = nodes[h]
      /\ nodes'[<<"stack", c>>] = <<>>
  <2>1. nodes' = [nodes EXCEPT ![<<"current", c>>] = nodes[QueueOf[c]], ![<<"previous", c>>] = nodes[<<"stack", c>>],
                               ![<<"stack", c>>] = <<>>]
    BY BlockedEffect
  <2> QED
    BY <1>1, <2>1 DEF TypeOK
<1>3. ThreadOK(thread'[t])
  BY <1>1, BlockedEffect DEF ThreadOK, Control, Returns, Has
<1>4. thread'[t].cmd = None /\ thread'[t].pc = "idle" /\ thread'[t].toResolve = <<>>
  BY BlockedEffect DEF Control
<1>5. OwnerOK(t)'
  BY <1>4 DEF OwnerOK, Enqueuing, Early
<1>6. SizeInv'
  BY <1>1, <1>2, ConstantFacts DEF SizeInv, ControlInv
<1>7. (\A d \in Commands \ {c} : status'[d] = status[d]) /\ \A r \in Csrs \ {Csr(c)} : csrOwner'[r] = csrOwner[r]
  <2>1. /\ status' = [status EXCEPT ![c] = "blocked"]
        /\ csrOwner' = [csrOwner EXCEPT ![Csr(c)] = None]
    BY BlockedEffect
  <2> QED
    BY <1>1, <2>1 DEF TypeOK
<1>8. \A h \in Holders : h \notin ({"event", "current", "previous", "stack"} \X {c}) => nodes'[h] = nodes[h]
  <2>1. \A k \in {"event", "current", "previous", "stack"} : <<k, c>> \in {"event", "current", "previous", "stack"} \X {c}
    OBVIOUS
  <2> QED
    BY <1>2, <2>1
<1>9. Others(t) /\ UNCHANGED calls
  BY BlockedEffect
<1> QED
  BY <1>1, <1>3, <1>4, <1>5, <1>6, <1>7, <1>8, <1>9, ControlOfOwn

\* The end of submit releases the ownership.
LEMMA SubmittedControl ==
  ASSUME ControlInv, NEW t \in Threads, TypeOK', Submitted(t)
  PROVE  ControlInv'
<1> DEFINE s == thread[t]
           c == s.cmd
<1>1. TypeOK /\ ThreadOK(s) /\ OwnerOK(t) /\ c \in Commands /\ s.pc = "wait"
  BY SubmittedEffect, ConstantFacts DEF ControlInv, ThreadInv, At
<1>3. ThreadOK(thread'[t])
  BY <1>1, SubmittedEffect DEF ThreadOK, Control, Returns, Has
<1>4. thread'[t].cmd = None /\ thread'[t].pc = "idle" /\ thread'[t].toResolve = <<>>
  BY SubmittedEffect DEF Control
<1>5. OwnerOK(t)'
  BY <1>4 DEF OwnerOK, Enqueuing, Early
<1>6. SizeInv'
  BY SubmittedEffect DEF SizeInv, ControlInv
<1>7. \A r \in Csrs \ {Csr(c)} : csrOwner'[r] = csrOwner[r]
  BY <1>1, SubmittedEffect DEF TypeOK
<1> QED
  BY <1>1, <1>3, <1>4, <1>5, <1>6, <1>7, ControlOfOwn, SubmittedEffect

\* An event that is deleted belongs to no call that a thread is in: its containers are
\* only emptied.
LEMMA DropControl ==
  ASSUME ControlInv, NEW t \in Threads, TypeOK', DropEvent(t)
  PROVE  ControlInv'
<1> DEFINE s == thread[t]
           e == Head(s.toDrop)
<1>1. TypeOK /\ ThreadOK(s) /\ OwnerOK(t) /\ e \in Commands /\ s.place = "none" /\ s.toDrop # <<>> /\ s \in ThreadState
  BY DropEventEffect, ConstantFacts DEF ControlInv, ThreadInv, TypeOK
<1>2. \/ nodes' = nodes
      \/ nodes' = [nodes EXCEPT ![<<"previous", e>>] = <<>>, ![<<"current", e>>] = <<>>, ![<<"event", e>>] = <<>>]
  BY DropEventEffect
<1>3. /\ \A q \in Queues : nodes'[q] = nodes[q]
      /\ \A d \in Commands : nodes'[<<"stack", d>>] = nodes[<<"stack", d>>]
      /\ \A d \in Commands : \A k \in {"event", "current", "previous"} : nodes'[<<k, d>>] \in {nodes[<<k, d>>], <<>>}
  <2>1. CASE nodes' = nodes
    BY <2>1
  <2>2. CASE nodes' = [nodes EXCEPT ![<<"previous", e>>] = <<>>, ![<<"current", e>>] = <<>>, ![<<"event", e>>] = <<>>]
    <3>1. \A h \in Holders \ {<<"previous", e>>, <<"current", e>>, <<"event", e>>} : nodes'[h] = nodes[h]
      BY <1>1, <2>2 DEF TypeOK
    <3>2. nodes'[<<"previous", e>>] = <<>> /\ nodes'[<<"current", e>>] = <<>> /\ nodes'[<<"event", e>>] = <<>>
      BY <1>1, <2>2, ConstantFacts DEF TypeOK
    <3>3. \A q \in Queues : nodes'[q] = nodes[q]
      BY <1>1, <3>1, ConstantFacts
    <3>4. \A d \in Commands : nodes'[<<"stack", d>>] = nodes[<<"stack", d>>]
      BY <1>1, <3>1, ConstantFacts
    <3>5. ASSUME NEW d \in Commands, NEW k \in {"event", "current", "previous"}
          PROVE  nodes'[<<k, d>>] \in {nodes[<<k, d>>], <<>>}
      <4>1. <<k, d>> \in Holders
        BY ConstantFacts
      <4> QED
        BY <3>1, <3>2, <4>1
    <3> QED
      BY <3>3, <3>4, <3>5
  <2> QED
    BY <1>2, <2>1, <2>2
<1>4. Others(t) /\ UNCHANGED <<status, csrOwner, calls>> /\ thread'[t].cmd = s.cmd /\ thread'[t].pc = s.pc
      /\ thread'[t].toResolve = s.toResolve /\ thread'[t].place = "none"
      /\ thread'[t].node = s.node /\ thread'[t].detached = s.detached /\ thread'[t].ready = s.ready /\ thread'[t].pending = s.pending
  BY DropEventEffect DEF Control, Has, Returns
<1>5. ThreadOK(thread'[t])
  BY <1>1, <1>4 DEF ThreadOK
<1>6. OwnerOK(t)'
  <2>1. s.pc # "idle" => s.cmd \in Commands /\ QueueOf[s.cmd] \in Queues
    BY OwnCommand, ConstantFacts
  <2>2. s.pc # "idle" => /\ nodes'[QueueOf[s.cmd]] = nodes[QueueOf[s.cmd]]
                         /\ nodes'[<<"stack", s.cmd>>] = nodes[<<"stack", s.cmd>>]
                         /\ nodes'[<<"event", s.cmd>>] \in {nodes[<<"event", s.cmd>>], <<>>}
                         /\ nodes'[<<"current", s.cmd>>] \in {nodes[<<"current", s.cmd>>], <<>>}
                         /\ nodes'[<<"previous", s.cmd>>] \in {nodes[<<"previous", s.cmd>>], <<>>}
    BY <1>3, <2>1
  <2>3. "idle" \notin Enqueuing /\ "idle" \notin Early
    BY DEF Enqueuing, Early
  <2>4. s.toResolve # <<>> => s.pc # "idle"
    BY <1>1 DEF ThreadOK
  <2> QED
    BY <1>1, <1>4, <2>2, <2>3, <2>4 DEF OwnerOK, Csr
<1>7. SizeInv'
  BY <1>3 DEF SizeInv, ControlInv
<1>8. ThreadInv'
  <2>1. \A u \in Threads \ {t} : thread[u].pc # "idle" => thread[u].cmd \in Commands /\ QueueOf[thread[u].cmd] \in Queues
    BY OwnCommand, ConstantFacts
  <2> QED
    BY <1>3, <1>4, <1>5, <1>6, <2>1, OthersKept DEF Others
<1>9. CallInv'
  <2>1. EnqueuedOnce(calls)' /\ \A d \in Commands : Awaited(d)' => Awaited(d) /\ s.cmd # d
    BY <1>4, CallsSame DEF ControlInv, CallInv
  <2> QED
    BY <1>3, <1>4, <2>1, CallsKept DEF Others
<1> QED
  BY <1>7, <1>8, <1>9 DEF ControlInv

\* enqueueHandler takes the ownership and the tags of the queue.
LEMMA KernelControl ==
  ASSUME ControlInv, NEW t \in Threads, NEW c \in Commands, TypeOK', EnqueueKernel(t, c)
  PROVE  ControlInv'
<1> DEFINE q == QueueOf[c]
<1>1. TypeOK /\ EnqueuedOnce(calls) /\ q \in Queues /\ q \in Holders /\ <<"stack", c>> \in Holders /\ q # <<"stack", c>> /\ Csr(c) \in Csrs
  BY ConstantFacts DEF ControlInv, CallInv
<1>2. Awaited(c) /\ ~Awaited(c)' /\ EnqueuedOnce(calls)' /\ \A d : Awaited(d)' => Awaited(d)
  BY <1>1, CallsShrink, EnqueueKernelEffect
<1>3. /\ status[c] = "new" /\ \A k \in {"event", "current", "previous", "stack"} : nodes[<<k, c>>] = <<>>
      /\ \A u \in Threads : thread[u].cmd # c
  BY <1>2 DEF ControlInv, CallInv
<1>4. /\ \A h \in Holders \ {<<"stack", c>>, q} : nodes'[h] = nodes[h]
      /\ nodes'[<<"stack", c>>] = nodes[q] /\ nodes'[q] = <<>>
  BY <1>1, EnqueueKernelEffect DEF TypeOK
<1>5. ThreadOK(thread'[t])
  <2>1. /\ Control(t, "resolve", c, nodes[QueueOf[c]], isQueueBlocked(QueueOf[c]))
        /\ Returns(t, <<>>, "none") /\ Has(t, None, <<>>, <<>>, <<>>)
    BY EnqueueKernelEffect
  <2>2. c # None
    BY ConstantFacts
  <2> QED
    BY <2>1, <2>2 DEF ThreadOK, Control, Returns, Has
<1>6. thread'[t].pc = "resolve" /\ thread'[t].cmd = c /\ thread'[t].toResolve = nodes[q] /\ Others(t) /\ UNCHANGED status
  BY EnqueueKernelEffect DEF Control
<1>7. csrOwner[Csr(c)] = None /\ csrOwner'[Csr(c)] = t /\ \A r \in Csrs \ {Csr(c)} : csrOwner'[r] = csrOwner[r]
  BY <1>1, EnqueueKernelEffect DEF TypeOK
<1>8. OwnerOK(t)'
  <2>1. nodes'[<<"current", c>>] = <<>> /\ nodes'[<<"previous", c>>] = <<>> /\ nodes'[<<"event", c>>] = <<>>
    BY <1>3, <1>4, ConstantFacts
  <2> QED
    BY <1>3, <1>4, <1>6, <1>7, <2>1 DEF OwnerOK, Csr, Enqueuing, Early
<1>9. SizeInv'
  <2>1. \A x \in Queues : Len(nodes[x]) <= 1
    BY DEF ControlInv, SizeInv
  <2>2. \A x \in Queues : Len(nodes'[x]) <= 1
    BY <1>1, <1>4, <2>1, ConstantFacts
  <2>3. \A d \in Commands : Len(nodes'[<<"stack", d>>]) <= 1
    BY <1>1, <1>4, <2>1, ConstantFacts DEF ControlInv, SizeInv
  <2> QED
    BY <2>2, <2>3 DEF SizeInv
<1>10. \A d \in Commands \ {c} : \A k \in {"event", "current", "previous", "stack"} : nodes'[<<k, d>>] = nodes[<<k, d>>]
  BY <1>1, <1>4, ConstantFacts
<1>11. \A u \in Threads \ {t} : thread[u].pc # "idle" =>
            /\ csrOwner'[Csr(thread[u].cmd)] = csrOwner[Csr(thread[u].cmd)]
            /\ nodes'[QueueOf[thread[u].cmd]] = nodes[QueueOf[thread[u].cmd]]
  <2>1. \A u \in Threads \ {t} : thread[u].pc # "idle" =>
            thread[u].cmd \in Commands /\ Csr(thread[u].cmd) # Csr(c) /\ QueueOf[thread[u].cmd] # q
    BY <1>7, OtherThreads
  <2> QED
    BY <1>4, <1>7, <2>1, ConstantFacts
<1> QED
  BY <1>2, <1>3, <1>5, <1>6, <1>8, <1>9, <1>10, <1>11, ControlOfCommand

\* A marker is new when it is enqueued.
LEMMA MarkerIsNew ==
  ASSUME ControlInv, NEW t \in Threads, NEW c \in Commands, EnqueueMarker(t, c) \/ EnqueueBlockedMarker(t, c)
  PROVE  status[c] = "new" /\ nodes[<<"event", c>>] = <<>>
<1>1. TypeOK /\ EnqueuedOnce(calls)
  BY DEF ControlInv, CallInv
<1>2. Head(calls[t]) = <<"enqueue", c>> /\ calls[t] # <<>> /\ calls' = [calls EXCEPT ![t] = Tail(@)]
  BY EnqueueMarkerEffect
<1>3. Awaited(c)
  BY <1>1, <1>2, CallsShrink
<1> QED
  BY <1>3 DEF ControlInv, CallInv

\* A marker inherits tags and takes none.
LEMMA MarkerControl ==
  ASSUME ControlInv, NEW t \in Threads, NEW c \in Commands, TypeOK',
         EnqueueMarker(t, c) \/ EnqueueBlockedMarker(t, c)
  PROVE  ControlInv'
<1>1. TypeOK /\ EnqueuedOnce(calls)
  BY ConstantFacts DEF ControlInv, CallInv
<1>2. Awaited(c) /\ ~Awaited(c)' /\ EnqueuedOnce(calls)' /\ \A d : Awaited(d)' => Awaited(d)
  BY <1>1, CallsShrink, EnqueueMarkerEffect
<1>3. \A u \in Threads : thread[u].cmd # c
  BY <1>2 DEF ControlInv, CallInv
<1>4. \A h \in Holders \ {<<"event", c>>} : nodes'[h] = nodes[h]
  <2>1. UNCHANGED nodes \/ nodes' = [nodes EXCEPT ![<<"event", c>>] = nodes[QueueOf[c]] \o EventNodes(WaitList[c])]
    BY EnqueueMarkerEffect
  <2> QED
    BY <1>1, <2>1 DEF TypeOK
<1>5. ThreadOK(thread'[t])
  BY EnqueueMarkerEffect, ConstantFacts DEF ThreadOK, Control, Returns, Has
<1>6. thread'[t].pc = "idle" /\ thread'[t].cmd = None /\ thread'[t].toResolve = <<>> /\ Others(t) /\ UNCHANGED csrOwner
  BY EnqueueMarkerEffect DEF Control
<1>8. OwnerOK(t)'
  BY <1>6 DEF OwnerOK, Enqueuing, Early
<1>9. SizeInv'
  BY <1>4, ConstantFacts DEF ControlInv, SizeInv
<1>10. \A d \in Commands \ {c} : status'[d] = status[d] /\ \A k \in {"event", "current", "previous", "stack"} : nodes'[<<k, d>>] = nodes[<<k, d>>]
  <2>1. \E v : status' = [status EXCEPT ![c] = v]
    BY EnqueueMarkerEffect
  <2>2. \A d \in Commands \ {c} : status'[d] = status[d]
    BY <1>1, <2>1 DEF TypeOK
  <2>3. \A d \in Commands \ {c} : \A k \in {"event", "current", "previous", "stack"} : nodes'[<<k, d>>] = nodes[<<k, d>>]
    BY <1>4, ConstantFacts
  <2> QED
    BY <2>2, <2>3
<1>11. \A u \in Threads \ {t} : thread[u].pc # "idle" => nodes'[QueueOf[thread[u].cmd]] = nodes[QueueOf[thread[u].cmd]]
  BY <1>4, OwnCommand, ConstantFacts
<1>12. \A d \in Commands : thread'[t].cmd # d
  BY <1>6, ConstantFacts
<1> QED
  BY <1>2, <1>3, <1>5, <1>6, <1>8, <1>9, <1>10, <1>11, <1>12, ControlOfCommand

\* A blocked command whose receiver has no owner belongs to no thread.
LEMMA BlockedNotAwaited ==
  ASSUME ControlInv, NEW t \in Threads, NEW c \in Commands, status[c] = "blocked", csrOwner[Csr(c)] = None
  PROVE  ~Awaited(c) /\ \A u \in Threads : thread[u].cmd # c
<1>1. ~Awaited(c)
  BY DEF ControlInv, CallInv
<1>2. ASSUME NEW u \in Threads, thread[u].cmd = c PROVE FALSE
  <2>1. thread[u].pc # "idle"
    BY <1>2, ConstantFacts DEF ControlInv, ThreadInv, ThreadOK
  <2>2. csrOwner[Csr(c)] = u
    BY <1>2, <2>1 DEF ControlInv, ThreadInv, OwnerOK
  <2> QED
    BY <2>2, ConstantFacts
<1> QED
  BY <1>1, <1>2

\* submit takes the ownership for a blocked command.
LEMMA SubmitControl ==
  ASSUME ControlInv, NEW t \in Threads, NEW c \in Commands, TypeOK', Submit(t, c)
  PROVE  ControlInv'
<1>1. TypeOK /\ EnqueuedOnce(calls) /\ Csr(c) \in Csrs
  BY ConstantFacts DEF ControlInv, CallInv
<1>2. EnqueuedOnce(calls)' /\ \A d : Awaited(d)' => Awaited(d)
  BY <1>1, CallsShrink, SubmitEffect
<1>3. ~Awaited(c) /\ \A u \in Threads : thread[u].cmd # c
  BY SubmitEffect, BlockedNotAwaited
<1>5. ThreadOK(thread'[t])
  BY SubmitEffect, ConstantFacts DEF ThreadOK, Control, Returns, Has
<1>6. thread'[t].pc = "wait" /\ thread'[t].cmd = c /\ thread'[t].toResolve = <<>> /\ Others(t) /\ UNCHANGED nodes
  BY SubmitEffect DEF Control
<1>7. csrOwner[Csr(c)] = None /\ csrOwner'[Csr(c)] = t /\ \A r \in Csrs \ {Csr(c)} : csrOwner'[r] = csrOwner[r]
  BY <1>1, SubmitEffect DEF TypeOK
<1>8. OwnerOK(t)'
  BY <1>6, <1>7 DEF OwnerOK, Csr, Enqueuing, Early
<1>9. SizeInv'
  BY <1>6 DEF ControlInv, SizeInv
<1>10. \A d \in Commands \ {c} : status'[d] = status[d]
  BY <1>1, SubmitEffect DEF TypeOK, flushTask
<1>11. \A u \in Threads \ {t} : thread[u].pc # "idle" => csrOwner'[Csr(thread[u].cmd)] = csrOwner[Csr(thread[u].cmd)]
  <2>1. \A u \in Threads \ {t} : thread[u].pc # "idle" => thread[u].cmd \in Commands /\ Csr(thread[u].cmd) # Csr(c)
    BY <1>7, OtherThreads
  <2> QED
    BY <1>7, <2>1, ConstantFacts
<1> QED
  BY <1>2, <1>3, <1>5, <1>6, <1>8, <1>9, <1>10, <1>11, ControlOfCommand

\* submit takes the ownership for a blocked marker.
LEMMA SubmitMarkerControl ==
  ASSUME ControlInv, NEW t \in Threads, NEW c \in Commands, TypeOK', SubmitMarker(t, c)
  PROVE  ControlInv'
<1>1. TypeOK /\ EnqueuedOnce(calls) /\ Csr(c) \in Csrs
  BY ConstantFacts DEF ControlInv, CallInv
<1>2. EnqueuedOnce(calls)' /\ \A d : Awaited(d)' => Awaited(d)
  BY <1>1, CallsShrink, SubmitMarkerEffect
<1>3. ~Awaited(c) /\ \A u \in Threads : thread[u].cmd # c
  BY SubmitMarkerEffect, BlockedNotAwaited
<1>5. ThreadOK(thread'[t])
  BY SubmitMarkerEffect, ConstantFacts DEF ThreadOK, Control, Returns, Has
<1>6. thread'[t].pc = "wait" /\ thread'[t].cmd = c /\ thread'[t].toResolve = <<>> /\ Others(t) /\ UNCHANGED nodes
  BY SubmitMarkerEffect DEF Control
<1>7. csrOwner[Csr(c)] = None /\ csrOwner'[Csr(c)] = t /\ \A r \in Csrs \ {Csr(c)} : csrOwner'[r] = csrOwner[r]
  BY <1>1, SubmitMarkerEffect DEF TypeOK
<1>8. OwnerOK(t)'
  BY <1>6, <1>7 DEF OwnerOK, Csr, Enqueuing, Early
<1>9. SizeInv'
  BY <1>6 DEF ControlInv, SizeInv
<1>10. \A d \in Commands \ {c} : status'[d] = status[d]
  BY <1>1, SubmitMarkerEffect DEF TypeOK
<1>11. \A u \in Threads \ {t} : thread[u].pc # "idle" => csrOwner'[Csr(thread[u].cmd)] = csrOwner[Csr(thread[u].cmd)]
  <2>1. \A u \in Threads \ {t} : thread[u].pc # "idle" => thread[u].cmd \in Commands /\ Csr(thread[u].cmd) # Csr(c)
    BY <1>7, OtherThreads
  <2> QED
    BY <1>7, <2>1, ConstantFacts
<1> QED
  BY <1>2, <1>3, <1>5, <1>6, <1>8, <1>9, <1>10, <1>11, ControlOfCommand

\* A blocked command is terminated.
LEMMA AbortControl ==
  ASSUME ControlInv, NEW t \in Threads, NEW c \in Commands, TypeOK', Abort(t, c)
  PROVE  ControlInv'
<1>1. TypeOK /\ EnqueuedOnce(calls)
  BY DEF ControlInv, CallInv
<1>2. EnqueuedOnce(calls)' /\ \A d : Awaited(d)' => Awaited(d)
  BY <1>1, CallsShrink, AbortEffect
<1>3. ~Awaited(c) /\ \A u \in Threads : thread[u].cmd # c
  BY AbortEffect, BlockedNotAwaited
<1>5. ThreadOK(thread'[t])
  BY AbortEffect, ConstantFacts DEF ThreadOK, Control, Returns, Has
<1>6. thread'[t].pc = "idle" /\ thread'[t].cmd = None /\ thread'[t].toResolve = <<>> /\ Others(t) /\ UNCHANGED <<nodes, csrOwner>>
  BY AbortEffect DEF Control
<1>8. OwnerOK(t)'
  BY <1>6 DEF OwnerOK, Enqueuing, Early
<1>9. SizeInv'
  BY <1>6 DEF ControlInv, SizeInv
<1>10. \A d \in Commands \ {c} : status'[d] = status[d]
  <2>1. status' = [status EXCEPT ![c] = "aborted"]
    BY AbortEffect
  <2> QED
    BY <1>1, <2>1 DEF TypeOK
<1>12. \A d \in Commands : thread'[t].cmd # d
  BY <1>6, ConstantFacts
<1> QED
  BY <1>2, <1>3, <1>5, <1>6, <1>8, <1>9, <1>10, <1>12, ControlOfCommand

\* The application releases an event.
LEMMA ReleaseEventControl ==
  ASSUME ControlInv, NEW t \in Threads, NEW c \in Commands, TypeOK', ReleaseEvent(t, c)
  PROVE  ControlInv'
<1>1. TypeOK /\ EnqueuedOnce(calls)
  BY DEF ControlInv, CallInv
<1>2. EnqueuedOnce(calls)' /\ \A d : Awaited(d)' => Awaited(d)
  BY <1>1, CallsShrink, ReleaseEventEffect
<1>5. ThreadOK(thread'[t])
  BY ReleaseEventEffect, ConstantFacts DEF ThreadOK, Control, Returns, Has
<1>6. thread'[t].pc = "idle" /\ thread'[t].cmd = None /\ thread'[t].toResolve = <<>> /\ Others(t) /\ UNCHANGED <<nodes, status, csrOwner>>
  BY ReleaseEventEffect DEF Control
<1>8. OwnerOK(t)'
  BY <1>6 DEF OwnerOK, Enqueuing, Early
<1>9. SizeInv'
  BY <1>6 DEF ControlInv, SizeInv
<1>10. ThreadInv'
  BY <1>5, <1>6, <1>8, OthersKept DEF Others
<1>11. CallInv'
  <2>1. \A d \in Commands : thread'[t].cmd # d
    BY <1>6, ConstantFacts
  <2> QED
    BY <1>2, <1>6, <2>1, CallsKept DEF Others
<1> QED
  BY <1>9, <1>10, <1>11 DEF ControlInv

\* The destructor of a queue returns its tags; no thread is in a call on the queue.
LEMMA ReleaseQueueControl ==
  ASSUME ControlInv, NEW t \in Threads, NEW q \in Queues, TypeOK', ReleaseQueue(t, q)
  PROVE  ControlInv'
<1>1. TypeOK /\ EnqueuedOnce(calls) /\ q \in Holders
  BY ConstantFacts DEF ControlInv, CallInv
<1>2. EnqueuedOnce(calls)' /\ \A d : Awaited(d)' => Awaited(d)
  BY <1>1, CallsShrink, ReleaseQueueEffect
<1>3. (\A h \in Holders \ {q} : nodes'[h] = nodes[h]) /\ nodes'[q] = <<>>
  BY <1>1, ReleaseQueueEffect DEF TypeOK
<1>5. ThreadOK(thread'[t])
  BY ReleaseQueueEffect, ConstantFacts DEF ThreadOK, Control, Returns, Has
<1>6. thread'[t].pc = "idle" /\ thread'[t].cmd = None /\ thread'[t].toResolve = <<>> /\ Others(t) /\ UNCHANGED <<status, csrOwner>>
  BY ReleaseQueueEffect DEF Control
<1>8. OwnerOK(t)'
  BY <1>6 DEF OwnerOK, Enqueuing, Early
<1>9. SizeInv'
  BY <1>3, ConstantFacts DEF ControlInv, SizeInv
<1>4. \A d \in Commands : \A k \in {"event", "current", "previous", "stack"} : nodes'[<<k, d>>] = nodes[<<k, d>>]
  BY <1>1, <1>3, ConstantFacts
<1>10. ThreadInv'
  <2>1. \A u \in Threads \ {t} : thread[u].pc # "idle" =>
          thread[u].cmd \in Commands /\ nodes'[QueueOf[thread[u].cmd]] = nodes[QueueOf[thread[u].cmd]]
    BY <1>3, OwnCommand, ConstantFacts, ReleaseQueueEffect
  <2> QED
    BY <1>4, <1>5, <1>6, <1>8, <2>1, OthersKept DEF Others
<1>11. CallInv'
  <2>1. \A d \in Commands : thread'[t].cmd # d
    BY <1>6, ConstantFacts
  <2> QED
    BY <1>2, <1>4, <1>6, <2>1, CallsKept DEF Others
<1> QED
  BY <1>9, <1>10, <1>11 DEF ControlInv

\* The GPU completes commands that have been submitted.
LEMMA GpuControl ==
  ASSUME ControlInv, ByInv, NEW r \in Csrs, TypeOK', Gpu(r)
  PROVE  ControlInv'
<1>1. UNCHANGED <<nodes, calls, thread, csrOwner>>
  BY DEF Gpu
<1>2. TypeOK /\ stream[r] \in Seq(Instructions) /\ stream[r] # <<>>
  BY DEF Gpu, TypeOK, ControlInv
<1>3. status[Head(stream[r]).by] \in {"submitted", "executed"}
  <2>1. Head(stream[r]) = stream[r][1] /\ 1 \in 1..Len(stream[r])
    BY <1>2, HeadTailProperties, EmptySeq
  <2> QED
    BY <2>1 DEF ByInv
<1>4. \A c \in Commands : status[c] = "new" => status'[c] = "new"
  BY <1>2, <1>3 DEF Gpu, TypeOK
<1>5. \A t \in Threads : thread[t].pc \in Enqueuing => thread[t].cmd \in Commands
  BY Fields DEF ControlInv, TypeOK, ThreadInv, ThreadOK, Enqueuing, Early
<1>6. ThreadInv'
  <2> SUFFICES ASSUME NEW t \in Threads PROVE ThreadOK(thread[t]) /\ OwnerOK(t)'
    BY <1>1 DEF ThreadInv
  <2>1. ThreadOK(thread[t]) /\ OwnerOK(t)
    BY DEF ControlInv, ThreadInv
  <2> QED
    BY <1>1, <1>4, <1>5, <2>1 DEF OwnerOK, Csr
<1>7. CallInv'
  <2>1. EnqueuedOnce(calls)' /\ \A c \in Commands : Awaited(c)' <=> Awaited(c)
    BY <1>1, CallsSame DEF ControlInv, CallInv
  <2> QED
    BY <1>1, <1>4, <2>1 DEF ControlInv, CallInv
<1>8. SizeInv'
  BY <1>1 DEF ControlInv, SizeInv
<1> QED
  BY <1>6, <1>7, <1>8 DEF ControlInv

\* Every step keeps the control invariant.
LEMMA ControlStep ==
  ASSUME ControlInv, ByInv, [Next]_vars
  PROVE  ControlInv'
<1>1. ASSUME NEW t \in Threads, Allocator(t) PROVE ControlInv'
  BY <1>1, AllocatorTypes, QuietControl, UseTagControl DEF Allocator
<1>2. ASSUME NEW t \in Threads, Enqueue(t) PROVE ControlInv'
  BY <1>2, EnqueueTypes, QuietControl, ResolveControl, DispatchControl, NonBlockedControl, BlockedControl,
     SubmittedControl, DropControl DEF Enqueue
<1>3. ASSUME NEW t \in Threads, Begin(t) PROVE ControlInv'
  BY <1>3, BeginTypes, KernelControl, MarkerControl, SubmitControl, SubmitMarkerControl, AbortControl,
     ReleaseEventControl, ReleaseQueueControl DEF Begin
<1>4. ASSUME NEW r \in Csrs, Gpu(r) PROVE ControlInv'
  BY <1>4, GpuTypes, GpuControl DEF ControlInv
<1>5. ASSUME UNCHANGED vars PROVE ControlInv'
  <2>1. UNCHANGED <<freeTags, usedTags, deferredTags, populated, refCount, packet, tagOf, nodes, stream, dispatched,
                    status, virtualEvent, csrOwner, calls, thread>>
    BY <1>5 DEF vars, tagVars, cmdVars
  <2>2. TypeOK'
    BY <2>1 DEF ControlInv, TypeOK
  <2>3. CallInv'
    <3>1. EnqueuedOnce(calls)' /\ \A c \in Commands : Awaited(c)' <=> Awaited(c)
      BY <2>1, CallsSame DEF ControlInv, CallInv
    <3> QED
      BY <2>1, <3>1 DEF ControlInv, CallInv
  <2>4. ThreadInv' /\ SizeInv'
    BY <2>1 DEF ControlInv, ThreadInv, SizeInv, OwnerOK, ThreadOK, Csr
  <2> QED
    BY <2>2, <2>3, <2>4 DEF ControlInv
<1> QED
  BY <1>1, <1>2, <1>3, <1>4, <1>5 DEF Next, Step, GpuPoll, Done

-----------------------------------------------------------------------------
(* The streams *)

\* The invariant of the streams.
StreamInv == PairInv /\ ByInv

\* The fields of an instruction in a stream.
LEMMA InstructionFields ==
  ASSUME NEW s \in Seq(Instructions), NEW i \in 1..Len(s)
  PROVE  /\ s[i] \in Instructions /\ s[i].by \in Commands /\ s[i].tag \in Tags
         /\ s[i].op \in {"wait", "decrement", "write"} /\ s[i].for \in Commands \cup {None}
<1>1. s[i] \in Instructions
  BY LenProperties
<1> QED
  BY <1>1 DEF Instructions

\* A step that writes no instruction and does not take a submission back.
LEMMA StreamKept ==
  ASSUME StreamInv, UNCHANGED <<stream, dispatched>>, TypeOK,
         \A c \in Commands : status[c] \in {"submitted", "executed"} => status'[c] \in {"submitted", "executed"}
  PROVE  StreamInv'
<1>1. \A r \in Csrs : stream[r] \in Seq(Instructions) /\ \A i \in 1..Len(stream[r]) : stream[r][i].by \in Commands
  <2>1. \A r \in Csrs : stream[r] \in Seq(Instructions)
    BY DEF TypeOK
  <2> QED
    BY <2>1, InstructionFields
<1>2. PairInv'
  BY DEF StreamInv, PairInv
<1>3. ByInv'
  BY <1>1 DEF StreamInv, ByInv
<1> QED
  BY <1>2, <1>3 DEF StreamInv

\* The command is appended to the stream of its receiver.
LEMMA FlushStream ==
  ASSUME StreamInv, TypeOK, NEW c \in Commands, flushTask(c), UNCHANGED dispatched
  PROVE  StreamInv'
<1> DEFINE r == Csr(c)
           d == programCsrDependencies(c, OutOfCsr(c))
           old == stream[r]
           own == dispatched[c]
<1>0. OutOfCsr(c) \in Seq(Tags) /\ r \in Csrs
  BY WaitsType, ConstantFacts
<1>1. d \in Seq(Instructions) /\ Paired(d) /\ \A k \in 1..Len(d) : d[k].by = c
  BY <1>0, DependenciesType
<1>2. old \in Seq(Instructions) /\ Paired(old) /\ own \in Seq(Instructions) /\ Paired(own)
      /\ \A k \in 1..Len(own) : own[k].by = c
  BY <1>0 DEF StreamInv, PairInv, ByInv, TypeOK
<1>3. stream' = [stream EXCEPT ![r] = old \o d \o own] /\ status' = [status EXCEPT ![c] = "submitted"]
  BY DEF flushTask
<1>4. status' \in [Commands -> Statuses] /\ status'[c] = "submitted" /\ \A w \in Commands \ {c} : status'[w] = status[w]
  BY <1>3 DEF TypeOK, Statuses
<1> HIDE DEF d
<1>5. old \o d \in Seq(Instructions) /\ Paired(old \o d)
  BY <1>1, <1>2, PairedConcat
<1>6. old \o d \o own \in Seq(Instructions) /\ Paired(old \o d \o own)
  BY <1>2, <1>5, PairedConcat
<1>7. stream'[r] = old \o d \o own /\ \A x \in Csrs \ {r} : stream'[x] = stream[x]
  BY <1>0, <1>3 DEF TypeOK
<1>8. PairInv'
  BY <1>6, <1>7 DEF PairInv, StreamInv
<1>9. \A x \in Csrs : \A i \in 1..Len(stream[x]) :
         stream[x][i].by \in Commands /\ status'[stream[x][i].by] \in {"submitted", "executed"}
  <2>1. \A x \in Csrs : stream[x] \in Seq(Instructions) /\ \A i \in 1..Len(stream[x]) : stream[x][i].by \in Commands
    <3>1. \A x \in Csrs : stream[x] \in Seq(Instructions)
      BY DEF TypeOK
    <3> QED
      BY <3>1, InstructionFields
  <2> QED
    BY <1>4, <2>1 DEF StreamInv, ByInv
<1>10. ASSUME NEW i \in 1..Len(old \o d \o own)
       PROVE  status'[(old \o d \o own)[i].by] \in {"submitted", "executed"}
  <2>1. /\ Len(old) \in Nat /\ Len(d) \in Nat /\ Len(own) \in Nat /\ Len(old \o d) = Len(old) + Len(d)
        /\ Len(old \o d \o own) = Len(old) + Len(d) + Len(own)
    BY <1>1, <1>2, <1>5, ConcatProperties, LenProperties
  <2>2. CASE i <= Len(old)
    <3>1. (old \o d \o own)[i] = old[i] /\ i \in 1..Len(old)
      BY <1>1, <1>2, <1>5, <2>1, <2>2, ConcatProperties
    <3> QED
      BY <1>0, <1>9, <3>1
  <2>3. CASE i > Len(old) /\ i <= Len(old) + Len(d)
    <3>1. (old \o d \o own)[i] = d[i - Len(old)] /\ i - Len(old) \in 1..Len(d)
      BY <1>1, <1>2, <1>5, <2>1, <2>3, ConcatProperties
    <3> QED
      BY <1>1, <1>4, <3>1
  <2>4. CASE i > Len(old) + Len(d)
    <3> DEFINE j == i - (Len(old) + Len(d))
    <3>1. j \in 1..Len(own) /\ i > Len(old \o d)
      <4>1. i \in 1 .. Len(old) + Len(d) + Len(own)
        BY <2>1
      <4> DEFINE a == Len(old)
                 b == Len(d)
                 e == Len(own)
      <4>2. a \in Nat /\ b \in Nat /\ e \in Nat /\ i > a + b /\ i \in 1 .. a + b + e
        BY <2>1, <2>4, <4>1
      <4> HIDE DEF a, b, e
      <4>3. i - (a + b) \in 1..e
        BY <4>2
      <4> QED
        BY <2>1, <2>4, <4>3 DEF a, b, e
    <3>2. (old \o d \o own)[i] = own[j]
      BY <1>2, <1>5, <2>1, <3>1, ConcatProperties
    <3> QED
      BY <1>2, <1>4, <3>1, <3>2
  <2> QED
    BY <2>1, <2>2, <2>3, <2>4
<1>11. ByInv'
  BY <1>7, <1>9, <1>10 DEF ByInv, StreamInv
<1> QED
  BY <1>8, <1>11 DEF StreamInv

\* processDispatchForKernels writes semaphores, decrements and the write of one command.
LEMMA DispatchStream ==
  ASSUME StreamInv, ControlInv, NEW t \in Threads, Dispatch(t)
  PROVE  StreamInv'
<1>0. PICK c \in Commands : c = thread[t].cmd
  BY DispatchEffect
<1> DEFINE own == nodes[QueueOf[c]]
           waits == OnCsr(c) \o nodes[<<"stack", c>>]
           d == programCsrDependencies(c, waits)
           w == setupTimestampPacket(c, own)
<1>1. TypeOK /\ own \in Seq(Tags) /\ waits \in Seq(Tags)
  <2>1. TypeOK /\ nodes[<<"stack", c>>] \in Seq(Tags) /\ own \in Seq(Tags)
    BY ConstantFacts DEF ControlInv, TypeOK
  <2> QED
    BY <2>1, WaitsType, ConcatProperties
<1>2. dispatched' = [dispatched EXCEPT ![c] = d \o w] /\ UNCHANGED <<stream, status>>
  BY <1>0, DispatchEffect
<1> HIDE DEF own, waits
<1>3. d \in Seq(Instructions) /\ Paired(d) /\ \A k \in 1..Len(d) : d[k].by = c
  BY <1>1, DependenciesType
<1>4. w \in Seq(Instructions) /\ Paired(w) /\ \A k \in 1..Len(w) : w[k].by = c
  BY <1>1, WritesType
<1> HIDE DEF d, w
<1>5. d \o w \in Seq(Instructions) /\ Paired(d \o w)
  BY <1>3, <1>4, PairedConcat
<1>6. ASSUME NEW i \in 1..Len(d \o w) PROVE (d \o w)[i].by = c
  <2>1. Len(d) \in Nat /\ Len(w) \in Nat /\ Len(d \o w) = Len(d) + Len(w)
    BY <1>3, <1>4, ConcatProperties, LenProperties
  <2>2. CASE i <= Len(d)
    BY <1>3, <1>4, <2>1, <2>2, ConcatProperties
  <2>3. CASE i > Len(d)
    <3>1. (d \o w)[i] = w[i - Len(d)] /\ i - Len(d) \in 1..Len(w)
      BY <1>3, <1>4, <2>1, <2>3, ConcatProperties
    <3> QED
      BY <1>4, <3>1
  <2> QED
    BY <2>1, <2>2, <2>3
<1>7. dispatched'[c] = d \o w /\ \A x \in Commands \ {c} : dispatched'[x] = dispatched[x]
  BY <1>1, <1>2 DEF TypeOK
<1>8. PairInv'
  BY <1>2, <1>5, <1>7 DEF PairInv, StreamInv
<1>9. ByInv'
  BY <1>2, <1>6, <1>7 DEF ByInv, StreamInv
<1> QED
  BY <1>8, <1>9 DEF StreamInv

\* The GPU executes the first instruction of a stream.
LEMMA GpuStream ==
  ASSUME StreamInv, TypeOK, NEW r \in Csrs, Gpu(r)
  PROVE  StreamInv'
<1>1. stream[r] \in Seq(Instructions) /\ stream[r] # <<>> /\ Paired(stream[r])
  BY DEF Gpu, TypeOK, StreamInv, PairInv
<1>2. stream'[r] = Tail(stream[r]) /\ (\A x \in Csrs \ {r} : stream'[x] = stream[x]) /\ UNCHANGED dispatched
  BY DEF Gpu, TypeOK
<1>3. PairInv'
  BY <1>1, <1>2, PairedTail DEF PairInv, StreamInv
<1>4. \A c \in Commands : status[c] \in {"submitted", "executed"} => status'[c] \in {"submitted", "executed"}
  BY DEF Gpu, TypeOK
<1>5. \A x \in Csrs : \A i \in 1..Len(stream[x]) : status'[stream[x][i].by] \in {"submitted", "executed"}
  <2>1. \A x \in Csrs : stream[x] \in Seq(Instructions) /\ \A i \in 1..Len(stream[x]) : stream[x][i].by \in Commands
    <3>1. \A x \in Csrs : stream[x] \in Seq(Instructions)
      BY DEF TypeOK
    <3> QED
      BY <3>1, InstructionFields
  <2> QED
    BY <1>4, <2>1 DEF StreamInv, ByInv
<1>6. \A i \in 1..Len(Tail(stream[r])) : i + 1 \in 1..Len(stream[r]) /\ Tail(stream[r])[i] = stream[r][i + 1]
  BY <1>1, HeadTailProperties, LenProperties
<1>7. ByInv'
  <2>1. \A i \in 1..Len(stream'[r]) : status'[stream'[r][i].by] \in {"submitted", "executed"}
    BY <1>2, <1>5, <1>6
  <2>2. \A x \in Csrs : \A i \in 1..Len(stream'[x]) : status'[stream'[x][i].by] \in {"submitted", "executed"}
    BY <1>2, <1>5, <2>1
  <2> QED
    BY <1>2, <2>2 DEF ByInv, StreamInv
<1> QED
  BY <1>3, <1>7 DEF StreamInv

\* Every step keeps the streams well formed.
LEMMA StreamStep ==
  ASSUME ControlInv, StreamInv, [Next]_vars
  PROVE  StreamInv'
<1>0. TypeOK
  BY DEF ControlInv
<1>1. ASSUME NEW t \in Threads, Allocator(t) PROVE StreamInv'
  <2>1. UNCHANGED <<stream, dispatched, status>>
    BY <1>1 DEF Allocator, returnTag, returnTagToFreePool, returnTagToDeferredPool, GetTag, DetachDeferred, SortDeferred,
       SpliceReady, SplicePending, RemoveFree, populateFreeTags, UseTag, notLists, cmdVars
  <2> QED
    BY <1>0, <2>1, StreamKept
<1>2. ASSUME NEW t \in Threads, Enqueue(t) PROVE StreamInv'
  <2>1. CASE ResolveDependency(t) \/ DependenciesResolved(t) \/ Submitted(t) \/ DropEvent(t)
    <3>1. UNCHANGED <<stream, dispatched, status>>
      BY <2>1 DEF ResolveDependency, DependenciesResolved, Submitted, DropEvent, cmdVars
    <3> QED
      BY <1>0, <3>1, StreamKept
  <2>2. CASE Dispatch(t)
    BY <2>2, DispatchStream
  <2>3. CASE EnqueueNonBlocked(t)
    BY <1>0, <2>3, NonBlockedEffect, FlushStream
  <2>4. CASE EnqueueBlocked(t)
    <3>1. thread[t].cmd \in Commands /\ thread[t].pc = "block" /\ status' = [status EXCEPT ![thread[t].cmd] = "blocked"]
          /\ UNCHANGED <<stream, dispatched>>
      BY <2>4, BlockedEffect DEF At
    <3>2. status[thread[t].cmd] = "new"
      BY <3>1 DEF ControlInv, ThreadInv, OwnerOK, Enqueuing
    <3> QED
      BY <1>0, <3>1, <3>2, StreamKept DEF TypeOK
  <2> QED
    BY <1>2, <2>1, <2>2, <2>3, <2>4 DEF Enqueue
<1>3. ASSUME NEW t \in Threads, Begin(t) PROVE StreamInv'
  <2>1. ASSUME NEW c \in Commands, EnqueueKernel(t, c) PROVE StreamInv'
    BY <1>0, <2>1, EnqueueKernelEffect, StreamKept
  <2>2. ASSUME NEW c \in Commands, EnqueueMarker(t, c) \/ EnqueueBlockedMarker(t, c) PROVE StreamInv'
    <3>1. status[c] = "new"
      BY <2>2, MarkerIsNew
    <3>2. PICK v : status' = [status EXCEPT ![c] = v] /\ UNCHANGED <<stream, dispatched>>
      BY <2>2, EnqueueMarkerEffect
    <3> QED
      BY <1>0, <3>1, <3>2, StreamKept DEF TypeOK
  <2>3. ASSUME NEW c \in Commands, Submit(t, c) PROVE StreamInv'
    BY <1>0, <2>3, SubmitEffect, FlushStream
  <2>4. ASSUME NEW c \in Commands, Abort(t, c) PROVE StreamInv'
    <3>1. status[c] = "blocked" /\ status' = [status EXCEPT ![c] = "aborted"] /\ UNCHANGED <<stream, dispatched>>
      BY <2>4, AbortEffect
    <3> QED
      BY <1>0, <3>1, StreamKept DEF TypeOK
  <2>7. ASSUME NEW c \in Commands, SubmitMarker(t, c) PROVE StreamInv'
    <3>1. status[c] = "blocked" /\ status' = [status EXCEPT ![c] = "marked"] /\ UNCHANGED <<stream, dispatched>>
      BY <2>7, SubmitMarkerEffect
    <3> QED
      BY <1>0, <3>1, StreamKept DEF TypeOK
  <2>5. ASSUME NEW c \in Commands, ReleaseEvent(t, c) PROVE StreamInv'
    BY <1>0, <2>5, ReleaseEventEffect, StreamKept
  <2>6. ASSUME NEW q \in Queues, ReleaseQueue(t, q) PROVE StreamInv'
    BY <1>0, <2>6, ReleaseQueueEffect, StreamKept
  <2> QED
    BY <1>3, <2>1, <2>2, <2>3, <2>4, <2>5, <2>6, <2>7 DEF Begin
<1>4. ASSUME NEW r \in Csrs, Gpu(r) PROVE StreamInv'
  BY <1>0, <1>4, GpuStream
<1>5. ASSUME UNCHANGED vars PROVE StreamInv'
  BY <1>0, <1>5, StreamKept DEF vars, cmdVars
<1> QED
  BY <1>1, <1>2, <1>3, <1>4, <1>5 DEF Next, Step, GpuPoll, Done

-----------------------------------------------------------------------------
(* References *)

\* The counts of entries in a family of lists are natural numbers.
LEMMA FamilyTypes ==
  ASSUME NEW X, NEW H, IsFiniteSet(H), NEW f \in Families(H, X), NEW S
  PROVE  /\ Cardinality(Sites(S, f)) \in Nat /\ \A h \in H : f[h] \in Seq(X) /\ Occ(S, f[h]) \in Nat
         /\ Cardinality(Sites(S, f)) = 0 <=> \A h \in H : \A i \in 1..Len(f[h]) : f[h][i] \notin S
<1>1. f \in [H -> Seq(X)]
  BY DEF Families
<1>2. /\ Cardinality(Sites(S, f)) \in Nat
      /\ Cardinality(Sites(S, f)) = 0 <=> \A h \in H : \A i \in 1..Len(f[h]) : f[h][i] \notin S
  BY <1>1, SitesType
<1>3. \A h \in H : f[h] \in Seq(X) /\ Occ(S, f[h]) \in Nat
  BY <1>1, OccType
<1> QED
  BY <1>2, <1>3

\* Two lists of the family are replaced, as when the queue's tags become the previous ones.
LEMMA SitesTwo ==
  ASSUME NEW X, NEW H, IsFiniteSet(H), NEW f \in Families(H, X), NEW g \in Families(H, X), NEW S,
         NEW i \in H, NEW j \in H, i # j, \A h \in H \ {i, j} : g[h] = f[h]
  PROVE  Cardinality(Sites(S, g))
           = Cardinality(Sites(S, f)) - Occ(S, f[i]) + Occ(S, g[i]) - Occ(S, f[j]) + Occ(S, g[j])
<1> DEFINE m == [f EXCEPT ![i] = g[i]]
<1>1. m \in Families(H, X) /\ m[i] = g[i] /\ m[j] = f[j]
      /\ (\A h \in H \ {i} : m[h] = f[h]) /\ (\A h \in H \ {j} : g[h] = m[h])
  BY DEF Families
<1> HIDE DEF m
<1>2. Cardinality(Sites(S, m)) = Cardinality(Sites(S, f)) - Occ(S, f[i]) + Occ(S, m[i])
  BY <1>1, SitesOne
<1>3. Cardinality(Sites(S, g)) = Cardinality(Sites(S, m)) - Occ(S, m[j]) + Occ(S, g[j])
  BY <1>1, SitesOne
<1>4. /\ Cardinality(Sites(S, f)) \in Nat /\ Cardinality(Sites(S, m)) \in Nat
      /\ \A h \in H : Occ(S, f[h]) \in Nat /\ Occ(S, g[h]) \in Nat
  BY <1>1, FamilyTypes
<1> QED
  BY <1>1, <1>2, <1>3, <1>4

\* Three lists of the family are replaced, as when an event and its command are deleted.
LEMMA SitesThree ==
  ASSUME NEW X, NEW H, IsFiniteSet(H), NEW f \in Families(H, X), NEW g \in Families(H, X), NEW S,
         NEW i \in H, NEW j \in H, NEW k \in H, i # j, i # k, j # k, \A h \in H \ {i, j, k} : g[h] = f[h]
  PROVE  Cardinality(Sites(S, g))
           = Cardinality(Sites(S, f)) - Occ(S, f[i]) + Occ(S, g[i]) - Occ(S, f[j]) + Occ(S, g[j]) - Occ(S, f[k]) + Occ(S, g[k])
<1> DEFINE m == [f EXCEPT ![i] = g[i]]
<1>1. m \in Families(H, X) /\ m[i] = g[i] /\ m[j] = f[j] /\ m[k] = f[k]
      /\ (\A h \in H \ {i} : m[h] = f[h]) /\ (\A h \in H \ {j, k} : g[h] = m[h])
  BY DEF Families
<1> HIDE DEF m
<1>2. Cardinality(Sites(S, m)) = Cardinality(Sites(S, f)) - Occ(S, f[i]) + Occ(S, m[i])
  BY <1>1, SitesOne
<1>3. Cardinality(Sites(S, g)) = Cardinality(Sites(S, m)) - Occ(S, m[j]) + Occ(S, g[j]) - Occ(S, m[k]) + Occ(S, g[k])
  BY <1>1, SitesTwo
<1>4. /\ Cardinality(Sites(S, f)) \in Nat /\ Cardinality(Sites(S, m)) \in Nat
      /\ \A h \in H : Occ(S, f[h]) \in Nat /\ Occ(S, g[h]) \in Nat
  BY <1>1, FamilyTypes
<1> QED
  BY <1>1, <1>2, <1>3, <1>4

\* The returns that are still to be counted down, and how a step of t changes them.
LEMMA ReturnsType ==
  ASSUME TypeOK, ThreadInv
  PROVE  /\ toBeReturned \in [Threads -> Seq(Tags)]
         /\ \A t \in Threads : toBeReturned[t] = IF thread[t].place = "none" THEN thread[t].toReturn
                                                 ELSE Tail(thread[t].toReturn)
<1>1. \A t \in Threads : thread[t].toReturn \in Seq(Tags) /\ (thread[t].place # "none" => thread[t].toReturn # <<>>)
  BY Fields DEF TypeOK, ThreadInv, ThreadOK
<1>2. \A t \in Threads : thread[t].place # "none" => Tail(thread[t].toReturn) \in Seq(Tags)
  BY <1>1, HeadTailProperties
<1> QED
  BY <1>1, <1>2 DEF toBeReturned

\* The same after a step.
LEMMA ReturnsPrimed ==
  ASSUME TypeOK', ThreadInv'
  PROVE  /\ toBeReturned' \in [Threads -> Seq(Tags)]
         /\ \A t \in Threads : toBeReturned'[t] = IF thread'[t].place = "none" THEN thread'[t].toReturn
                                                  ELSE Tail(thread'[t].toReturn)
<1>1. \A t \in Threads : thread'[t].toReturn \in Seq(Tags) /\ (thread'[t].place # "none" => thread'[t].toReturn # <<>>)
  BY Fields DEF TypeOK, ThreadInv, ThreadOK
<1>2. \A t \in Threads : thread'[t].place # "none" => Tail(thread'[t].toReturn) \in Seq(Tags)
  BY <1>1, HeadTailProperties
<1> QED
  BY <1>1, <1>2 DEF toBeReturned

\* A step of t changes its own pending returns only.
LEMMA ReturnsOfThread ==
  ASSUME ControlInv, ControlInv', NEW t \in Threads, Others(t)
  PROVE  /\ toBeReturned[t] \in Seq(Tags) /\ toBeReturned'[t] \in Seq(Tags)
         /\ \A n \in Tags : Cardinality(Sites({n}, toBeReturned'))
              = Cardinality(Sites({n}, toBeReturned)) - Occ({n}, toBeReturned[t]) + Occ({n}, toBeReturned'[t])
<1>1. /\ toBeReturned \in [Threads -> Seq(Tags)]
      /\ \A u \in Threads : toBeReturned[u] = IF thread[u].place = "none" THEN thread[u].toReturn
                                                 ELSE Tail(thread[u].toReturn)
  BY ReturnsType DEF ControlInv
<1>2. /\ toBeReturned' \in [Threads -> Seq(Tags)]
      /\ \A u \in Threads : toBeReturned'[u] = IF thread'[u].place = "none" THEN thread'[u].toReturn
                                                 ELSE Tail(thread'[u].toReturn)
  BY ReturnsPrimed DEF ControlInv
<1>3. \A u \in Threads \ {t} : toBeReturned'[u] = toBeReturned[u]
  BY <1>1, <1>2 DEF Others
<1> DEFINE f == toBeReturned
           g == toBeReturned'
<1> HIDE DEF f, g
<1>4. /\ f \in Families(Threads, Tags) /\ g \in Families(Threads, Tags) /\ g[t] \in Seq(Tags) /\ f[t] \in Seq(Tags)
      /\ \A u \in Threads \ {t} : g[u] = f[u]
  BY <1>1, <1>2, <1>3 DEF f, g, Families
<1>5. \A n \in Tags : Cardinality(Sites({n}, g)) = Cardinality(Sites({n}, f)) - Occ({n}, f[t]) + Occ({n}, g[t])
  BY <1>4, SitesOne, ConstantFacts
<1> QED
  BY <1>4, <1>5 DEF f, g

\* The sums of a step in which the containers and the returns of t change by as much
\* as the counts.
LEMMA RefsOfThread ==
  ASSUME ControlInv, ControlInv', RefInv, NEW t \in Threads, Others(t),
         \A n \in Tags : refCount'[n] - refCount[n]
            = Cardinality(Sites({n}, nodes')) - Cardinality(Sites({n}, nodes))
              + Occ({n}, toBeReturned'[t]) - Occ({n}, toBeReturned[t])
  PROVE  RefInv'
<1> SUFFICES ASSUME NEW n \in Tags
             PROVE  refCount'[n] = Cardinality(Sites({n}, nodes')) + Cardinality(Sites({n}, toBeReturned'))
  BY DEF RefInv
<1>1. Cardinality(Sites({n}, toBeReturned'))
              = Cardinality(Sites({n}, toBeReturned)) - Occ({n}, toBeReturned[t]) + Occ({n}, toBeReturned'[t])
  BY ReturnsOfThread
<1>2. refCount[n] = Cardinality(Sites({n}, nodes)) + Cardinality(Sites({n}, toBeReturned))
  BY DEF RefInv
<1>3. refCount[n] \in Int /\ refCount'[n] \in Int
  BY DEF ControlInv, TypeOK
<1>4. Occ({n}, toBeReturned[t]) \in Nat /\ Occ({n}, toBeReturned'[t]) \in Nat
  BY ReturnsOfThread, OccType
<1>5. Cardinality(Sites({n}, nodes)) \in Nat /\ Cardinality(Sites({n}, nodes')) \in Nat
  BY SitesType, ConstantFacts DEF ControlInv, TypeOK
<1>6. Cardinality(Sites({n}, toBeReturned)) \in Nat
  <2>1. toBeReturned \in [Threads -> Seq(Tags)]
    BY ReturnsType DEF ControlInv
  <2> QED
    BY <2>1, SitesType, ConstantFacts
<1> QED
  BY <1>1, <1>2, <1>3, <1>4, <1>5, <1>6

\* The containers, before and after a step.
LEMMA Containers ==
  ASSUME ControlInv, ControlInv'
  PROVE  /\ nodes \in Families(Holders, Tags) /\ nodes' \in Families(Holders, Tags) /\ IsFiniteSet(Holders)
         /\ \A h \in Holders : nodes[h] \in Seq(Tags) /\ nodes'[h] \in Seq(Tags)
         /\ \A n \in Tags : refCount[n] \in Int /\ refCount'[n] \in Int
         /\ \A n \in Tags : /\ Cardinality(Sites({n}, nodes)) \in Nat /\ Cardinality(Sites({n}, nodes')) \in Nat
                            /\ \A h \in Holders : Occ({n}, nodes[h]) \in Nat /\ Occ({n}, nodes'[h]) \in Nat
<1>1. /\ nodes \in Families(Holders, Tags) /\ nodes' \in Families(Holders, Tags)
      /\ \A h \in Holders : nodes[h] \in Seq(Tags) /\ nodes'[h] \in Seq(Tags)
      /\ \A n \in Tags : refCount[n] \in Int /\ refCount'[n] \in Int
  BY DEF Families, ControlInv, TypeOK
<1>2. \A n \in Tags : /\ Cardinality(Sites({n}, nodes)) \in Nat /\ Cardinality(Sites({n}, nodes')) \in Nat
                      /\ \A h \in Holders : Occ({n}, nodes[h]) \in Nat /\ Occ({n}, nodes'[h]) \in Nat
  BY <1>1, FamilyTypes, ConstantFacts
<1> QED
  BY <1>1, <1>2, ConstantFacts

\* The pending returns of a thread before and after a step.
LEMMA Dues ==
  ASSUME ControlInv, ControlInv', NEW t \in Threads
  PROVE  /\ toBeReturned[t] = IF thread[t].place = "none" THEN thread[t].toReturn ELSE Tail(thread[t].toReturn)
         /\ toBeReturned'[t] = IF thread'[t].place = "none" THEN thread'[t].toReturn ELSE Tail(thread'[t].toReturn)
  BY ReturnsType, ReturnsPrimed DEF ControlInv

\* A step that touches neither containers nor counts nor pending returns.
LEMMA RefsQuiet ==
  ASSUME ControlInv, ControlInv', RefInv, NEW t \in Threads, Others(t), UNCHANGED <<nodes, refCount>>,
         toBeReturned'[t] = toBeReturned[t]
  PROVE  RefInv'
<1>1. \A n \in Tags : /\ refCount[n] \in Int /\ Cardinality(Sites({n}, nodes)) \in Nat
                      /\ nodes' = nodes /\ refCount'[n] = refCount[n] /\ Occ({n}, toBeReturned[t]) \in Nat
  BY Containers, ReturnsOfThread, OccType
<1>2. \A n \in Tags : refCount'[n] - refCount[n]
            = Cardinality(Sites({n}, nodes')) - Cardinality(Sites({n}, nodes))
              + Occ({n}, toBeReturned'[t]) - Occ({n}, toBeReturned[t])
  BY <1>1
<1> QED
  BY <1>2, RefsOfThread

\* One container is emptied or filled, two containers change.
LEMMA RefsOne ==
  ASSUME ControlInv, ControlInv', RefInv, NEW t \in Threads, Others(t), NEW i \in Holders,
         \A h \in Holders \ {i} : nodes'[h] = nodes[h],
         \A n \in Tags : refCount'[n] - refCount[n]
            = Occ({n}, nodes'[i]) - Occ({n}, nodes[i]) + Occ({n}, toBeReturned'[t]) - Occ({n}, toBeReturned[t])
  PROVE  RefInv'
<1>1. \A n \in Tags : Cardinality(Sites({n}, nodes')) = Cardinality(Sites({n}, nodes)) - Occ({n}, nodes[i]) + Occ({n}, nodes'[i])
  BY Containers, SitesOne
<1>2. \A n \in Tags : Occ({n}, toBeReturned[t]) \in Nat /\ Occ({n}, toBeReturned'[t]) \in Nat
  BY ReturnsOfThread, OccType
<1>3. ASSUME NEW n \in Tags
      PROVE  refCount'[n] - refCount[n]
            = Cardinality(Sites({n}, nodes')) - Cardinality(Sites({n}, nodes))
              + Occ({n}, toBeReturned'[t]) - Occ({n}, toBeReturned[t])
  <2>1. /\ Cardinality(Sites({n}, nodes)) \in Nat /\ Occ({n}, nodes[i]) \in Nat /\ Occ({n}, nodes'[i]) \in Nat
        /\ refCount[n] \in Int /\ refCount'[n] \in Int
    BY Containers
  <2>2. Occ({n}, toBeReturned[t]) \in Nat /\ Occ({n}, toBeReturned'[t]) \in Nat
    BY <1>2
  <2>3. Cardinality(Sites({n}, nodes')) = Cardinality(Sites({n}, nodes)) - Occ({n}, nodes[i]) + Occ({n}, nodes'[i])
    BY <1>1
  <2>4. refCount'[n] - refCount[n]
          = Occ({n}, nodes'[i]) - Occ({n}, nodes[i]) + Occ({n}, toBeReturned'[t]) - Occ({n}, toBeReturned[t])
    OBVIOUS
  <2> QED
    BY <2>1, <2>2, <2>3, <2>4
<1> QED
  BY <1>3, RefsOfThread

\* A container goes out of scope: its tags are to be returned.
LEMMA ReleasedRefs ==
  ASSUME ControlInv, ControlInv', RefInv, NEW t \in Threads, Others(t), NEW i \in Holders,
         nodes' = [nodes EXCEPT ![i] = <<>>], UNCHANGED refCount,
         toBeReturned[t] = <<>>, toBeReturned'[t] = nodes[i]
  PROVE  RefInv'
<1>1. nodes'[i] = <<>> /\ \A h \in Holders \ {i} : nodes'[h] = nodes[h]
  BY DEF ControlInv, TypeOK
<1>2. ASSUME NEW n \in Tags
      PROVE  refCount'[n] - refCount[n] = Occ({n}, nodes'[i]) - Occ({n}, nodes[i])
                                      + Occ({n}, toBeReturned'[t]) - Occ({n}, toBeReturned[t])
  <2>1. refCount[n] \in Int /\ Occ({n}, nodes'[i]) = 0 /\ Occ({n}, toBeReturned[t]) = 0 /\ Occ({n}, nodes[i]) \in Nat
    BY <1>1, Containers, OccEmpty
  <2>2. Occ({n}, toBeReturned'[t]) = Occ({n}, nodes[i]) /\ refCount'[n] = refCount[n]
    OBVIOUS
  <2> QED
    BY <2>1, <2>2
<1> QED
  BY <1>1, <1>2, RefsOne

\* returnTag counts one pending return down.
LEMMA ReturnTagRefs ==
  ASSUME ControlInv, ControlInv', RefInv, NEW t \in Threads, returnTag(t)
  PROVE  RefInv'
<1> DEFINE s == thread[t]
           m == Head(s.toReturn)
<1>1. /\ s.place = "none" /\ s.toReturn # <<>> /\ s.toReturn \in Seq(Tags) /\ m \in Tags /\ Others(t) /\ UNCHANGED nodes
      /\ refCount' = [refCount EXCEPT ![m] = @ - 1]
  BY ReturnTagEffect, Fields DEF ControlInv, TypeOK
<1>2. toBeReturned[t] = s.toReturn /\ toBeReturned'[t] = Tail(s.toReturn)
  BY <1>1, Dues, ReturnTagEffect DEF Returns
<1>3. \A n \in Tags : refCount'[n] = refCount[n] - IF n = m THEN 1 ELSE 0
  <2>1. refCount \in [Tags -> Int]
    BY DEF ControlInv, TypeOK
  <2> QED
    BY <1>1, <2>1
<1>4. ASSUME NEW n \in Tags
      PROVE  Occ({n}, s.toReturn) = Occ({n}, Tail(s.toReturn)) + (IF n = m THEN 1 ELSE 0) /\ Occ({n}, Tail(s.toReturn)) \in Nat
  <2>1. Tail(s.toReturn) \in Seq(Tags)
    BY <1>1, HeadTailProperties
  <2>2. Occ({n}, Tail(s.toReturn)) \in Nat
    BY <2>1, OccType
  <2>3. Occ({n}, s.toReturn) = Occ({n}, Tail(s.toReturn)) + IF m \in {n} THEN 1 ELSE 0
    BY <1>1, OccTail
  <2> QED
    BY <2>2, <2>3
<1>5. ASSUME NEW n \in Tags
      PROVE  refCount'[n] - refCount[n]
            = Cardinality(Sites({n}, nodes')) - Cardinality(Sites({n}, nodes))
              + Occ({n}, toBeReturned'[t]) - Occ({n}, toBeReturned[t])
  <2>1. Cardinality(Sites({n}, nodes)) \in Nat /\ refCount[n] \in Int /\ nodes' = nodes
    BY <1>1, Containers
  <2>2. Occ({n}, toBeReturned[t]) = Occ({n}, toBeReturned'[t]) + (IF n = m THEN 1 ELSE 0) /\ Occ({n}, toBeReturned'[t]) \in Nat
    BY <1>2, <1>4
  <2>3. refCount'[n] = refCount[n] - IF n = m THEN 1 ELSE 0
    BY <1>3
  <2> HIDE DEF m, s
  <2> QED
    BY <2>1, <2>2, <2>3
<1> QED
  BY <1>1, <1>5, RefsOfThread

\* resolveDependencies turns a previous tag into a pending return.
LEMMA ResolveRefs ==
  ASSUME ControlInv, ControlInv', RefInv, NEW t \in Threads, ResolveDependency(t)
  PROVE  RefInv'
<1> DEFINE s == thread[t]
           c == s.cmd
           old == nodes[<<"stack", c>>]
<1>1. /\ c \in Commands /\ s.pc = "resolve" /\ s.toResolve # <<>> /\ s.toReturn = <<>> /\ s.toDrop = <<>> /\ Others(t)
      /\ s.place = "none" /\ s.toResolve = old /\ <<"stack", c>> \in Holders /\ UNCHANGED refCount
  <2>1. /\ c \in Commands /\ s.pc = "resolve" /\ s.toResolve # <<>> /\ s.toReturn = <<>> /\ s.toDrop = <<>> /\ Others(t)
        /\ UNCHANGED refCount
    BY ResolveDependencyEffect DEF At
  <2>2. ThreadOK(s) /\ OwnerOK(t)
    BY DEF ControlInv, ThreadInv
  <2> QED
    BY <2>1, <2>2, ConstantFacts DEF ThreadOK, OwnerOK
<1>2. /\ old \in Seq(Tags) /\ Len(old) <= 1
  BY <1>1, Containers DEF ControlInv, SizeInv
<1>3. Head(old) \in Tags /\ old = <<Head(old)>> /\ RemoveAt(old, 1) = <<>> /\ Len(old) - Len(old) + 1 = 1
  <2> HIDE DEF old
  <2> QED
    BY <1>1, <1>2, OneTag
<1>4. CASE canBeReleased(Head(old)) \/ QueueOf[c] \in OutOfOrder
  <2>0. /\ nodes' = [nodes EXCEPT ![<<"stack", c>>] = RemoveAt(@, Len(@) - Len(s.toResolve) + 1)]
        /\ Returns(t, <<Head(s.toResolve)>>, s.place)
    BY <1>1, <1>4, ResolveDependencyEffect
  <2>1. nodes' = [nodes EXCEPT ![<<"stack", c>>] = <<>>] /\ Returns(t, <<Head(old)>>, "none")
    BY <1>1, <1>3, <2>0
  <2>2. nodes'[<<"stack", c>>] = <<>> /\ \A h \in Holders \ {<<"stack", c>>} : nodes'[h] = nodes[h]
    BY <1>1, <2>1 DEF ControlInv, TypeOK
  <2>3. toBeReturned[t] = <<>> /\ toBeReturned'[t] = old
    BY <1>1, <1>3, <2>1, Dues DEF Returns
  <2> QED
    BY <1>1, <2>1, <2>3, ReleasedRefs
<1>5. CASE ~(canBeReleased(Head(old)) \/ QueueOf[c] \in OutOfOrder)
  <2>1. UNCHANGED nodes /\ Returns(t, s.toReturn, s.place)
    BY <1>1, <1>5, ResolveDependencyEffect
  <2>2. toBeReturned'[t] = toBeReturned[t]
    BY <2>1, Dues DEF Returns
  <2> QED
    BY <1>1, <2>1, <2>2, RefsQuiet
<1> QED
  BY <1>4, <1>5

\* getTag counts the tag that it adds to the container of the queue.
LEMMA UseTagRefs ==
  ASSUME ControlInv, ControlInv', RefInv, NEW t \in Threads, UseTag(t)
  PROVE  RefInv'
<1> DEFINE s == thread[t]
           q == QueueOf[s.cmd]
           m == s.node
<1>1. s.cmd \in Commands /\ q \in Holders /\ m \in Tags /\ Others(t) /\ s.pc = "use" /\ refCount' = [refCount EXCEPT ![m] = @ + 1]
      /\ nodes' = [nodes EXCEPT ![q] = Append(@, m)] /\ Returns(t, s.toReturn, s.place)
  BY UseTagEffect, ConstantFacts DEF At
<1>2. nodes[q] = <<>>
  BY <1>1 DEF ControlInv, ThreadInv, OwnerOK, Early
<1>3. nodes'[q] = <<m>> /\ \A h \in Holders \ {q} : nodes'[h] = nodes[h]
  <2>1. Append(<<>>, m) = <<m>>
    OBVIOUS
  <2> QED
    BY <1>1, <1>2, <2>1 DEF ControlInv, TypeOK
<1>4. \A n \in Tags : refCount'[n] = refCount[n] + IF n = m THEN 1 ELSE 0
  <2>1. refCount \in [Tags -> Int]
    BY DEF ControlInv, TypeOK
  <2> QED
    BY <1>1, <2>1
<1>5. \A n \in Tags : Occ({n}, nodes'[q]) = (IF n = m THEN 1 ELSE 0) /\ Occ({n}, nodes[q]) = 0
  BY <1>2, <1>3, OccOne, OccEmpty
<1>6. toBeReturned'[t] = toBeReturned[t]
  BY <1>1, Dues DEF Returns
<1>7. \A n \in Tags : Occ({n}, toBeReturned[t]) \in Nat
  BY <1>1, ReturnsOfThread, OccType
<1>8. ASSUME NEW n \in Tags
      PROVE  refCount'[n] - refCount[n] = Occ({n}, nodes'[q]) - Occ({n}, nodes[q])
                                      + Occ({n}, toBeReturned'[t]) - Occ({n}, toBeReturned[t])
  <2>1. refCount[n] \in Int
    BY Containers
  <2> HIDE DEF m, q
  <2> QED
    BY <1>4, <1>5, <1>6, <1>7, <2>1
<1> QED
  BY <1>1, <1>3, <1>8, RefsOne

\* An event gets tags.
LEMMA EventRefs ==
  ASSUME ControlInv, ControlInv', RefInv, NEW t \in Threads, Others(t), NEW c \in Commands, NEW s \in Seq(Tags),
         nodes[<<"event", c>>] = <<>>, nodes' = [nodes EXCEPT ![<<"event", c>>] = s], AddRefs(s),
         toBeReturned'[t] = toBeReturned[t]
  PROVE  RefInv'
<1>0. <<"event", c>> \in Holders
  BY ConstantFacts
<1>1. nodes'[<<"event", c>>] = s /\ \A h \in Holders \ {<<"event", c>>} : nodes'[h] = nodes[h]
  BY <1>0 DEF ControlInv, TypeOK
<1>2. \A n \in Tags : refCount'[n] = refCount[n] + Occ({n}, s) /\ Occ({n}, s) \in Nat
  BY AddRefsType, OccType DEF ControlInv
<1>3. \A n \in Tags : Occ({n}, toBeReturned[t]) \in Nat
  BY ReturnsOfThread, OccType
<1>4. ASSUME NEW n \in Tags
      PROVE  refCount'[n] - refCount[n] = Occ({n}, nodes'[<<"event", c>>]) - Occ({n}, nodes[<<"event", c>>])
                                      + Occ({n}, toBeReturned'[t]) - Occ({n}, toBeReturned[t])
  <2>1. refCount[n] \in Int /\ Occ({n}, nodes[<<"event", c>>]) = 0
    BY Containers, OccEmpty
  <2> QED
    BY <1>1, <1>2, <1>3, <2>1
<1> QED
  BY <1>0, <1>1, <1>4, RefsOne

\* The event of a kernel counts the tags that it shares with the queue.
LEMMA DispatchRefs ==
  ASSUME ControlInv, ControlInv', RefInv, NEW t \in Threads, Dispatch(t)
  PROVE  RefInv'
<1>0. PICK c \in Commands : c = thread[t].cmd
  BY DispatchEffect
<1> DEFINE own == nodes[QueueOf[c]]
<1>1. Others(t) /\ Returns(t, thread[t].toReturn, thread[t].place) /\ thread[t].pc = "dispatch"
      /\ IF c \in OutputEvents THEN nodes' = [nodes EXCEPT ![<<"event", c>>] = own] /\ AddRefs(own)
            ELSE UNCHANGED <<nodes, refCount>>
  BY <1>0, DispatchEffect DEF At
<1>2. toBeReturned'[t] = toBeReturned[t]
  BY <1>1, Dues DEF Returns
<1>3. nodes[<<"event", c>>] = <<>> /\ own \in Seq(Tags)
  BY <1>0, <1>1, Containers, ConstantFacts DEF ControlInv, ThreadInv, OwnerOK, Early
<1> QED
  BY <1>1, <1>2, <1>3, EventRefs, RefsQuiet

\* The event of a marker counts every tag that it inherits, as often as it inherits it.
LEMMA MarkerRefs ==
  ASSUME ControlInv, ControlInv', RefInv, NEW t \in Threads, NEW c \in Commands,
         EnqueueMarker(t, c) \/ EnqueueBlockedMarker(t, c)
  PROVE  RefInv'
<1> DEFINE inherited == nodes[QueueOf[c]] \o EventNodes(WaitList[c])
<1>1. Others(t) /\ Returns(t, <<>>, "none") /\ thread[t] = Idle
      /\ IF c \in OutputEvents THEN nodes' = [nodes EXCEPT ![<<"event", c>>] = inherited] /\ AddRefs(inherited)
            ELSE UNCHANGED <<nodes, refCount>>
  BY EnqueueMarkerEffect
<1>2. toBeReturned'[t] = toBeReturned[t]
  BY <1>1, Dues DEF Returns, Idle
<1>3. nodes[<<"event", c>>] = <<>>
  BY MarkerIsNew
<1>4. inherited \in Seq(Tags)
  <2>1. nodes[QueueOf[c]] \in Seq(Tags) /\ WaitList[c] \in SUBSET Commands /\ TypeOK
    BY Containers, ConstantFacts DEF ControlInv
  <2> QED
    BY <2>1, EventNodesType, ConcatProperties
<1> HIDE DEF inherited
<1> QED
  BY <1>1, <1>2, <1>3, <1>4, EventRefs, RefsQuiet

\* The previous tags go out of scope: they become pending returns.
LEMMA NonBlockedRefs ==
  ASSUME ControlInv, ControlInv', RefInv, NEW t \in Threads, EnqueueNonBlocked(t)
  PROVE  RefInv'
<1>0. PICK c \in Commands : c = thread[t].cmd
  BY NonBlockedEffect
<1>1. /\ Others(t) /\ Returns(t, nodes[<<"stack", c>>], "none") /\ UNCHANGED refCount /\ thread[t].toReturn = <<>> /\ thread[t].toDrop = <<>>
      /\ nodes' = [nodes EXCEPT ![<<"stack", c>>] = <<>>]
  BY <1>0, NonBlockedEffect DEF At
<1>2. thread[t].place = "none"
  BY <1>1 DEF ControlInv, ThreadInv, ThreadOK
<1>3. toBeReturned[t] = <<>> /\ toBeReturned'[t] = nodes[<<"stack", c>>]
  BY <1>1, <1>2, Dues DEF Returns
<1>4. <<"stack", c>> \in Holders
  BY ConstantFacts
<1> QED
  BY <1>1, <1>3, <1>4, ReleasedRefs

\* The tags of a deleted queue become pending returns.
LEMMA ReleaseQueueRefs ==
  ASSUME ControlInv, ControlInv', RefInv, NEW t \in Threads, NEW q \in Queues, ReleaseQueue(t, q)
  PROVE  RefInv'
<1>1. /\ Others(t) /\ Returns(t, nodes[q], "none") /\ UNCHANGED refCount /\ thread[t] = Idle
      /\ nodes' = [nodes EXCEPT ![q] = <<>>]
  BY ReleaseQueueEffect
<1>3. toBeReturned[t] = <<>> /\ toBeReturned'[t] = nodes[q]
  BY <1>1, Dues DEF Returns, Idle
<1>4. q \in Holders
  BY ConstantFacts
<1> QED
  BY <1>1, <1>3, <1>4, ReleasedRefs

\* The tags of the queue become the previous ones: swapNodes counts nothing.
LEMMA KernelRefs ==
  ASSUME ControlInv, ControlInv', RefInv, NEW t \in Threads, NEW c \in Commands, EnqueueKernel(t, c)
  PROVE  RefInv'
<1> DEFINE q == QueueOf[c]
           i == <<"stack", c>>
<1>1. /\ Others(t) /\ Returns(t, <<>>, "none") /\ thread[t] = Idle /\ UNCHANGED refCount
      /\ nodes' = [nodes EXCEPT ![i] = nodes[q], ![q] = <<>>]
  BY EnqueueKernelEffect
<1>2. toBeReturned'[t] = toBeReturned[t]
  BY <1>1, Dues DEF Returns, Idle
<1>3. nodes[i] = <<>>
  <2>1. Awaited(c)
    BY EnqueueKernelEffect, CallsShrink DEF ControlInv, CallInv
  <2> QED
    BY <2>1 DEF ControlInv, CallInv
<1>4. q \in Holders /\ i \in Holders /\ i # q
  BY ConstantFacts
<1>5. nodes'[i] = nodes[q] /\ nodes'[q] = <<>> /\ \A h \in Holders \ {i, q} : nodes'[h] = nodes[h]
  BY <1>1, <1>4 DEF ControlInv, TypeOK
<1> HIDE DEF i, q
<1>6. ASSUME NEW n \in Tags
      PROVE  refCount'[n] - refCount[n]
            = Cardinality(Sites({n}, nodes')) - Cardinality(Sites({n}, nodes))
              + Occ({n}, toBeReturned'[t]) - Occ({n}, toBeReturned[t])
  <2>1. Cardinality(Sites({n}, nodes'))
           = Cardinality(Sites({n}, nodes)) - Occ({n}, nodes[i]) + Occ({n}, nodes'[i]) - Occ({n}, nodes[q]) + Occ({n}, nodes'[q])
    BY <1>4, <1>5, Containers, SitesTwo
  <2>2. /\ Cardinality(Sites({n}, nodes)) \in Nat /\ refCount[n] \in Int /\ Occ({n}, nodes[q]) \in Nat
        /\ Occ({n}, nodes[i]) = 0 /\ Occ({n}, nodes'[q]) = 0
    BY <1>3, <1>4, <1>5, Containers, OccEmpty
  <2>3. Occ({n}, toBeReturned[t]) \in Nat
    BY <1>1, ReturnsOfThread, OccType
  <2> QED
    BY <1>1, <1>2, <1>5, <2>1, <2>2, <2>3
<1> QED
  BY <1>1, <1>6, RefsOfThread

\* A blocked command counts its tags and its previous tags once more.
LEMMA BlockedRefs ==
  ASSUME ControlInv, ControlInv', RefInv, NEW t \in Threads, EnqueueBlocked(t)
  PROVE  RefInv'
<1>0. PICK c \in Commands : c = thread[t].cmd
  BY BlockedEffect
<1> DEFINE i == <<"current", c>>
           j == <<"previous", c>>
           k == <<"stack", c>>
           own == nodes[QueueOf[c]]
           prev == nodes[k]
<1>1. /\ Others(t) /\ Returns(t, prev, "none") /\ thread[t].toReturn = <<>> /\ thread[t].toDrop = <<>> /\ thread[t].pc = "block"
      /\ nodes' = [nodes EXCEPT ![i] = own, ![j] = prev, ![k] = <<>>] /\ AddRefs(own \o prev)
  BY <1>0, BlockedEffect DEF At
<1>2. thread[t].place = "none" /\ nodes[i] = <<>> /\ nodes[j] = <<>>
  BY <1>0, <1>1 DEF ControlInv, ThreadInv, ThreadOK, OwnerOK, Enqueuing
<1>3. toBeReturned[t] = <<>> /\ toBeReturned'[t] = prev
  BY <1>1, <1>2, Dues DEF Returns
<1>4. i \in Holders /\ j \in Holders /\ k \in Holders /\ QueueOf[c] \in Holders /\ i # j /\ i # k /\ j # k
  BY ConstantFacts
<1>5. nodes'[i] = own /\ nodes'[j] = prev /\ nodes'[k] = <<>> /\ \A h \in Holders \ {i, j, k} : nodes'[h] = nodes[h]
  BY <1>1, <1>4 DEF ControlInv, TypeOK
<1>6. own \in Seq(Tags) /\ prev \in Seq(Tags) /\ own \o prev \in Seq(Tags)
  BY <1>4, Containers, ConcatProperties
<1> HIDE DEF i, j, k
<1>7. ASSUME NEW n \in Tags
      PROVE  refCount'[n] - refCount[n]
            = Cardinality(Sites({n}, nodes')) - Cardinality(Sites({n}, nodes))
              + Occ({n}, toBeReturned'[t]) - Occ({n}, toBeReturned[t])
  <2>1. Cardinality(Sites({n}, nodes'))
           = Cardinality(Sites({n}, nodes)) - Occ({n}, nodes[i]) + Occ({n}, nodes'[i]) - Occ({n}, nodes[j]) + Occ({n}, nodes'[j])
             - Occ({n}, nodes[k]) + Occ({n}, nodes'[k])
    BY <1>4, <1>5, Containers, SitesThree
  <2>2. /\ Cardinality(Sites({n}, nodes)) \in Nat /\ refCount[n] \in Int /\ Occ({n}, own) \in Nat /\ Occ({n}, prev) \in Nat
        /\ Occ({n}, nodes[i]) = 0 /\ Occ({n}, nodes[j]) = 0 /\ Occ({n}, nodes'[k]) = 0 /\ Occ({n}, toBeReturned[t]) = 0
    BY <1>2, <1>3, <1>4, <1>5, Containers, OccEmpty
  <2>3. refCount'[n] = refCount[n] + Occ({n}, own \o prev)
    BY <1>1, <1>6, AddRefsType DEF ControlInv
  <2>4. Occ({n}, own \o prev) = Occ({n}, own) + Occ({n}, prev)
    BY <1>6, OccConcat
  <2> QED
    BY <1>3, <1>5, <2>1, <2>2, <2>3, <2>4
<1> QED
  BY <1>1, <1>7, RefsOfThread

\* The tags of a deleted event and its command become pending returns.
LEMMA DropRefs ==
  ASSUME ControlInv, ControlInv', RefInv, NEW t \in Threads, DropEvent(t)
  PROVE  RefInv'
<1>0. PICK c \in Commands : c = Head(thread[t].toDrop)
  BY DropEventEffect
<1> DEFINE i == <<"previous", c>>
           j == <<"current", c>>
           k == <<"event", c>>
           old == thread[t].toReturn
<1>1. Others(t) /\ UNCHANGED refCount /\ thread[t].place = "none" /\ old \in Seq(Tags)
  BY DropEventEffect, Fields DEF ControlInv, TypeOK
<1>2. CASE eventRefs[c] # 1
  <2>1. UNCHANGED nodes /\ Returns(t, old, "none")
    BY <1>0, <1>1, <1>2, DropEventEffect
  <2>2. toBeReturned'[t] = toBeReturned[t]
    BY <1>1, <2>1, Dues DEF Returns
  <2> QED
    BY <1>1, <2>1, <2>2, RefsQuiet
<1>3. CASE eventRefs[c] = 1
  <2>1. /\ nodes' = [nodes EXCEPT ![i] = <<>>, ![j] = <<>>, ![k] = <<>>]
        /\ Returns(t, nodes[i] \o nodes[j] \o nodes[k] \o old, "none")
    BY <1>0, <1>1, <1>3, DropEventEffect
  <2>2. toBeReturned[t] = old /\ toBeReturned'[t] = nodes[i] \o nodes[j] \o nodes[k] \o old
    BY <1>1, <2>1, Dues DEF Returns
  <2>3. i \in Holders /\ j \in Holders /\ k \in Holders /\ i # j /\ i # k /\ j # k
    BY ConstantFacts
  <2>4. nodes'[i] = <<>> /\ nodes'[j] = <<>> /\ nodes'[k] = <<>> /\ \A h \in Holders \ {i, j, k} : nodes'[h] = nodes[h]
    BY <2>1, <2>3 DEF ControlInv, TypeOK
  <2> DEFINE x == nodes[i]
             y == nodes[j]
             z == nodes[k]
  <2>5. x \in Seq(Tags) /\ y \in Seq(Tags) /\ z \in Seq(Tags)
    BY <2>3, Containers
  <2>6. x \o y \in Seq(Tags) /\ x \o y \o z \in Seq(Tags)
    BY <2>5, ConcatProperties
  <2> HIDE DEF i, j, k
  <2>7. ASSUME NEW n \in Tags
        PROVE  refCount'[n] - refCount[n]
              = Cardinality(Sites({n}, nodes')) - Cardinality(Sites({n}, nodes))
                + Occ({n}, toBeReturned'[t]) - Occ({n}, toBeReturned[t])
    <3>1. Cardinality(Sites({n}, nodes'))
             = Cardinality(Sites({n}, nodes)) - Occ({n}, nodes[i]) + Occ({n}, nodes'[i]) - Occ({n}, nodes[j]) + Occ({n}, nodes'[j])
               - Occ({n}, nodes[k]) + Occ({n}, nodes'[k])
      BY <2>3, <2>4, Containers, SitesThree
    <3>2. /\ Cardinality(Sites({n}, nodes)) \in Nat /\ refCount[n] \in Int /\ refCount'[n] = refCount[n]
          /\ Occ({n}, x) \in Nat /\ Occ({n}, y) \in Nat /\ Occ({n}, z) \in Nat
          /\ Occ({n}, nodes'[i]) = 0 /\ Occ({n}, nodes'[j]) = 0 /\ Occ({n}, nodes'[k]) = 0
      BY <1>1, <2>3, <2>4, Containers, OccEmpty
    <3>3. Occ({n}, old) \in Nat
      BY <1>1, OccType
    <3> HIDE DEF x, y, z, old
    <3>4. /\ Occ({n}, x \o y) = Occ({n}, x) + Occ({n}, y)
          /\ Occ({n}, x \o y \o z) = Occ({n}, x \o y) + Occ({n}, z)
          /\ Occ({n}, x \o y \o z \o old) = Occ({n}, x \o y \o z) + Occ({n}, old)
      BY <1>1, <2>5, <2>6, OccConcat
    <3>5. toBeReturned[t] = old /\ toBeReturned'[t] = x \o y \o z \o old
      BY <2>2 DEF x, y, z, old
    <3>6. /\ Cardinality(Sites({n}, nodes'))
             = Cardinality(Sites({n}, nodes)) - Occ({n}, x) - Occ({n}, y) - Occ({n}, z)
      BY <3>1, <3>2 DEF x, y, z
    <3> QED
      BY <3>2, <3>3, <3>4, <3>5, <3>6
  <2> QED
    BY <1>1, <2>7, RefsOfThread
<1> QED
  BY <1>2, <1>3

\* Steps that leave the containers and the returns of the thread alone.
LEMMA QuietRefs ==
  ASSUME ControlInv, ControlInv', RefInv, NEW t \in Threads,
         \/ returnTagToFreePool(t) \/ returnTagToDeferredPool(t)
         \/ GetTag(t) \/ DetachDeferred(t) \/ SortDeferred(t) \/ SpliceReady(t) \/ SplicePending(t)
         \/ RemoveFree(t) \/ populateFreeTags(t) \/ DependenciesResolved(t) \/ Submitted(t)
         \/ \E c \in Commands : Submit(t, c) \/ SubmitMarker(t, c) \/ Abort(t, c) \/ ReleaseEvent(t, c)
  PROVE  RefInv'
<1> DEFINE s == thread[t]
           Goal == /\ Others(t) /\ UNCHANGED <<nodes, refCount>>
                   /\ (IF thread'[t].place = "none" THEN thread'[t].toReturn ELSE Tail(thread'[t].toReturn))
                        = (IF s.place = "none" THEN s.toReturn ELSE Tail(s.toReturn))
<1> SUFFICES Goal
  <2>1. Goal => toBeReturned'[t] = toBeReturned[t]
    BY Dues
  <2> QED
    BY <2>1, RefsQuiet
<1>1. CASE returnTagToFreePool(t)
  BY <1>1, ReturnToFreeEffect DEF Returns
<1>2. CASE returnTagToDeferredPool(t)
  BY <1>2, ReturnToDeferredEffect DEF Returns
<1>3. CASE GetTag(t)
  BY <1>3, GetTagEffect DEF Returns
<1>4. CASE DetachDeferred(t)
  BY <1>4, DetachDeferredEffect DEF Returns
<1>5. CASE SortDeferred(t)
  BY <1>5, SortDeferredEffect DEF Returns
<1>6. CASE SpliceReady(t)
  BY <1>6, SpliceReadyEffect DEF Returns
<1>7. CASE SplicePending(t)
  BY <1>7, SplicePendingEffect DEF Returns
<1>8. CASE RemoveFree(t)
  BY <1>8, RemoveFreeEffect DEF Returns
<1>9. CASE populateFreeTags(t)
  BY <1>9, PopulateEffect DEF Others
<1>10. CASE DependenciesResolved(t)
  BY <1>10, DependenciesResolvedEffect DEF Returns
<1>11. CASE Submitted(t)
  <2>1. s.toReturn = <<>> /\ s.toDrop = <<>>
    BY <1>11, SubmittedEffect DEF At
  <2>2. s.place = "none"
    BY <2>1 DEF ControlInv, ThreadInv, ThreadOK
  <2> QED
    BY <1>11, <2>1, <2>2, SubmittedEffect DEF Returns
<1>12. ASSUME NEW c \in Commands, Submit(t, c) PROVE Goal
  <2>1. thread[t] = Idle /\ Others(t) /\ UNCHANGED <<nodes, refCount>> /\ Returns(t, <<>>, "none")
    BY <1>12, SubmitEffect
  <2> QED
    BY <2>1 DEF Returns, Idle
<1>13. ASSUME NEW c \in Commands, Abort(t, c) PROVE Goal
  <2>1. thread[t] = Idle /\ Others(t) /\ UNCHANGED <<nodes, refCount>> /\ Returns(t, <<>>, "none")
    BY <1>13, AbortEffect
  <2> QED
    BY <2>1 DEF Returns, Idle
<1>14. ASSUME NEW c \in Commands, ReleaseEvent(t, c) PROVE Goal
  <2>1. thread[t] = Idle /\ Others(t) /\ UNCHANGED <<nodes, refCount>> /\ Returns(t, <<>>, "none")
    BY <1>14, ReleaseEventEffect
  <2> QED
    BY <2>1 DEF Returns, Idle
<1>15. ASSUME NEW c \in Commands, SubmitMarker(t, c) PROVE Goal
  <2>1. thread[t] = Idle /\ Others(t) /\ UNCHANGED <<nodes, refCount>> /\ Returns(t, <<>>, "none")
    BY <1>15, SubmitMarkerEffect
  <2> QED
    BY <2>1 DEF Returns, Idle
<1> HIDE DEF Goal
<1> QED
  BY <1>1, <1>2, <1>3, <1>4, <1>5, <1>6, <1>7, <1>8, <1>9, <1>10, <1>11, <1>12, <1>13, <1>14, <1>15

\* Every step keeps the counts.
LEMMA RefStep ==
  ASSUME ControlInv, ControlInv', RefInv, [Next]_vars
  PROVE  RefInv'
<1>1. ASSUME NEW t \in Threads, Allocator(t) PROVE RefInv'
  BY <1>1, ReturnTagRefs, UseTagRefs, QuietRefs DEF Allocator
<1>2. ASSUME NEW t \in Threads, Enqueue(t) PROVE RefInv'
  BY <1>2, ResolveRefs, QuietRefs, DispatchRefs, NonBlockedRefs, BlockedRefs, DropRefs DEF Enqueue
<1>3. ASSUME NEW t \in Threads, Begin(t) PROVE RefInv'
  BY <1>3, KernelRefs, MarkerRefs, QuietRefs, ReleaseQueueRefs DEF Begin
<1>4. ASSUME UNCHANGED <<nodes, refCount, thread>> PROVE RefInv'
  BY <1>4 DEF RefInv, toBeReturned
<1>5. ASSUME NEW r \in Csrs, Gpu(r) PROVE RefInv'
  BY <1>4, <1>5 DEF Gpu
<1>6. ASSUME UNCHANGED vars PROVE RefInv'
  BY <1>4, <1>6 DEF vars, tagVars
<1> QED
  BY <1>1, <1>2, <1>3, <1>5, <1>6 DEF Next, Step, GpuPoll, Done
=============================================================================
