------------------------- MODULE HeapAllocatorProofs -------------------------
(***************************************************************************)
(* For every heap and every set of requests: the allocator neither loses an *)
(* address nor gives one out twice, and refuses only what does not fit.     *)
(***************************************************************************)
EXTENDS HeapAllocator, FiniteSetTheorems, SequenceTheorems, WellFoundedInduction, TLAPS

Chunk == [ptr : Nat, size : Nat \ {0}]

\* The address behind a chunk, before it is reduced modulo AddressSpace.
Behind(c) == c.ptr + c.size
Covers(c, x) == c.ptr <= x /\ x < Behind(c)
Apart(c, d) == Behind(c) <= d.ptr \/ Behind(d) <= c.ptr

\* Chunks that share no address and lie from lo up to hi.
Packed(S, lo, hi) ==
    /\ S \subseteq Chunk
    /\ \A c \in S : lo <= c.ptr /\ Behind(c) <= hi
    /\ \A c, d \in S : c # d => Apart(c, d)

\* Two sets of chunks take up the same addresses.
SameCells(S, T) == \A x \in Nat : (\E c \in S : Covers(c, x)) <=> (\E d \in T : Covers(d, x))

-----------------------------------------------------------------------------
(* Numbers *)

\* Every non-empty set of naturals has a least element.
LEMMA LeastNatural ==
    ASSUME NEW N \in SUBSET Nat, N # {}
    PROVE  \E n \in N : \A m \in N : n <= m
<1>1. \E n \in N : \A m \in N : ~(<<m, n>> \in OpToRel(<, Nat))
  BY NatLessThanWellFounded, WFMin
<1>2. PICK n \in N : \A m \in N : ~(<<m, n>> \in OpToRel(<, Nat))
  BY <1>1
<1>3. \A m \in N : ~(m < n)
  BY <1>2 DEF OpToRel
<1> QED
  BY <1>3

\* Every non-empty bounded set of naturals has a greatest element.
LEMMA GreatestNatural ==
    ASSUME NEW N \in SUBSET Nat, N # {}, NEW bound \in Nat, \A n \in N : n <= bound
    PROVE  \E n \in N : \A m \in N : m <= n
<1> DEFINE D == {bound - n : n \in N}
<1>1. D \in SUBSET Nat /\ D # {}
  <2>1. \A n \in N : bound - n \in Nat
    OBVIOUS
  <2> QED
    BY <2>1
<1>2. PICK d \in D : \A e \in D : d <= e
  BY <1>1, LeastNatural
<1>3. PICK n \in N : d = bound - n
  BY <1>2
<1>4. ASSUME NEW m \in N PROVE m <= n
  <2>1. bound - m \in D
    OBVIOUS
  <2>2. d <= bound - m
    BY <2>1, <1>2
  <2> QED
    BY <2>2, <1>3
<1> QED
  BY <1>4

\* Min is what its name says.
LEMMA MinIsLeast ==
    ASSUME NEW N \in SUBSET Nat, N # {}
    PROVE  Min(N) \in N /\ \A n \in N : Min(N) <= n
BY LeastNatural DEF Min

\* Reducing a number below the modulus changes nothing.
LEMMA SmallRemainder ==
    ASSUME NEW n \in Nat, NEW a \in Nat, a < n
    PROVE  a % n = a
OBVIOUS

\* An unsigned difference below 0 wraps around.
LEMMA NegativeRemainder ==
    ASSUME NEW n \in Nat, NEW a \in Nat, 0 < a, a < n
    PROVE  (-a) % n = n - a
OBVIOUS

\* Rounding a request up leaves a positive size.
LEMMA AlignedSize ==
    ASSUME NEW request \in Requests
    PROVE  alignUp(request) \in Nat \ {0}
<1> DEFINE r == request + allocationAlignment - 1
           k == r \div allocationAlignment
<1>1. allocationAlignment \in Nat \ {0} /\ request \in Nat \ {0}
  BY HeapAssumption
<1>2. r \in Nat /\ r >= allocationAlignment
  BY <1>1
<1>3. k \in Nat /\ k >= 1
  BY <1>1, <1>2
<1>4. k * allocationAlignment \in Nat /\ k * allocationAlignment >= allocationAlignment
  <2> HIDE DEF k
  <2> QED
    BY <1>1, <1>3
<1> QED
  BY <1>4, <1>1 DEF alignUp
-----------------------------------------------------------------------------
(* Joined *)

\* What Joined makes of a set of chunks: they cover the same addresses, share
\* none, never touch, and are at least as large as one they were made of.
LEMMA JoinedTiles ==
    ASSUME NEW lo \in Nat, NEW hi \in Nat, hi < AddressSpace, AddressSpace \in Nat,
           NEW S, IsFiniteSet(S), Packed(S, lo, hi)
    PROVE  /\ Packed(Joined(S), lo, hi)
           /\ SameCells(S, Joined(S))
           /\ \A c, d \in Joined(S) : Behind(c) # d.ptr
           /\ \A c, d \in Joined(S) : c.ptr = d.ptr => c = d
           /\ \A c \in Joined(S) : \E d \in S : d.size <= c.size
           /\ IsFiniteSet(Joined(S))
<1> DEFINE ptrs == {c.ptr : c \in S}
           ends == {Behind(c) : c \in S}
           Begins == ptrs \ ends
           Ends == ends \ ptrs
           after(b) == {e \in Ends : e > b}
           fin(b) == Min(after(b))
           run(b) == [ptr |-> b, size |-> fin(b) - b]
<1>1. \A c \in S : /\ c \in Chunk /\ c.ptr \in Nat /\ c.size \in Nat \ {0} /\ Behind(c) \in Nat
                    /\ lo <= c.ptr /\ c.ptr < Behind(c) /\ Behind(c) <= hi
  BY DEF Packed, Chunk, Behind
<1>2. \A c, d \in S : c # d => Behind(c) <= d.ptr \/ Behind(d) <= c.ptr
  BY DEF Packed, Apart
<1>3. \A c \in S : End(c) = Behind(c)
  <2> TAKE c \in S
  <2>1. Behind(c) \in Nat /\ Behind(c) < AddressSpace
    BY <1>1
  <2> QED
    BY <2>1, SmallRemainder DEF End, Plus, Behind
<1>4. Joined(S) = {run(b) : b \in Begins}
  <2>1. {End(c) : c \in S} = ends
    BY <1>3
  <2> QED
    BY <2>1 DEF Joined
<1>5. Begins \subseteq Nat /\ Ends \subseteq Nat /\ ends \subseteq Nat /\ ptrs \subseteq Nat
  BY <1>1
<1>6. ASSUME NEW b \in Begins
      PROVE  /\ fin(b) \in Ends /\ fin(b) > b /\ fin(b) \in Nat /\ b \in Nat
             /\ \A e \in Ends : e > b => fin(b) <= e
  <2>1. PICK c \in S : c.ptr = b
    OBVIOUS
  <2>2. Behind(c) \in ends /\ \A e \in ends : e <= hi
    BY <1>1
  <2>3. PICK m \in ends : \A e \in ends : e <= m
    BY <1>5, <2>2, GreatestNatural
  <2>4. m \in Ends
    <3>1. SUFFICES ASSUME NEW d \in S, m = d.ptr PROVE FALSE
      BY <2>3
    <3>2. Behind(d) \in ends
      OBVIOUS
    <3> QED
      BY <3>1, <3>2, <1>1, <2>3, <1>5
  <2>5. m > b
    <3>1. Behind(c) <= m
      BY <2>2, <2>3
    <3>2. b < Behind(c) /\ b \in Nat /\ Behind(c) \in Nat /\ m \in Nat
      BY <2>1, <1>1, <1>5
    <3> QED
      BY <3>1, <3>2
  <2>6. after(b) \in SUBSET Nat /\ after(b) # {}
    BY <2>4, <2>5, <1>5
  <2>7. Min(after(b)) \in after(b) /\ \A e \in after(b) : Min(after(b)) <= e
    BY <2>6, MinIsLeast
  <2> QED
    BY <2>7, <1>5
<1> HIDE DEF fin
<1>7. \A b \in Begins : /\ run(b) \in Chunk /\ Behind(run(b)) = fin(b)
                         /\ \A x \in Nat : Covers(run(b), x) <=> b <= x /\ x < fin(b)
  <2> TAKE b \in Begins
  <2>1. fin(b) \in Nat /\ b \in Nat /\ fin(b) > b
    BY <1>6
  <2> QED
    BY <2>1 DEF Chunk, Behind, Covers
\* From its beginning to its end a run has no hole.
<1>8. ASSUME NEW b \in Begins, NEW x \in Nat, b <= x, x < fin(b)
      PROVE  \E c \in S : Covers(c, x)
  <2> DEFINE low == {c.ptr : c \in {d \in S : d.ptr <= x}}
  <2>1. b \in low /\ low \in SUBSET Nat /\ \A n \in low : n <= x
    BY <1>8, <1>1
  <2>2. PICK p \in low : \A n \in low : n <= p
    BY <2>1, GreatestNatural
  <2>3. PICK c \in S : c.ptr = p /\ c.ptr <= x
    BY <2>2
  <2>4. b <= c.ptr
    BY <2>1, <2>2, <2>3
  <2>5. ASSUME Behind(c) <= x PROVE FALSE
    <3>1. Behind(c) > b /\ Behind(c) < fin(b) /\ Behind(c) \in Nat /\ Behind(c) > c.ptr
      BY <2>4, <2>5, <1>1, <1>6, <1>8
    <3>2. Behind(c) \notin Ends
      BY <3>1, <1>6
    <3>3. PICK d \in S : d.ptr = Behind(c)
      BY <3>2
    <3>4. d.ptr \in low
      BY <3>3, <2>5
    <3>5. d.ptr <= c.ptr
      BY <3>4, <2>2, <2>3
    <3> HIDE DEF low
    <3> QED
      BY <3>1, <3>3, <3>5, <1>1
  <2>6. Covers(c, x)
    BY <2>5, <2>3, <1>1 DEF Covers
  <2> QED
    BY <2>6
\* Every address of a chunk lies in the run that begins last before it.
<1>9. ASSUME NEW c \in S, NEW x \in Nat, Covers(c, x)
      PROVE  \E b \in Begins : b <= x /\ x < fin(b)
  <2>0. c.ptr <= x /\ x < Behind(c)
    BY <1>9 DEF Covers
  <2> DEFINE low == {b \in Begins : b <= x}
  <2>1. low # {}
    <3>1. PICK p \in ptrs : \A q \in ptrs : p <= q
      BY <1>5, LeastNatural
    <3>2. p \in Begins
      <4>1. SUFFICES ASSUME NEW d \in S, p = Behind(d) PROVE FALSE
        BY <3>1
      <4>2. p <= d.ptr
        BY <3>1
      <4> QED
        BY <4>1, <4>2, <1>1
    <3>3. p <= c.ptr /\ p \in Nat
      BY <3>1, <1>5
    <3> QED
      BY <3>2, <3>3, <2>0, <1>1
  <2>2. PICK b \in low : \A n \in low : n <= b
    <3>1. low \in SUBSET Nat /\ \A n \in low : n <= x
      BY <1>5
    <3> QED
      BY <2>1, <3>1, GreatestNatural
  <2>3. ASSUME fin(b) <= x PROVE FALSE
    <3>1. PICK d \in S : fin(b) = Behind(d)
      BY <1>6
    <3> DEFINE later == {q.ptr : q \in {r \in S : Behind(r) > fin(b)}}
    <3>2. c.ptr \in later /\ later \in SUBSET Nat
      BY <2>0, <2>3, <1>1, <1>6
    <3>3. PICK n \in later : \A m \in later : n <= m
      BY <3>2, LeastNatural
    <3>4. PICK q \in S : q.ptr = n /\ Behind(q) > fin(b)
      BY <3>3
    <3>5. fin(b) <= q.ptr
      BY <3>1, <3>4, <1>1, <1>2, <1>6
    <3>6. fin(b) # q.ptr
      BY <1>6
    <3>7. q.ptr \in Begins
      <4>1. SUFFICES ASSUME NEW w \in S, q.ptr = Behind(w) PROVE FALSE
        OBVIOUS
      <4>2. w.ptr < q.ptr /\ Behind(w) > fin(b)
        BY <4>1, <3>5, <3>6, <1>1, <1>6
      <4>3. w.ptr \in later
        BY <4>2
      <4>4. q.ptr <= w.ptr
        BY <4>3, <3>3, <3>4
      <4> HIDE DEF later
      <4> QED
        BY <4>2, <4>4, <1>1
    <3>8. q.ptr <= c.ptr
      BY <3>2, <3>3, <3>4
    <3>9. q.ptr \in low
      BY <3>7, <3>8, <2>0, <1>1
    <3> QED
      BY <3>5, <3>9, <2>2, <1>6, <1>1
  <2>4. x < fin(b)
    BY <2>3, <1>6
  <2> QED
    BY <2>4
\* A run ends before a later one begins.
<1>10. ASSUME NEW b \in Begins, NEW c \in Begins, b < c
       PROVE  fin(b) < c
  <2>1. fin(b) # c
    BY <1>6
  <2>2. ASSUME c < fin(b) PROVE FALSE
    <3>1. c - 1 \in Nat /\ b <= c - 1 /\ c - 1 < fin(b)
      BY <2>2, <1>10, <1>6
    <3>2. PICK d \in S : Covers(d, c - 1)
      BY <3>1, <1>8
    <3>3. d.ptr <= c - 1 /\ c - 1 < Behind(d)
      BY <3>2 DEF Covers
    <3>4. PICK q \in S : q.ptr = c
      OBVIOUS
    <3>5. Behind(d) = c
      BY <3>3, <3>4, <1>1, <1>2
    <3> QED
      BY <3>5
  <2> QED
    BY <2>1, <2>2, <1>6
\* A run is as large as the chunk it begins with.
<1>11. ASSUME NEW b \in Begins
       PROVE  \E d \in S : d.size <= fin(b) - b
  <2>1. PICK c \in S : c.ptr = b
    OBVIOUS
  <2>2. PICK d \in S : fin(b) = Behind(d)
    BY <1>6
  <2>3. Behind(c) <= fin(b)
    BY <2>1, <2>2, <1>1, <1>2, <1>6
  <2>4. c.size <= fin(b) - b
    BY <2>1, <2>3, <1>1, <1>6 DEF Behind
  <2> QED
    BY <2>4
<1>12. Packed(Joined(S), lo, hi)
  <2>1. \A b \in Begins : lo <= b /\ fin(b) <= hi
    BY <1>1, <1>6
  <2>2. \A b, c \in Begins : run(b) # run(c) => Apart(run(b), run(c))
    <3> TAKE b, c \in Begins
    <3>1. run(b) # run(c) => b # c
      OBVIOUS
    <3>2. b \in Nat /\ c \in Nat /\ fin(b) \in Nat /\ fin(c) \in Nat
      BY <1>6
    <3>3. run(b).ptr = b /\ run(c).ptr = c
      OBVIOUS
    <3> QED
      BY <3>1, <3>2, <3>3, <1>7, <1>10 DEF Apart
  <2>3. \A b \in Begins : run(b).ptr = b /\ run(b) \in Chunk /\ Behind(run(b)) = fin(b)
    BY <1>7
  <2> HIDE DEF run, Begins
  <2> QED
    BY <2>1, <2>2, <2>3, <1>4 DEF Packed
<1>13. SameCells(S, Joined(S))
  <2> SUFFICES ASSUME NEW x \in Nat
               PROVE  (\E c \in S : Covers(c, x)) <=> (\E d \in Joined(S) : Covers(d, x))
    BY DEF SameCells
  <2>1. (\E d \in Joined(S) : Covers(d, x)) <=> (\E b \in Begins : b <= x /\ x < fin(b))
    <3>1. \A b \in Begins : Covers(run(b), x) <=> b <= x /\ x < fin(b)
      BY <1>7
    <3> HIDE DEF run, Begins
    <3> QED
      BY <1>4, <3>1
  <2> QED
    BY <2>1, <1>8, <1>9
<1>14. \A c, d \in Joined(S) : Behind(c) # d.ptr
  <2>1. \A b, c \in Begins : fin(b) # c
    BY <1>6
  <2>2. \A b \in Begins : run(b).ptr = b /\ Behind(run(b)) = fin(b)
    BY <1>7
  <2> HIDE DEF run, Begins
  <2> QED
    BY <2>1, <2>2, <1>4
<1>15. \A c, d \in Joined(S) : c.ptr = d.ptr => c = d
  <2>1. \A b \in Begins : run(b).ptr = b
    OBVIOUS
  <2> HIDE DEF run, Begins
  <2> QED
    BY <2>1, <1>4
<1>16. \A c \in Joined(S) : \E d \in S : d.size <= c.size
  <2>1. \A b \in Begins : run(b).size = fin(b) - b
    OBVIOUS
  <2> HIDE DEF run, Begins
  <2> QED
    BY <2>1, <1>4, <1>11
<1>17. IsFiniteSet(Joined(S))
  <2>1. Begins \subseteq Nat /\ \A b \in Begins : b <= hi
    BY <1>1
  <2>2. IsFiniteSet(Begins)
    BY <2>1, FS_BoundedSetOfNaturals
  <2> HIDE DEF run, Begins
  <2> DEFINE f == [b \in Begins |-> run(b)]
  <2>3. f \in Surjection(Begins, Joined(S))
    BY <1>4 DEF Surjection
  <2> QED
    BY <2>2, <2>3, FS_Surjection
<1> QED
  BY <1>12, <1>13, <1>14, <1>15, <1>16, <1>17
-----------------------------------------------------------------------------
(* Lists *)

\* A list of the chunks of S, each once.
Lists(s, S) == s \in Seq(Chunk) /\ IsInjective(s) /\ ToSet(s) = S

\* What a list of the chunks of S gives.
LEMMA ListFacts ==
    ASSUME NEW s, NEW S, Lists(s, S)
    PROVE  /\ Len(s) \in Nat /\ DOMAIN s = 1..Len(s) /\ S \subseteq Chunk
           /\ \A i \in 1..Len(s) : s[i] \in S /\ s[i] \in Chunk
           /\ \A c \in S : \E i \in 1..Len(s) : s[i] = c
           /\ \A i, j \in 1..Len(s) : s[i] = s[j] => i = j
           /\ s # <<>> <=> S # {}
           /\ s # <<>> => Last(s) \in S
           /\ IsFiniteSet(S)
<1>1. Len(s) \in Nat /\ DOMAIN s = 1..Len(s) /\ \A i \in 1..Len(s) : s[i] \in Chunk
  BY LenProperties, ElementOfSeq DEF Lists
<1>2. S = {s[i] : i \in 1..Len(s)}
  BY <1>1 DEF Lists, ToSet
<1>3. \A i, j \in 1..Len(s) : s[i] = s[j] => i = j
  BY <1>1 DEF Lists, IsInjective
<1>4. s # <<>> <=> Len(s) # 0
  BY EmptySeq, <1>1 DEF Lists
<1>5. s # <<>> => Last(s) \in S
  BY <1>1, <1>2, <1>4 DEF Last
<1>6. S # {} => s # <<>>
  BY <1>1, <1>2, <1>4
<1>7. IsFiniteSet(S)
  <2>1. IsFiniteSet(1..Len(s))
    BY <1>1, FS_Interval
  <2> DEFINE f == [i \in 1..Len(s) |-> s[i]]
  <2>2. f \in Surjection(1..Len(s), S)
    BY <1>2 DEF Surjection
  <2> QED
    BY <2>1, <2>2, FS_Surjection
<1> QED
  BY <1>1, <1>2, <1>3, <1>5, <1>6, <1>7

\* What has to be shown of a list of the chunks of S.
LEMMA IsListing ==
    ASSUME NEW s \in Seq(Chunk), NEW S,
           \A i, j \in 1..Len(s) : s[i] = s[j] => i = j,
           \A i \in 1..Len(s) : s[i] \in S,
           \A c \in S : \E i \in 1..Len(s) : s[i] = c
    PROVE  Lists(s, S)
<1>1. DOMAIN s = 1..Len(s)
  BY LenProperties
<1> QED
  BY <1>1 DEF Lists, IsInjective, ToSet

\* A chunk added at the end of a list.
LEMMA AppendLists ==
    ASSUME NEW s, NEW S, Lists(s, S), NEW r \in Chunk, r \notin S
    PROVE  Lists(Append(s, r), S \cup {r})
<1> DEFINE t == Append(s, r)
<1>1. s \in Seq(Chunk)
  BY DEF Lists
<1>2. /\ t \in Seq(Chunk) /\ Len(t) = Len(s) + 1 /\ Len(s) \in Nat
      /\ \A i \in 1..Len(s) : t[i] = s[i]
      /\ t[Len(s) + 1] = r
  BY <1>1, AppendProperties, LenProperties
<1> HIDE DEF t
<1>3. \A i \in 1..Len(t) : i \in 1..Len(s) \/ i = Len(s) + 1
  BY <1>2
<1>4. \A i, j \in 1..Len(t) : t[i] = t[j] => i = j
  BY <1>2, <1>3, ListFacts
<1>5. \A i \in 1..Len(t) : t[i] \in S \cup {r}
  BY <1>2, <1>3, ListFacts
<1>6. \A c \in S \cup {r} : \E i \in 1..Len(t) : t[i] = c
  <2> TAKE c \in S \cup {r}
  <2>1. CASE c = r
    BY <2>1, <1>2
  <2>2. CASE c \in S
    <3>1. PICK i \in 1..Len(s) : s[i] = c
      BY <2>2, ListFacts
    <3> QED
      BY <3>1, <1>2
  <2> QED
    BY <2>1, <2>2
<1>7. Lists(t, S \cup {r})
  BY <1>2, <1>4, <1>5, <1>6, IsListing
<1> QED
  BY <1>7 DEF t

\* A chunk of a list replaced in its place.
LEMMA ExceptLists ==
    ASSUME NEW s, NEW S, Lists(s, S), NEW n \in 1..Len(s), NEW r \in Chunk, r \notin S \ {s[n]}
    PROVE  Lists([s EXCEPT ![n] = r], (S \ {s[n]}) \cup {r})
<1> DEFINE t == [s EXCEPT ![n] = r]
           T == (S \ {s[n]}) \cup {r}
<1>1. s \in Seq(Chunk)
  BY DEF Lists
<1>2. /\ t \in Seq(Chunk) /\ Len(t) = Len(s) /\ Len(s) \in Nat
      /\ \A i \in 1..Len(s) : t[i] = IF i = n THEN r ELSE s[i]
  BY <1>1, ExceptSeq, LenProperties
<1> HIDE DEF t
<1>3. \A i \in 1..Len(s) : i # n => t[i] = s[i] /\ t[i] \in S \ {s[n]}
  BY <1>2, ListFacts
<1>4. \A i, j \in 1..Len(t) : t[i] = t[j] => i = j
  BY <1>2, <1>3, ListFacts
<1>5. \A i \in 1..Len(t) : t[i] \in T
  BY <1>2, <1>3
<1>6. \A c \in T : \E i \in 1..Len(t) : t[i] = c
  <2> TAKE c \in T
  <2>1. CASE c = r
    BY <2>1, <1>2
  <2>2. CASE c \in S \ {s[n]}
    <3>1. PICK i \in 1..Len(s) : s[i] = c
      BY <2>2, ListFacts
    <3> QED
      BY <3>1, <2>2, <1>2
  <2> QED
    BY <2>1, <2>2
<1>7. Lists(t, T)
  BY <1>2, <1>4, <1>5, <1>6, IsListing
<1> QED
  BY <1>7 DEF t

\* A chunk erased from a list.
LEMMA RemoveAtLists ==
    ASSUME NEW s, NEW S, Lists(s, S), NEW n \in 1..Len(s)
    PROVE  Lists(RemoveAt(s, n), S \ {s[n]})
<1> DEFINE a == SubSeq(s, 1, n - 1)
           b == SubSeq(s, n + 1, Len(s))
           t == a \o b
<1>1. Len(s) \in Nat /\ s \in Seq(Chunk) /\ n \in Nat /\ 1 <= n /\ n <= Len(s)
  BY ListFacts DEF Lists
<1>2. /\ a \in Seq(Chunk) /\ Len(a) = n - 1
      /\ \A i \in 1..n - 1 : a[i] = s[i]
  <2>1. \A i \in 1..n - 1 : s[i] \in Chunk
    BY <1>1, ListFacts
  <2> QED
    BY <1>1, <2>1, SubSeqProperties
<1>3. /\ b \in Seq(Chunk) /\ Len(b) = Len(s) - n
      /\ \A i \in 1..Len(s) - n : b[i] = s[n + i]
  <2>1. \A i \in n + 1..Len(s) : s[i] \in Chunk
    BY <1>1, ListFacts
  <2>2. /\ b \in Seq(Chunk)
        /\ Len(b) = IF n + 1 <= Len(s) THEN Len(s) - (n + 1) + 1 ELSE 0
        /\ \A i \in 1..Len(s) - (n + 1) + 1 : b[i] = s[(n + 1) + i - 1]
    BY <1>1, <2>1, SubSeqProperties
  <2> HIDE DEF b
  <2>3. Len(b) = Len(s) - n /\ Len(s) - (n + 1) + 1 = Len(s) - n
    BY <2>2, <1>1
  <2>4. \A i \in 1..Len(s) - n : (n + 1) + i - 1 = n + i
    BY <1>1
  <2> QED
    BY <2>2, <2>3, <2>4
<1> HIDE DEF a, b
<1>4. /\ t \in Seq(Chunk) /\ Len(t) = Len(s) - 1
      /\ \A i \in 1..Len(s) - 1 : t[i] = IF i <= n - 1 THEN a[i] ELSE b[i - (n - 1)]
  <2>1. /\ t \in Seq(Chunk) /\ Len(t) = Len(a) + Len(b)
        /\ \A i \in 1..Len(a) + Len(b) : t[i] = IF i <= Len(a) THEN a[i] ELSE b[i - Len(a)]
    BY <1>2, <1>3, ConcatProperties
  <2>2. Len(a) + Len(b) = Len(s) - 1
    BY <1>1, <1>2, <1>3
  <2> HIDE DEF t
  <2> QED
    BY <2>1, <2>2, <1>2
<1> HIDE DEF t
<1>5. \A i \in 1..Len(s) - 1 : t[i] = s[IF i < n THEN i ELSE i + 1]
  <2> TAKE i \in 1..Len(s) - 1
  <2>1. CASE i < n
    BY <2>1, <1>1, <1>2, <1>4
  <2>2. CASE ~(i < n)
    <3>1. i - (n - 1) \in 1..Len(s) - n /\ n + (i - (n - 1)) = i + 1
      BY <2>2, <1>1
    <3> QED
      BY <2>2, <3>1, <1>1, <1>3, <1>4
  <2> QED
    BY <2>1, <2>2
<1> DEFINE at(i) == IF i < n THEN i ELSE i + 1
<1>6. \A i \in 1..Len(s) - 1 : at(i) \in 1..Len(s) /\ at(i) # n
  BY <1>1
<1>7. \A i, j \in 1..Len(s) - 1 : at(i) = at(j) => i = j
  BY <1>1
<1>8. \A k \in 1..Len(s) : k # n => \E i \in 1..Len(s) - 1 : at(i) = k
  <2> TAKE k \in 1..Len(s)
  <2>1. k < n => k \in 1..Len(s) - 1 /\ at(k) = k
    BY <1>1
  <2>2. k > n => k - 1 \in 1..Len(s) - 1 /\ at(k - 1) = k
    BY <1>1
  <2>3. k < n \/ k > n \/ k = n
    BY <1>1
  <2> HIDE DEF at
  <2> QED
    BY <2>1, <2>2, <2>3
<1>9. \A i \in 1..Len(t) : t[i] = s[at(i)]
  BY <1>4, <1>5
<1> HIDE DEF at
<1>10. \A i, j \in 1..Len(t) : t[i] = t[j] => i = j
  <2> TAKE i, j \in 1..Len(t)
  <2>1. \A k, l \in 1..Len(s) : s[k] = s[l] => k = l
    BY ListFacts
  <2>2. at(i) \in 1..Len(s) /\ at(j) \in 1..Len(s) /\ (at(i) = at(j) => i = j)
    BY <1>4, <1>6, <1>7
  <2> QED
    BY <2>1, <2>2, <1>9
<1>11. \A i \in 1..Len(t) : t[i] \in S \ {s[n]}
  BY <1>4, <1>6, <1>9, ListFacts
<1>12. \A c \in S \ {s[n]} : \E i \in 1..Len(t) : t[i] = c
  <2> TAKE c \in S \ {s[n]}
  <2>1. PICK k \in 1..Len(s) : s[k] = c
    BY ListFacts
  <2>2. PICK i \in 1..Len(s) - 1 : at(i) = k
    BY <2>1, <1>8
  <2> QED
    BY <2>1, <2>2, <1>4, <1>9
<1>13. Lists(t, S \ {s[n]})
  BY <1>4, <1>10, <1>11, <1>12, IsListing
<1> QED
  BY <1>13 DEF RemoveAt, t, a, b

\* The last chunk erased from a list.
LEMMA FrontLists ==
    ASSUME NEW s, NEW S, Lists(s, S), s # <<>>
    PROVE  Lists(Front(s), S \ {Last(s)})
<1> DEFINE t == SubSeq(s, 1, Len(s) - 1)
<1>1. Len(s) \in Nat /\ Len(s) >= 1
  BY ListFacts, EmptySeq DEF Lists
<1>2. /\ t \in Seq(Chunk) /\ Len(t) = Len(s) - 1
      /\ \A i \in 1..Len(s) - 1 : t[i] = s[i]
  <2>1. \A i \in 1..Len(s) - 1 : s[i] \in Chunk
    BY <1>1, ListFacts
  <2>2. /\ t \in Seq(Chunk)
        /\ Len(t) = IF 1 <= Len(s) - 1 THEN (Len(s) - 1) - 1 + 1 ELSE 0
        /\ \A i \in 1..(Len(s) - 1) - 1 + 1 : t[i] = s[1 + i - 1]
    BY <1>1, <2>1, SubSeqProperties
  <2> HIDE DEF t
  <2>3. (Len(s) - 1) - 1 + 1 = Len(s) - 1 /\ (1 <= Len(s) - 1 \/ Len(s) - 1 = 0)
    <3>1. \A k \in Nat : k >= 1 => (k - 1) - 1 + 1 = k - 1 /\ (1 <= k - 1 \/ k - 1 = 0)
      OBVIOUS
    <3> QED
      BY <3>1, <1>1
  <2>5. Len(t) = Len(s) - 1
    BY <2>2, <2>3
  <2>4. \A i \in 1..Len(s) - 1 : 1 + i - 1 = i
    BY <1>1
  <2> QED
    BY <2>2, <2>3, <2>4, <2>5
<1> HIDE DEF t
<1>3. \A i \in 1..Len(t) : i \in 1..Len(s) /\ i # Len(s) /\ t[i] = s[i]
  BY <1>1, <1>2
<1>4. \A i, j \in 1..Len(t) : t[i] = t[j] => i = j
  BY <1>3, ListFacts
<1>5. \A i \in 1..Len(t) : t[i] \in S \ {s[Len(s)]}
  <2>1. Len(s) \in 1..Len(s)
    BY <1>1
  <2> QED
    BY <2>1, <1>3, ListFacts
<1>6. \A c \in S \ {s[Len(s)]} : \E i \in 1..Len(t) : t[i] = c
  <2> TAKE c \in S \ {s[Len(s)]}
  <2>1. PICK k \in 1..Len(s) : s[k] = c
    BY ListFacts
  <2>2. k \in 1..Len(t)
    BY <2>1, <1>1, <1>2
  <2> QED
    BY <2>1, <2>2, <1>3
<1>7. Lists(t, S \ {s[Len(s)]})
  BY <1>2, <1>4, <1>5, <1>6, IsListing
<1> QED
  BY <1>7 DEF Front, Last, t

\* Sorting: the chunks are listed once each, with the highest, or the lowest, last.
LEMMA SortedLists ==
    ASSUME NEW S, IsFiniteSet(S), S \subseteq Chunk, \A c, d \in S : c.ptr = d.ptr => c = d
    PROVE  /\ Lists(Ascending(S), S) /\ Lists(Descending(S), S)
           /\ \A c \in S : c.ptr <= Last(Ascending(S)).ptr /\ Last(Descending(S)).ptr <= c.ptr
<1> DEFINE n == Cardinality(S)
           below(c) == {d \in S : d.ptr < c.ptr}
           rank(c) == Cardinality(below(c))
           up == Ascending(S)
           down == Descending(S)
<1>1. n \in Nat
  BY FS_CardinalityType
<1>2. \A c \in S : c.ptr \in Nat
  BY DEF Chunk
<1>3. ASSUME NEW c \in S
      PROVE  IsFiniteSet(below(c)) /\ rank(c) \in Nat /\ rank(c) <= n - 1
  <2>1. below(c) \in SUBSET S /\ c \in S \ below(c)
    BY <1>2
  <2>2. IsFiniteSet(below(c)) /\ rank(c) <= n /\ rank(c) # n
    BY <2>1, FS_Subset
  <2>3. rank(c) \in Nat
    BY <2>2, FS_CardinalityType
  <2> HIDE DEF rank, n, below
  <2> QED
    BY <2>2, <2>3, <1>1
<1>4. ASSUME NEW c \in S, NEW d \in S, c.ptr < d.ptr PROVE rank(c) < rank(d)
  <2>1. below(c) \in SUBSET below(d) /\ c \in below(d) /\ c \notin below(c)
    BY <1>2, <1>4
  <2>2. IsFiniteSet(below(d))
    BY <1>3
  <2>3. rank(c) <= rank(d) /\ rank(c) # rank(d)
    BY <2>1, <2>2, FS_Subset
  <2>4. rank(c) \in Nat /\ rank(d) \in Nat
    BY <1>3
  <2> HIDE DEF rank, below
  <2> QED
    BY <2>3, <2>4
<1> HIDE DEF rank, below
<1>5. \A c, d \in S : rank(c) = rank(d) => c = d
  <2> TAKE c, d \in S
  <2>1. rank(c) \in Nat /\ rank(d) \in Nat
    BY <1>3
  <2> QED
    BY <2>1, <1>2, <1>4
<1>6. \A k \in 0..n - 1 : \E c \in S : rank(c) = k
  <2> DEFINE f == [c \in S |-> rank(c)]
  <2>1. f \in Injection(S, 0..n - 1)
    <3>1. \A c \in S : rank(c) \in 0..n - 1
      BY <1>1, <1>3
    <3> QED
      BY <3>1, <1>5 DEF Injection, IsInjective
  <2>2. IsFiniteSet(0..n - 1) /\ Cardinality(0..n - 1) = n
    <3>1. 0 \in Int /\ n - 1 \in Int
      BY <1>1
    <3>2. IsFiniteSet(0..n - 1) /\ Cardinality(0..n - 1) = IF 0 > n - 1 THEN 0 ELSE (n - 1) - 0 + 1
      BY <3>1, FS_Interval
    <3> HIDE DEF n
    <3> QED
      BY <3>2, <1>1
  <2>3. f \in Surjection(S, 0..n - 1)
    BY <2>1, <2>2, FS_Injection
  <2> QED
    BY <2>3 DEF Surjection
<1> HIDE DEF n
<1>7. up = [i \in 1..n |-> CHOOSE c \in S : rank(c) = i - 1]
  BY DEF Ascending, rank, below, n
<1>8. \A i \in 1..n : up[i] \in S /\ rank(up[i]) = i - 1
  <2> TAKE i \in 1..n
  <2>1. i - 1 \in 0..n - 1
    BY <1>1
  <2>2. \E c \in S : rank(c) = i - 1
    BY <2>1, <1>6
  <2>3. up[i] = CHOOSE c \in S : rank(c) = i - 1
    BY <1>7
  <2> QED
    BY <2>2, <2>3
<1>9. up \in Seq(Chunk) /\ Len(up) = n
  <2>1. \A i \in 1..n : up[i] \in Chunk
    BY <1>8
  <2>2. up \in [1..n -> Chunk]
    BY <2>1, <1>7
  <2> HIDE DEF up
  <2> QED
    BY <2>2, <1>1
<1> HIDE DEF up
<1>10. \A i, j \in 1..n : up[i] = up[j] => i = j
  <2> TAKE i, j \in 1..n
  <2>1. rank(up[i]) = i - 1 /\ rank(up[j]) = j - 1
    BY <1>8
  <2> QED
    BY <2>1, <1>1
<1>11. \A c \in S : \E i \in 1..n : up[i] = c
  <2> TAKE c \in S
  <2>1. rank(c) + 1 \in 1..n /\ (rank(c) + 1) - 1 = rank(c)
    BY <1>1, <1>3
  <2>2. up[rank(c) + 1] \in S /\ rank(up[rank(c) + 1]) = rank(c)
    BY <2>1, <1>8
  <2>3. up[rank(c) + 1] = c
    BY <2>2, <1>5
  <2> QED
    BY <2>1, <2>3
<1>12. Lists(up, S)
  BY <1>8, <1>9, <1>10, <1>11, IsListing
<1>13. ASSUME NEW c \in S PROVE n \in 1..n /\ 1 \in 1..n /\ c.ptr <= up[n].ptr /\ up[1].ptr <= c.ptr
  <2>1. n \in 1..n /\ 1 \in 1..n /\ rank(c) \in Nat /\ rank(c) <= n - 1
    BY <1>1, <1>3
  <2>2. up[n] \in S /\ rank(up[n]) = n - 1 /\ up[1] \in S /\ rank(up[1]) = 0
    BY <2>1, <1>8
  <2>3. ~(up[n].ptr < c.ptr)
    BY <2>1, <2>2, <1>1, <1>4
  <2>4. ~(c.ptr < up[1].ptr)
    BY <2>1, <2>2, <1>1, <1>4
  <2> QED
    BY <2>1, <2>2, <2>3, <2>4, <1>2
<1>14. /\ down = [i \in 1..n |-> up[(n - i) + 1]]
       /\ \A i \in 1..n : down[i] = up[(n - i) + 1] /\ (n - i) + 1 \in 1..n
  BY <1>1, <1>9 DEF Descending, Reverse, up
<1>15. down \in Seq(Chunk) /\ Len(down) = n
  <2>1. \A i \in 1..n : down[i] \in Chunk
    BY <1>8, <1>14
  <2>2. down \in [1..n -> Chunk]
    BY <2>1, <1>14
  <2> HIDE DEF down
  <2> QED
    BY <2>2, <1>1
<1> HIDE DEF down
<1>16. \A i, j \in 1..n : down[i] = down[j] => i = j
  <2> TAKE i, j \in 1..n
  <2>1. down[i] = down[j] => (n - i) + 1 = (n - j) + 1
    BY <1>10, <1>14
  <2> QED
    BY <2>1, <1>1
<1>17. \A c \in S : \E i \in 1..n : down[i] = c
  <2> TAKE c \in S
  <2>1. PICK i \in 1..n : up[i] = c
    BY <1>11
  <2>2. (n - i) + 1 \in 1..n /\ (n - ((n - i) + 1)) + 1 = i
    BY <1>1
  <2>3. down[(n - i) + 1] = c
    BY <2>1, <2>2, <1>14
  <2> QED
    BY <2>2, <2>3
<1>18. \A i \in 1..n : down[i] \in S
  BY <1>8, <1>14
<1>19. Lists(down, S)
  BY <1>15, <1>16, <1>17, <1>18, IsListing
<1>20. \A c \in S : c.ptr <= Last(up).ptr /\ Last(down).ptr <= c.ptr
  <2> TAKE c \in S
  <2>1. n \in 1..n /\ (n - n) + 1 = 1
    BY <1>1, <1>13
  <2>2. Last(up) = up[n] /\ Last(down) = up[1]
    BY <2>1, <1>9, <1>14, <1>15 DEF Last
  <2> QED
    BY <2>2, <1>13
<1> QED
  BY <1>12, <1>19, <1>20 DEF up, down

-----------------------------------------------------------------------------
(* How the parts of the space lie *)

\* Left bound L, right bound R, freed small chunks S, freed big chunks B and the
\* ranges callers hold A: big chunks lie before L and small ones from R on, a
\* range held lies on one side, nothing overlaps and nothing is missing.
Tiles(L, R, S, B, A) ==
    /\ L \in Nat /\ R \in Nat /\ Base <= L /\ L <= R /\ R <= Base + Size
    /\ Packed(B, Base, L) /\ Packed(S, R, Base + Size) /\ Packed(A, Base, Base + Size)
    /\ \A c \in B : isBig(c.size)
    /\ \A a \in A : (Behind(a) <= L /\ isBig(a.size)) \/ R <= a.ptr
    /\ \A a \in A : \A c \in S \cup B : Apart(a, c)
    /\ \A x \in Nat : Base <= x /\ x < Base + Size =>
           (L <= x /\ x < R) \/ \E c \in A \cup S \cup B : Covers(c, x)

\* The assumptions on the constants, as numbers.
LEMMA HeapFacts ==
    /\ Base \in Nat /\ Size \in Nat /\ Base > 0 /\ Size > 0
    /\ AddressSpace \in Nat /\ Base + 2 * Size < AddressSpace
    /\ sizeThreshold \in Nat
BY HeapAssumption

\* A chunk is not empty.
LEMMA ChunkFacts ==
    ASSUME NEW c \in Chunk
    PROVE  /\ c.ptr \in Nat /\ c.size \in Nat /\ c.size > 0 /\ Behind(c) \in Nat
           /\ Behind(c) = c.ptr + c.size /\ c.ptr < Behind(c)
BY DEF Chunk, Behind

\* Chunks that are not apart have an address in common.
LEMMA NotApart ==
    ASSUME NEW c \in Chunk, NEW d \in Chunk, ~Apart(c, d)
    PROVE  \E x \in Nat : Covers(c, x) /\ Covers(d, x)
<1>1. /\ c.ptr \in Nat /\ Behind(c) \in Nat /\ d.ptr \in Nat /\ Behind(d) \in Nat
      /\ c.ptr < Behind(c) /\ d.ptr < Behind(d)
  BY ChunkFacts
<1>2. c.ptr < Behind(d) /\ d.ptr < Behind(c)
  BY <1>1 DEF Apart
<1>3. CASE c.ptr <= d.ptr
  BY <1>1, <1>2, <1>3 DEF Covers
<1>4. CASE d.ptr <= c.ptr
  BY <1>1, <1>2, <1>4 DEF Covers
<1> QED
  BY <1>1, <1>3, <1>4

\* Chunks that are apart share no address.
LEMMA ApartIsDisjoint ==
    ASSUME NEW c \in Chunk, NEW d \in Chunk, Apart(c, d), NEW x \in Nat, Covers(c, x)
    PROVE  ~Covers(d, x)
BY ChunkFacts DEF Apart, Covers

\* The small chunks may be cut and joined where they lie.
LEMMA RegroupSmall ==
    ASSUME NEW L, NEW R, NEW S, NEW B, NEW A, Tiles(L, R, S, B, A),
           NEW T, Packed(T, R, Base + Size), SameCells(S, T)
    PROVE  Tiles(L, R, T, B, A)
<1>1. ASSUME NEW a \in A, NEW c \in T PROVE Apart(a, c)
  <2>1. a \in Chunk /\ c \in Chunk
    BY DEF Tiles, Packed
  <2>2. ASSUME NEW x \in Nat, Covers(a, x), Covers(c, x) PROVE FALSE
    <3>1. PICK d \in S : Covers(d, x)
      BY <2>2 DEF SameCells
    <3>2. Apart(a, d) /\ d \in Chunk
      BY <3>1 DEF Tiles, Packed
    <3> QED
      BY <2>1, <2>2, <3>1, <3>2, ApartIsDisjoint
  <2> QED
    BY <2>1, <2>2, NotApart
<1>2. ASSUME NEW x \in Nat, \E c \in A \cup S \cup B : Covers(c, x)
      PROVE  \E c \in A \cup T \cup B : Covers(c, x)
  BY <1>2 DEF SameCells
<1> QED
  BY <1>1, <1>2 DEF Tiles

\* So may the big ones, as long as they stay big.
LEMMA RegroupBig ==
    ASSUME NEW L, NEW R, NEW S, NEW B, NEW A, Tiles(L, R, S, B, A),
           NEW T, Packed(T, Base, L), SameCells(B, T), \A c \in T : isBig(c.size)
    PROVE  Tiles(L, R, S, T, A)
<1>1. ASSUME NEW a \in A, NEW c \in T PROVE Apart(a, c)
  <2>1. a \in Chunk /\ c \in Chunk
    BY DEF Tiles, Packed
  <2>2. ASSUME NEW x \in Nat, Covers(a, x), Covers(c, x) PROVE FALSE
    <3>1. PICK d \in B : Covers(d, x)
      BY <2>2 DEF SameCells
    <3>2. Apart(a, d) /\ d \in Chunk
      BY <3>1 DEF Tiles, Packed
    <3> QED
      BY <2>1, <2>2, <3>1, <3>2, ApartIsDisjoint
  <2> QED
    BY <2>1, <2>2, NotApart
<1>2. ASSUME NEW x \in Nat, \E c \in A \cup S \cup B : Covers(c, x)
      PROVE  \E c \in A \cup S \cup T : Covers(c, x)
  BY <1>2 DEF SameCells
<1> QED
  BY <1>1, <1>2 DEF Tiles

\* A freed small chunk goes to a caller.
LEMMA TakeSmall ==
    ASSUME NEW L, NEW R, NEW S, NEW B, NEW A, Tiles(L, R, S, B, A), NEW c \in S
    PROVE  Tiles(L, R, S \ {c}, B, A \cup {c})
<1>1. c \in Chunk /\ R <= c.ptr /\ Behind(c) <= Base + Size /\ R \in Nat /\ L \in Nat /\ Base <= R /\ L <= R
  BY HeapFacts DEF Tiles, Packed
<1>2. Base <= c.ptr
  BY <1>1, HeapFacts, ChunkFacts
<1>3. Packed(A \cup {c}, Base, Base + Size) /\ Packed(S \ {c}, R, Base + Size)
  BY <1>1, <1>2 DEF Tiles, Packed, Apart
<1>4. \A d \in B : Apart(c, d)
  <2> TAKE d \in B
  <2>1. d \in Chunk /\ Behind(d) <= L
    BY DEF Tiles, Packed
  <2> QED
    BY <1>1, <2>1, ChunkFacts DEF Apart
<1>5. \A d \in S \ {c} : Apart(c, d)
  BY DEF Tiles, Packed
<1>6. A \cup S \cup B = (A \cup {c}) \cup (S \ {c}) \cup B
  OBVIOUS
<1> QED
  BY <1>1, <1>3, <1>4, <1>5, <1>6 DEF Tiles

\* A freed big chunk goes to a caller.
LEMMA TakeBig ==
    ASSUME NEW L, NEW R, NEW S, NEW B, NEW A, Tiles(L, R, S, B, A), NEW c \in B
    PROVE  Tiles(L, R, S, B \ {c}, A \cup {c})
<1>1. c \in Chunk /\ Base <= c.ptr /\ Behind(c) <= L /\ R \in Nat /\ L \in Nat /\ L <= R /\ R <= Base + Size /\ isBig(c.size)
  BY DEF Tiles, Packed
<1>2. Behind(c) <= Base + Size
  BY <1>1, HeapFacts, ChunkFacts
<1>3. Packed(A \cup {c}, Base, Base + Size) /\ Packed(B \ {c}, Base, L)
  BY <1>1, <1>2 DEF Tiles, Packed, Apart
<1>4. \A d \in S : Apart(c, d)
  <2> TAKE d \in S
  <2>1. d \in Chunk /\ R <= d.ptr
    BY DEF Tiles, Packed
  <2> QED
    BY <1>1, <2>1, ChunkFacts DEF Apart
<1>5. \A d \in B \ {c} : Apart(c, d)
  BY DEF Tiles, Packed
<1>6. A \cup S \cup B = (A \cup {c}) \cup S \cup (B \ {c})
  OBVIOUS
<1> QED
  BY <1>1, <1>3, <1>4, <1>5, <1>6 DEF Tiles

\* A range from the right comes back.
LEMMA GiveSmall ==
    ASSUME NEW L, NEW R, NEW S, NEW B, NEW A, Tiles(L, R, S, B, A), NEW r \in A, R <= r.ptr
    PROVE  Tiles(L, R, S \cup {r}, B, A \ {r})
<1>1. Packed(S \cup {r}, R, Base + Size) /\ Packed(A \ {r}, Base, Base + Size)
  BY DEF Tiles, Packed, Apart
<1>2. \A a \in A \ {r} : Apart(a, r)
  BY DEF Tiles, Packed
<1>3. A \cup S \cup B = (A \ {r}) \cup (S \cup {r}) \cup B
  OBVIOUS
<1> QED
  BY <1>1, <1>2, <1>3 DEF Tiles

\* A range from the left comes back.
LEMMA GiveBig ==
    ASSUME NEW L, NEW R, NEW S, NEW B, NEW A, Tiles(L, R, S, B, A), NEW r \in A, r.ptr < R
    PROVE  Tiles(L, R, S, B \cup {r}, A \ {r})
<1>1. r \in Chunk /\ Behind(r) <= L /\ isBig(r.size)
  BY ChunkFacts DEF Tiles, Packed
<1>2. Packed(B \cup {r}, Base, L) /\ Packed(A \ {r}, Base, Base + Size)
  BY <1>1 DEF Tiles, Packed, Apart
<1>3. \A a \in A \ {r} : Apart(a, r)
  BY DEF Tiles, Packed
<1>4. A \cup S \cup B = (A \ {r}) \cup S \cup (B \cup {r})
  OBVIOUS
<1> QED
  BY <1>1, <1>2, <1>3, <1>4 DEF Tiles

\* The freed chunk at the right bound joins the middle.
LEMMA WidenRight ==
    ASSUME NEW L, NEW R, NEW S, NEW B, NEW A, Tiles(L, R, S, B, A), NEW c \in S, c.ptr = R
    PROVE  Tiles(L, Behind(c), S \ {c}, B, A)
<1>1. c \in Chunk /\ Behind(c) <= Base + Size /\ R \in Nat /\ L \in Nat /\ L <= R
  BY DEF Tiles, Packed
<1>2. Behind(c) \in Nat /\ R < Behind(c) /\ c.ptr = R
  BY <1>1, ChunkFacts
<1>3. ASSUME NEW d \in Chunk, Apart(d, c) \/ Apart(c, d), R <= d.ptr PROVE Behind(c) <= d.ptr
  BY <1>1, <1>2, <1>3, ChunkFacts DEF Apart
<1>4. Packed(S \ {c}, Behind(c), Base + Size)
  <2>1. \A d \in S \ {c} : d \in Chunk /\ Apart(c, d) /\ R <= d.ptr
    BY DEF Tiles, Packed
  <2>2. \A d \in S \ {c} : Behind(c) <= d.ptr
    BY <2>1, <1>3
  <2> QED
    BY <2>2 DEF Tiles, Packed
<1>5. \A a \in A : (Behind(a) <= L /\ isBig(a.size)) \/ Behind(c) <= a.ptr
  <2>1. \A a \in A : a \in Chunk /\ Apart(a, c)
    BY DEF Tiles, Packed
  <2> QED
    BY <2>1, <1>3 DEF Tiles
<1>6. ASSUME NEW x \in Nat, (L <= x /\ x < R) \/ \E d \in A \cup S \cup B : Covers(d, x)
      PROVE  (L <= x /\ x < Behind(c)) \/ \E d \in A \cup (S \ {c}) \cup B : Covers(d, x)
  <2>1. CASE L <= x /\ x < R
    BY <2>1, <1>1, <1>2
  <2>2. CASE Covers(c, x)
    BY <2>2, <1>1, <1>2 DEF Covers
  <2> QED
    BY <1>6, <2>1, <2>2
<1>7. L <= Behind(c)
  BY <1>1, <1>2
<1> QED
  BY <1>1, <1>2, <1>4, <1>5, <1>6, <1>7 DEF Tiles

\* The freed chunk at the left bound joins the middle.
LEMMA WidenLeft ==
    ASSUME NEW L, NEW R, NEW S, NEW B, NEW A, Tiles(L, R, S, B, A), NEW c \in B, Behind(c) = L
    PROVE  Tiles(c.ptr, R, S, B \ {c}, A)
<1>1. c \in Chunk /\ Base <= c.ptr /\ R \in Nat /\ L \in Nat /\ L <= R
  BY DEF Tiles, Packed
<1>2. c.ptr \in Nat /\ c.ptr < L
  BY <1>1, ChunkFacts
<1>3. ASSUME NEW d \in Chunk, Apart(d, c) \/ Apart(c, d), Behind(d) <= L PROVE Behind(d) <= c.ptr
  BY <1>1, <1>2, <1>3, ChunkFacts DEF Apart
<1>4. Packed(B \ {c}, Base, c.ptr)
  <2>1. \A d \in B \ {c} : d \in Chunk /\ Apart(c, d) /\ Behind(d) <= L
    BY DEF Tiles, Packed
  <2>2. \A d \in B \ {c} : Behind(d) <= c.ptr
    BY <2>1, <1>3
  <2> QED
    BY <2>2 DEF Tiles, Packed
<1>5. \A a \in A : (Behind(a) <= c.ptr /\ isBig(a.size)) \/ R <= a.ptr
  <2>1. \A a \in A : a \in Chunk /\ Apart(a, c)
    BY DEF Tiles, Packed
  <2> QED
    BY <2>1, <1>3 DEF Tiles
<1>6. ASSUME NEW x \in Nat, (L <= x /\ x < R) \/ \E d \in A \cup S \cup B : Covers(d, x)
      PROVE  (c.ptr <= x /\ x < R) \/ \E d \in A \cup S \cup (B \ {c}) : Covers(d, x)
  <2>1. CASE L <= x /\ x < R
    BY <2>1, <1>1, <1>2
  <2>2. CASE Covers(c, x)
    BY <2>2, <1>1, <1>2 DEF Covers
  <2> QED
    BY <1>6, <2>1, <2>2
<1>7. c.ptr <= R
  BY <1>1, <1>2
<1> QED
  BY <1>1, <1>2, <1>4, <1>5, <1>6, <1>7 DEF Tiles

\* A big range is carved from the left end of the middle.
LEMMA CarveLeft ==
    ASSUME NEW L, NEW R, NEW S, NEW B, NEW A, Tiles(L, R, S, B, A),
           NEW n \in Nat \ {0}, L + n <= R, isBig(n)
    PROVE  Tiles(L + n, R, S, B, A \cup {[ptr |-> L, size |-> n]})
<1> DEFINE r == [ptr |-> L, size |-> n]
<1>1. L \in Nat /\ R \in Nat /\ Base <= L /\ R <= Base + Size
  BY DEF Tiles
<1>2. r \in Chunk /\ Behind(r) = L + n /\ r.ptr = L /\ r.size = n /\ L + n \in Nat /\ L < L + n
  BY <1>1 DEF Chunk, Behind
<1>3. \A x \in Nat : Covers(r, x) <=> L <= x /\ x < L + n
  BY <1>2 DEF Covers
<1> HIDE DEF r
<1>4. Packed(B, Base, L + n)
  <2>1. \A c \in B : c \in Chunk /\ Behind(c) <= L
    BY DEF Tiles, Packed
  <2>2. \A c \in B : Behind(c) <= L + n
    BY <2>1, <1>1, <1>2, ChunkFacts
  <2> QED
    BY <2>2 DEF Tiles, Packed
<1>5. ASSUME NEW c \in A \cup S \cup B PROVE c \in Chunk /\ Apart(c, r) /\ Apart(r, c)
  <2>1. c \in Chunk /\ (Behind(c) <= L \/ R <= c.ptr)
    BY DEF Tiles, Packed
  <2> QED
    BY <2>1, <1>1, <1>2, ChunkFacts DEF Apart
<1>6. Packed(A \cup {r}, Base, Base + Size)
  <2>1. Base <= r.ptr /\ Behind(r) <= Base + Size
    BY <1>1, <1>2, HeapFacts
  <2> QED
    BY <2>1, <1>2, <1>5 DEF Tiles, Packed
<1>7. \A a \in A \cup {r} : (Behind(a) <= L + n /\ isBig(a.size)) \/ R <= a.ptr
  <2>1. \A a \in A : Behind(a) <= L => Behind(a) <= L + n
    BY <1>1, <1>2, <1>5, ChunkFacts
  <2> QED
    BY <2>1, <1>2 DEF Tiles
<1>8. ASSUME NEW x \in Nat, (L <= x /\ x < R) \/ \E d \in A \cup S \cup B : Covers(d, x)
      PROVE  (L + n <= x /\ x < R) \/ \E d \in (A \cup {r}) \cup S \cup B : Covers(d, x)
  <2>1. CASE L <= x /\ x < R
    BY <2>1, <1>1, <1>2, <1>3
  <2> QED
    BY <1>8, <2>1
<1>9. Base <= L + n
  BY <1>1, <1>2, HeapFacts
<1>10. Tiles(L + n, R, S, B, A \cup {r})
  BY <1>1, <1>2, <1>4, <1>5, <1>6, <1>7, <1>8, <1>9 DEF Tiles
<1> QED
  BY <1>10 DEF r

\* A range is carved from the right end of the middle.
LEMMA CarveRight ==
    ASSUME NEW L, NEW R, NEW S, NEW B, NEW A, Tiles(L, R, S, B, A),
           NEW n \in Nat \ {0}, n <= R, L <= R - n
    PROVE  Tiles(L, R - n, S, B, A \cup {[ptr |-> R - n, size |-> n]})
<1> DEFINE r == [ptr |-> R - n, size |-> n]
<1>1. L \in Nat /\ R \in Nat /\ Base <= L /\ R <= Base + Size /\ R - n \in Nat /\ R - n < R
  BY DEF Tiles
<1>2. r \in Chunk /\ Behind(r) = R /\ r.ptr = R - n /\ r.size = n
  BY <1>1 DEF Chunk, Behind
<1>3. \A x \in Nat : Covers(r, x) <=> R - n <= x /\ x < R
  BY <1>2 DEF Covers
<1> HIDE DEF r
<1>4. Packed(S, R - n, Base + Size)
  <2>1. \A c \in S : c \in Chunk /\ R <= c.ptr
    BY DEF Tiles, Packed
  <2>2. \A c \in S : R - n <= c.ptr
    BY <2>1, <1>1, ChunkFacts
  <2> QED
    BY <2>2 DEF Tiles, Packed
<1>5. ASSUME NEW c \in A \cup S \cup B PROVE c \in Chunk /\ Apart(c, r) /\ Apart(r, c)
  <2>1. c \in Chunk /\ (Behind(c) <= L \/ R <= c.ptr)
    BY DEF Tiles, Packed
  <2> QED
    BY <2>1, <1>1, <1>2, ChunkFacts DEF Apart
<1>6. Packed(A \cup {r}, Base, Base + Size)
  <2>1. Base <= r.ptr /\ Behind(r) <= Base + Size
    BY <1>1, <1>2, HeapFacts
  <2> QED
    BY <2>1, <1>2, <1>5 DEF Tiles, Packed
<1>7. \A a \in A \cup {r} : (Behind(a) <= L /\ isBig(a.size)) \/ R - n <= a.ptr
  <2>1. \A a \in A : R <= a.ptr => R - n <= a.ptr
    BY <1>1, <1>5, ChunkFacts
  <2> QED
    BY <2>1, <1>1, <1>2 DEF Tiles
<1>8. ASSUME NEW x \in Nat, (L <= x /\ x < R) \/ \E d \in A \cup S \cup B : Covers(d, x)
      PROVE  (L <= x /\ x < R - n) \/ \E d \in (A \cup {r}) \cup S \cup B : Covers(d, x)
  <2>1. CASE L <= x /\ x < R
    BY <2>1, <1>1, <1>2, <1>3
  <2> QED
    BY <1>8, <2>1
<1>9. R - n <= Base + Size
  BY <1>1, HeapFacts
<1>10. Tiles(L, R - n, S, B, A \cup {r})
  BY <1>1, <1>2, <1>4, <1>5, <1>6, <1>7, <1>8, <1>9 DEF Tiles
<1> QED
  BY <1>10 DEF r

-----------------------------------------------------------------------------
(* The operations on one list *)

\* Two chunks that touch become one.
LEMMA JoinTwo ==
    ASSUME NEW lo \in Nat, NEW hi \in Nat, NEW S, Packed(S, lo, hi),
           NEW c \in S, NEW r \in S, Behind(c) = r.ptr,
           NEW j, j = [ptr |-> c.ptr, size |-> c.size + r.size],
           NEW T, T = (S \ {c, r}) \cup {j}
    PROVE  j \in Chunk /\ j \notin S \ {c, r} /\ Packed(T, lo, hi) /\ SameCells(S, T)
<1>1. c \in Chunk /\ r \in Chunk /\ lo <= c.ptr /\ Behind(r) <= hi
  BY DEF Packed
<1>2. /\ c.ptr \in Nat /\ c.size \in Nat /\ r.ptr \in Nat /\ r.size \in Nat /\ c.size > 0 /\ r.size > 0
      /\ Behind(c) = c.ptr + c.size /\ Behind(r) = r.ptr + r.size
      /\ Behind(c) \in Nat /\ Behind(r) \in Nat /\ c.ptr < r.ptr /\ r.ptr < Behind(r)
  BY <1>1, ChunkFacts
<1>3. j \in Chunk /\ j.ptr = c.ptr /\ j.size = c.size + r.size /\ Behind(j) = Behind(r)
  <2>1. j.ptr = c.ptr /\ j.size = c.size + r.size /\ j \in Chunk
    BY <1>2 DEF Chunk
  <2> QED
    BY <2>1, <1>2 DEF Behind
<1>4. \A x \in Nat : Covers(j, x) <=> Covers(c, x) \/ Covers(r, x)
  <2> TAKE x \in Nat
  <2>1. Covers(j, x) <=> c.ptr <= x /\ x < Behind(r)
    BY <1>3 DEF Covers
  <2>2. Covers(c, x) <=> c.ptr <= x /\ x < r.ptr
    BY DEF Covers
  <2>3. Covers(r, x) <=> r.ptr <= x /\ x < Behind(r)
    BY DEF Covers
  <2> QED
    BY <2>1, <2>2, <2>3, <1>2
<1>5. ASSUME NEW d \in S \ {c, r} PROVE d \in Chunk /\ Apart(d, j) /\ Apart(j, d) /\ d # j
  <2>1. d \in Chunk /\ Apart(d, c) /\ Apart(d, r)
    BY DEF Packed
  <2>2. d.ptr \in Nat /\ Behind(d) \in Nat /\ d.ptr < Behind(d)
    BY <2>1, ChunkFacts
  <2>3. Apart(d, j) /\ Apart(j, d)
    BY <2>1, <2>2, <1>2, <1>3 DEF Apart
  <2>4. ~Apart(j, j)
    BY <1>3, ChunkFacts DEF Apart
  <2> QED
    BY <2>1, <2>3, <2>4
<1>6. Packed(T, lo, hi)
  BY <1>1, <1>3, <1>5 DEF Packed
<1>7. SameCells(S, T)
  BY <1>4 DEF SameCells
<1> QED
  BY <1>3, <1>5, <1>6, <1>7

\* A chunk is cut in two.
LEMMA CutTwo ==
    ASSUME NEW lo \in Nat, NEW hi \in Nat, NEW S, Packed(S, lo, hi), NEW c \in S,
           NEW n \in Nat \ {0}, n < c.size,
           NEW low, low = [ptr |-> c.ptr, size |-> c.size - n],
           NEW up, up = [ptr |-> c.ptr + (c.size - n), size |-> n],
           NEW T, T = (S \ {c}) \cup {low, up}
    PROVE  /\ low \in Chunk /\ up \in Chunk /\ low \notin S \ {c} /\ up \notin (S \ {c}) \cup {low}
           /\ Packed(T, lo, hi) /\ SameCells(S, T)
<1>1. c \in Chunk /\ lo <= c.ptr /\ Behind(c) <= hi
  BY DEF Packed
<1>2. c.ptr \in Nat /\ c.size \in Nat /\ Behind(c) = c.ptr + c.size
  BY <1>1, ChunkFacts
<1>3. /\ low \in Chunk /\ low.ptr = c.ptr /\ Behind(low) = up.ptr /\ low.ptr < up.ptr
      /\ up \in Chunk /\ up.ptr \in Nat /\ Behind(up) = Behind(c) /\ up.ptr < Behind(c)
  <2>1. low.ptr = c.ptr /\ low.size = c.size - n /\ up.ptr = c.ptr + (c.size - n) /\ up.size = n
    OBVIOUS
  <2>2. low \in Chunk /\ up \in Chunk
    BY <1>2 DEF Chunk
  <2> QED
    BY <2>1, <2>2, <1>2 DEF Behind
<1>4. \A x \in Nat : Covers(c, x) <=> Covers(low, x) \/ Covers(up, x)
  BY <1>2, <1>3 DEF Covers
<1>5. ASSUME NEW d \in S \ {c}
      PROVE d \in Chunk /\ Apart(d, low) /\ Apart(low, d) /\ Apart(d, up) /\ Apart(up, d) /\ d # low /\ d # up
  <2>1. d \in Chunk /\ Apart(d, c)
    BY DEF Packed
  <2>2. d.ptr \in Nat /\ Behind(d) \in Nat /\ d.ptr < Behind(d)
    BY <2>1, ChunkFacts
  <2>3. Apart(d, low) /\ Apart(low, d) /\ Apart(d, up) /\ Apart(up, d)
    BY <2>1, <2>2, <1>2, <1>3 DEF Apart
  <2>4. ~Apart(low, low) /\ ~Apart(up, up)
    BY <1>3, ChunkFacts DEF Apart
  <2> QED
    BY <2>1, <2>3, <2>4
<1>6. Apart(low, up) /\ Apart(up, low) /\ low # up /\ lo <= up.ptr /\ Behind(low) <= hi
  BY <1>1, <1>2, <1>3 DEF Apart
<1>7. Packed(T, lo, hi)
  BY <1>1, <1>3, <1>5, <1>6 DEF Packed
<1>8. SameCells(S, T)
  BY <1>4 DEF SameCells
<1> QED
  BY <1>3, <1>5, <1>6, <1>7, <1>8

\* The search settles on a chunk that fits, if there is one.
LEMMA BestFitFits ==
    ASSUME NEW s, NEW S, Lists(s, S), NEW n \in Nat \ {0}
    PROVE  \/ BestFit(n, s) = 0 /\ \A c \in S : c.size < n
           \/ BestFit(n, s) \in 1..Len(s) /\ BestFit(n, s) # 0 /\ s[BestFit(n, s)].size >= n
<1> DEFINE Fit == {i \in DOMAIN s : s[i].size >= n}
           Better(i, j) == \/ s[i].size < s[j].size
                           \/ s[i].size = s[j].size /\ i < j
<1>1. DOMAIN s = 1..Len(s) /\ Len(s) \in Nat /\ \A i \in 1..Len(s) : s[i].size \in Nat
  BY ListFacts, ChunkFacts
<1>2. BestFit(n, s) = IF Fit = {} THEN 0 ELSE CHOOSE i \in Fit : \A j \in Fit \ {i} : Better(i, j)
  BY DEF BestFit
<1>3. CASE Fit = {}
  <2>1. \A i \in 1..Len(s) : s[i].size < n
    BY <1>1, <1>3
  <2>2. \A c \in S : \E i \in 1..Len(s) : s[i] = c
    BY ListFacts
  <2> QED
    BY <1>2, <1>3, <2>1, <2>2
<1>4. CASE Fit # {}
  <2> DEFINE sizes == {s[i].size : i \in Fit}
  <2>1. sizes \in SUBSET Nat /\ sizes # {}
    BY <1>1, <1>4
  <2>2. PICK m \in sizes : \A k \in sizes : m <= k
    BY <2>1, LeastNatural
  <2> DEFINE firsts == {i \in Fit : s[i].size = m}
  <2>3. firsts \in SUBSET Nat /\ firsts # {}
    BY <1>1, <2>2
  <2>4. PICK f \in firsts : \A i \in firsts : f <= i
    BY <2>3, LeastNatural
  <2>5. ASSUME NEW j \in Fit \ {f} PROVE Better(f, j)
    <3>1. s[f].size = m /\ m <= s[j].size /\ m \in Nat /\ s[j].size \in Nat /\ f \in Nat /\ j \in Nat
      BY <1>1, <2>2, <2>4
    <3>2. s[j].size = m => f <= j
      BY <2>4
    <3> QED
      BY <3>1, <3>2
  <2>6. \E i \in Fit : \A j \in Fit \ {i} : Better(i, j)
    BY <2>4, <2>5
  <2> HIDE DEF Better
  <2>7. BestFit(n, s) \in Fit
    BY <1>2, <1>4, <2>6
  <2> QED
    BY <2>7, <1>1
<1> QED
  BY <1>3, <1>4

\* What a search for n among the chunks of S may return: nothing, if no chunk is large
\* enough, or a chunk of the list, perhaps after one of its chunks was cut in two.
Got(got, S, n, lo, hi) ==
    \/ got.ptr = 0 /\ \A c \in S : c.size < n
    \/ /\ got.ptr # 0
       /\ \E T, r : /\ Packed(T, lo, hi) /\ SameCells(S, T)
                   /\ r = [ptr |-> got.ptr, size |-> got.size] /\ r \in T
                   /\ Lists(got.chunks, T \ {r})
                   /\ \A d \in T : d \in S \/ d.size >= n

\* getFromFreedChunks.
LEMMA GetTakes ==
    ASSUME NEW lo \in Nat, NEW hi \in Nat, 0 < lo, hi < AddressSpace, AddressSpace \in Nat,
           NEW s, NEW S, Lists(s, S), Packed(S, lo, hi), NEW n \in Nat \ {0}
    PROVE  Got(getFromFreedChunks(n, s), S, n, lo, hi)
<1> DEFINE i == BestFit(n, s)
           got == getFromFreedChunks(n, s)
           c == s[i]
           rest == c.size - n
<1>1. CASE i = 0
  <2>1. \A d \in S : d.size < n
    BY <1>1, BestFitFits
  <2>2. got.ptr = 0
    BY <1>1 DEF getFromFreedChunks
  <2> QED
    BY <2>1, <2>2 DEF Got
<1>2. CASE i # 0
  <2>1. i \in 1..Len(s) /\ c.size >= n /\ c \in S /\ c \in Chunk
    BY <1>2, BestFitFits, ListFacts
  <2>2. c.ptr \in Nat /\ c.size \in Nat /\ Behind(c) = c.ptr + c.size /\ lo <= c.ptr /\ Behind(c) <= hi
    BY <2>1, ChunkFacts DEF Packed
  <2>3. CASE c.size < 2 * n
    <3>1. got = [ptr |-> c.ptr, size |-> c.size, chunks |-> RemoveAt(s, i)]
      BY <1>2, <2>3 DEF getFromFreedChunks
    <3>2. [ptr |-> got.ptr, size |-> got.size] = c
      BY <3>1, <2>1 DEF Chunk
    <3>3. Lists(got.chunks, S \ {c})
      BY <2>1, <3>1, RemoveAtLists
    <3>4. SameCells(S, S) /\ got.ptr # 0
      BY <2>2, <3>1 DEF SameCells
    <3> HIDE DEF got, c
    <3>5. \E T, r : /\ Packed(T, lo, hi) /\ SameCells(S, T)
                   /\ r = [ptr |-> got.ptr, size |-> got.size] /\ r \in T
                   /\ Lists(got.chunks, T \ {r})
                   /\ \A d \in T : d \in S \/ d.size >= n
      <4> WITNESS S, c
      <4> QED
        BY <2>1, <3>2, <3>3, <3>4
    <3>6. Got(got, S, n, lo, hi)
      BY <3>4, <3>5 DEF Got
    <3> QED
      BY <3>6 DEF got
  <2>4. CASE ~(c.size < 2 * n)
    <3> DEFINE low == [ptr |-> c.ptr, size |-> rest]
               up == [ptr |-> c.ptr + rest, size |-> n]
               T == (S \ {c}) \cup {low, up}
    <3>1. n < c.size /\ rest \in Nat /\ rest >= n /\ c.ptr + rest \in Nat /\ c.ptr + rest < AddressSpace
      BY <2>2, <2>4
    <3>2. /\ low \in Chunk /\ low \notin S \ {c} /\ up \notin (S \ {c}) \cup {low}
          /\ Packed(T, lo, hi) /\ SameCells(S, T)
      <4>1. low = [ptr |-> c.ptr, size |-> c.size - n] /\ up = [ptr |-> c.ptr + (c.size - n), size |-> n]
        OBVIOUS
      <4>2. T = (S \ {c}) \cup {low, up}
        OBVIOUS
      <4>3. c \in S /\ n < c.size
        BY <2>1, <3>1
      <4> HIDE DEF c, low, up, T, rest
      <4> QED
        BY <4>1, <4>2, <4>3, CutTwo
    <3>3. Plus(c.ptr, rest) = c.ptr + rest
      BY <3>1, SmallRemainder DEF Plus
    <3>4. got = [ptr |-> c.ptr + rest, size |-> n, chunks |-> [s EXCEPT ![i].size = rest]]
      BY <1>2, <2>4, <3>3 DEF getFromFreedChunks
    <3>5. [s EXCEPT ![i].size = rest] = [s EXCEPT ![i] = low]
      <4>1. [c EXCEPT !.size = rest] = low
        BY <2>1 DEF Chunk
      <4> QED
        BY <4>1
    <3>6. Lists(got.chunks, (S \ {c}) \cup {low})
      <4>1. got.chunks = [s EXCEPT ![i] = low]
        BY <3>4, <3>5
      <4> HIDE DEF got, low, i
      <4> QED
        BY <4>1, <2>1, <3>2, ExceptLists
    <3>7. [ptr |-> got.ptr, size |-> got.size] = up
      BY <3>4
    <3>8. T \ {up} = (S \ {c}) \cup {low}
      BY <3>2
    <3>9. \A d \in T : d \in S \/ d.size >= n
      BY <3>1
    <3>10. got.ptr # 0
      BY <3>1, <3>4, <2>2
    <3> HIDE DEF got, low, up, T
    <3>11. \E Q, r : /\ Packed(Q, lo, hi) /\ SameCells(S, Q)
                    /\ r = [ptr |-> got.ptr, size |-> got.size] /\ r \in Q
                    /\ Lists(got.chunks, Q \ {r})
                    /\ \A d \in Q : d \in S \/ d.size >= n
      <4>1. up \in T
        BY DEF T
      <4> WITNESS T, up
      <4> QED
        BY <4>1, <3>2, <3>6, <3>7, <3>8, <3>9
    <3>12. Got(got, S, n, lo, hi)
      BY <3>10, <3>11 DEF Got
    <3> QED
      BY <3>12 DEF got
  <2> QED
    BY <2>3, <2>4
<1> QED
  BY <1>1, <1>2

\* The list t holds the chunks of P, some of them joined.
Stored(t, P, lo, hi) ==
    \E T : /\ Lists(t, T) /\ Packed(T, lo, hi) /\ SameCells(P, T)
          /\ \A d \in T : \E e \in P : e.size <= d.size

\* What storeInFreedChunks does with a range: it is added, or joined with a chunk.
LEMMA StoreKeeps ==
    ASSUME NEW lo \in Nat, NEW hi \in Nat, hi < AddressSpace, AddressSpace \in Nat,
           NEW s, NEW S, Lists(s, S), NEW r, r \notin S,
           NEW P, P = S \cup {r}, Packed(P, lo, hi)
    PROVE  Stored(storeInFreedChunks(r, s), P, lo, hi)
<1> DEFINE Touching == {k \in DOMAIN s : s[k].ptr = End(r) \/ End(s[k]) = r.ptr}
           i == CHOOSE j \in Touching : \A k \in Touching : j <= k
           t == storeInFreedChunks(r, s)
<1>1. \A c \in S \cup {r} : c \in Chunk /\ End(c) = Behind(c)
  <2> TAKE c \in S \cup {r}
  <2>1. c \in Chunk /\ Behind(c) <= hi
    BY DEF Packed
  <2>2. c.ptr + c.size \in Nat /\ c.ptr + c.size < AddressSpace
    BY <2>1, ChunkFacts
  <2> QED
    BY <2>1, <2>2, SmallRemainder DEF End, Plus, Behind
<1>2. DOMAIN s = 1..Len(s) /\ Len(s) \in Nat /\ \A k \in 1..Len(s) : s[k] \in S
  BY ListFacts
<1>3. CASE Touching = {}
  <2>1. t = Append(s, r)
    BY <1>3 DEF storeInFreedChunks
  <2>2. Lists(t, S \cup {r})
    BY <2>1, <1>1, AppendLists
  <2>3. SameCells(S \cup {r}, S \cup {r})
    BY DEF SameCells
  <2>4. \A d \in S \cup {r} : d.size <= d.size
    BY <1>1, ChunkFacts
  <2> QED
    BY <2>2, <2>3, <2>4 DEF Stored
<1>4. CASE Touching # {}
  <2>1. Touching \in SUBSET Nat
    BY <1>2
  <2>2. \E j \in Touching : \A k \in Touching : j <= k
    BY <2>1, <1>4, LeastNatural
  <2>3. i \in Touching
    BY <2>2
  <2> HIDE DEF i
  <2> DEFINE c == s[i]
             j == [ptr |-> IF c.ptr = Behind(r) THEN r.ptr ELSE c.ptr, size |-> c.size + r.size]
             T == ((S \cup {r}) \ {c, r}) \cup {j}
  <2>4. i \in 1..Len(s) /\ c \in S /\ (c.ptr = Behind(r) \/ Behind(c) = r.ptr)
    BY <1>1, <1>2, <2>3
  <2>5. t = [s EXCEPT ![i] = j]
    <3>1. t = [s EXCEPT ![i] = [ptr |-> IF c.ptr = End(r) THEN r.ptr ELSE c.ptr, size |-> c.size + r.size]]
      BY <1>4 DEF storeInFreedChunks, i
    <3> QED
      BY <3>1, <1>1
  <2>6. /\ c.size \in Nat /\ r.size \in Nat /\ c.ptr \in Nat /\ r.ptr \in Nat
        /\ c.ptr < Behind(c) /\ r.ptr < Behind(r) /\ Behind(r) \in Nat /\ Behind(c) \in Nat
    BY <1>1, <2>4, ChunkFacts
  <2>7. j \in Chunk /\ j \notin S \ {c} /\ Packed(T, lo, hi) /\ SameCells(S \cup {r}, T)
    <3> HIDE DEF c
    <3>1. CASE c.ptr = Behind(r)
      <4>1. j = [ptr |-> r.ptr, size |-> r.size + c.size]
        BY <3>1, <2>6
      <4>2. {c, r} = {r, c}
        OBVIOUS
      <4>3. c \in S \cup {r} /\ r \in S \cup {r} /\ (S \cup {r}) \ {c, r} = S \ {c}
        BY <2>4
      <4>4. T = ((S \cup {r}) \ {r, c}) \cup {j}
        BY <4>2
      <4> HIDE DEF j, T
      <4> QED
        BY <4>1, <4>2, <4>3, <4>4, <3>1, JoinTwo
    <3>2. CASE c.ptr # Behind(r)
      <4>1. j = [ptr |-> c.ptr, size |-> c.size + r.size] /\ Behind(c) = r.ptr
        BY <3>2, <2>4
      <4>3. c \in S \cup {r} /\ r \in S \cup {r} /\ (S \cup {r}) \ {c, r} = S \ {c}
        BY <2>4
      <4>4. T = ((S \cup {r}) \ {c, r}) \cup {j}
        OBVIOUS
      <4> HIDE DEF j, T
      <4> QED
        BY <4>1, <4>3, <4>4, JoinTwo
    <3> QED
      BY <3>1, <3>2
  <2>8. T = (S \ {c}) \cup {j}
    OBVIOUS
  <2>9. Lists(t, T)
    <3> HIDE DEF j, T, t
    <3> QED
      BY <2>4, <2>5, <2>7, <2>8, ExceptLists
  <2>10. \A d \in T : \E e \in S \cup {r} : e.size <= d.size
    <3>1. c.size <= j.size
      BY <2>6
    <3>2. \A d \in S : d.size <= d.size
      BY <1>1, ChunkFacts
    <3> HIDE DEF j
    <3> QED
      BY <3>1, <3>2, <2>4
  <2> HIDE DEF T, t
  <2>11. Stored(t, P, lo, hi)
    BY <2>7, <2>9, <2>10 DEF Stored
  <2> QED
    BY <2>11 DEF t
<1> QED
  BY <1>3, <1>4

-----------------------------------------------------------------------------
(* The operations on the heap *)

HeapType == [pLeftBound : Nat, pRightBound : Nat, availableSize : Int,
             freedChunksSmall : Seq(Chunk), freedChunksBig : Seq(Chunk)]
Small(h) == ToSet(h.freedChunksSmall)
Big(h) == ToSet(h.freedChunksBig)

\* The members of a heap of which callers hold the ranges A.
HeapOK(h, A) ==
    /\ h \in HeapType /\ IsInjective(h.freedChunksSmall) /\ IsInjective(h.freedChunksBig)
    /\ Tiles(h.pLeftBound, h.pRightBound, Small(h), Big(h), A)

\* HeapOK from what its lists hold.
LEMMA HeapIsOK ==
    ASSUME NEW h \in HeapType, NEW S, NEW B, NEW A,
           Lists(h.freedChunksSmall, S), Lists(h.freedChunksBig, B),
           Tiles(h.pLeftBound, h.pRightBound, S, B, A)
    PROVE  HeapOK(h, A) /\ Small(h) = S /\ Big(h) = B
BY DEF HeapOK, Small, Big, Lists

\* What HeapOK gives.
LEMMA OKHeapLists ==
    ASSUME NEW h, NEW A, HeapOK(h, A)
    PROVE  /\ h \in HeapType
           /\ Lists(h.freedChunksSmall, Small(h)) /\ Lists(h.freedChunksBig, Big(h))
           /\ Tiles(h.pLeftBound, h.pRightBound, Small(h), Big(h), A)
           /\ Packed(Small(h), h.pRightBound, Base + Size) /\ Packed(Big(h), Base, h.pLeftBound)
BY DEF HeapOK, HeapType, Small, Big, Lists, Tiles

\* Sums of the addresses of a heap do not wrap around.
LEMMA EndIsBehind ==
    ASSUME NEW lo, NEW hi \in Nat, hi <= Base + Size, NEW S, Packed(S, lo, hi), NEW c \in S
    PROVE  End(c) = Behind(c)
<1>1. c \in Chunk /\ Behind(c) <= hi
  BY DEF Packed
<1>2. c.ptr + c.size \in Nat /\ c.ptr + c.size < AddressSpace
  BY <1>1, ChunkFacts, HeapFacts
<1> QED
  BY <1>2, HeapFacts, SmallRemainder DEF End, Plus, Behind

\* mergeLastFreedSmall: nothing, or the last small chunk joins the middle.
LEMMA MergeSmallOK ==
    ASSUME NEW h, NEW A, HeapOK(h, A), NEW g, g = mergeLastFreedSmall(h)
    PROVE  /\ HeapOK(g, A) /\ g.availableSize = h.availableSize
           /\ g.pLeftBound = h.pLeftBound /\ Big(g) = Big(h) /\ g.freedChunksBig = h.freedChunksBig
           /\ \/ /\ Small(g) = Small(h) /\ g.pRightBound = h.pRightBound
                 /\ Small(h) # {} => Last(h.freedChunksSmall).ptr # h.pRightBound
              \/ \E c \in Small(h) : /\ c.ptr = h.pRightBound /\ g.pRightBound = Behind(c)
                                      /\ Small(g) = Small(h) \ {c}
<1> DEFINE s == h.freedChunksSmall
           c == Last(s)
<1>1. /\ h \in HeapType /\ Lists(s, Small(h)) /\ Lists(h.freedChunksBig, Big(h))
      /\ Tiles(h.pLeftBound, h.pRightBound, Small(h), Big(h), A)
      /\ Packed(Small(h), h.pRightBound, Base + Size)
  BY OKHeapLists
<1>2. CASE s # <<>> /\ c.ptr = h.pRightBound
  <2>1. c \in Small(h)
    BY <1>1, <1>2, ListFacts
  <2>2. End(c) = Behind(c)
    BY <1>1, <2>1, HeapFacts, EndIsBehind
  <2>3. g = [h EXCEPT !.pRightBound = Behind(c), !.freedChunksSmall = Front(s)]
    BY <1>2, <2>2 DEF mergeLastFreedSmall
  <2>4. Lists(Front(s), Small(h) \ {c})
    BY <1>1, <1>2, FrontLists
  <2>5. Tiles(h.pLeftBound, Behind(c), Small(h) \ {c}, Big(h), A)
    BY <1>1, <1>2, <2>1, WidenRight
  <2>6. Behind(c) \in Nat /\ Front(s) \in Seq(Chunk)
    BY <2>4, <2>5 DEF Tiles, Lists
  <2> HIDE DEF c, s
  <2>7. /\ g \in HeapType /\ g.pRightBound = Behind(c) /\ g.freedChunksSmall = Front(s)
        /\ g.availableSize = h.availableSize /\ g.pLeftBound = h.pLeftBound
        /\ g.freedChunksBig = h.freedChunksBig
    BY <1>1, <2>3, <2>6 DEF HeapType
  <2>8. HeapOK(g, A) /\ Small(g) = Small(h) \ {c} /\ Big(g) = Big(h)
    BY <1>1, <2>4, <2>5, <2>7, HeapIsOK
  <2> QED
    BY <1>2, <2>1, <2>7, <2>8
<1>3. CASE ~(s # <<>> /\ c.ptr = h.pRightBound)
  <2>1. g = h
    BY <1>3 DEF mergeLastFreedSmall
  <2>2. Small(h) # {} => s # <<>>
    BY <1>1, ListFacts
  <2> QED
    BY <1>3, <2>1, <2>2
<1> QED
  BY <1>2, <1>3

\* mergeLastFreedBig: nothing, or the last big chunk joins the middle.
LEMMA MergeBigOK ==
    ASSUME NEW h, NEW A, HeapOK(h, A), NEW g, g = mergeLastFreedBig(h)
    PROVE  /\ HeapOK(g, A) /\ g.availableSize = h.availableSize
           /\ g.pRightBound = h.pRightBound /\ Small(g) = Small(h)
           /\ \/ /\ Big(g) = Big(h) /\ g.pLeftBound = h.pLeftBound
                 /\ Big(h) # {} => Behind(Last(h.freedChunksBig)) # h.pLeftBound
              \/ \E c \in Big(h) : /\ Behind(c) = h.pLeftBound /\ g.pLeftBound = c.ptr
                                    /\ Big(g) = Big(h) \ {c}
<1> DEFINE s == h.freedChunksBig
           c == Last(s)
<1>1. /\ h \in HeapType /\ Lists(h.freedChunksSmall, Small(h)) /\ Lists(s, Big(h))
      /\ Tiles(h.pLeftBound, h.pRightBound, Small(h), Big(h), A)
      /\ Packed(Big(h), Base, h.pLeftBound)
  BY OKHeapLists
<1>2. h.pLeftBound \in Nat /\ h.pLeftBound <= Base + Size
  BY <1>1, HeapFacts DEF Tiles
<1>3. s # <<>> => c \in Big(h) /\ End(c) = Behind(c)
  BY <1>1, <1>2, ListFacts, EndIsBehind
<1>4. Big(h) # {} => s # <<>>
  BY <1>1, ListFacts
<1>5. CASE s # <<>> /\ End(c) = h.pLeftBound
  <2>1. c \in Big(h) /\ Behind(c) = h.pLeftBound
    BY <1>3, <1>5
  <2>2. g = [h EXCEPT !.pLeftBound = c.ptr, !.freedChunksBig = Front(s)]
    BY <1>5 DEF mergeLastFreedBig
  <2>3. Lists(Front(s), Big(h) \ {c})
    BY <1>1, <1>5, FrontLists
  <2>4. Tiles(c.ptr, h.pRightBound, Small(h), Big(h) \ {c}, A)
    BY <1>1, <2>1, WidenLeft
  <2>5. c.ptr \in Nat /\ Front(s) \in Seq(Chunk)
    BY <2>3, <2>4 DEF Tiles, Lists
  <2> HIDE DEF c, s
  <2>6. /\ g \in HeapType /\ g.pLeftBound = c.ptr /\ g.freedChunksBig = Front(s)
        /\ g.availableSize = h.availableSize /\ g.pRightBound = h.pRightBound
        /\ g.freedChunksSmall = h.freedChunksSmall
    BY <1>1, <2>2, <2>5 DEF HeapType
  <2>7. HeapOK(g, A) /\ Big(g) = Big(h) \ {c} /\ Small(g) = Small(h)
    BY <1>1, <2>3, <2>4, <2>6, HeapIsOK
  <2> QED
    BY <2>1, <2>6, <2>7
<1>6. CASE ~(s # <<>> /\ End(c) = h.pLeftBound)
  <2>1. g = h
    BY <1>6 DEF mergeLastFreedBig
  <2> QED
    BY <1>3, <1>4, <1>6, <2>1
<1> QED
  BY <1>5, <1>6

\* Nothing that is free and on the same side touches: no two chunks of a list, and
\* no chunk the middle.
Settled(h) ==
    /\ \A c, d \in Big(h) : Behind(c) # d.ptr
    /\ \A c, d \in Small(h) : Behind(c) # d.ptr
    /\ \A c \in Big(h) : Behind(c) # h.pLeftBound
    /\ \A c \in Small(h) : c.ptr # h.pRightBound

\* An address that a big, or a small, range may be carved from.
ForBig(h, x) == (h.pLeftBound <= x /\ x < h.pRightBound) \/ \E c \in Big(h) : Covers(c, x)
ForSmall(h, x) == (h.pLeftBound <= x /\ x < h.pRightBound) \/ \E c \in Small(h) : Covers(c, x)

\* defragment: nothing free touches afterwards, and what was free on a side still is.
LEMMA DefragmentOK ==
    ASSUME NEW h, NEW A, HeapOK(h, A), NEW g, g = defragment(h)
    PROVE  /\ HeapOK(g, A) /\ g.availableSize = h.availableSize /\ Settled(g)
           /\ \A x \in Nat : (ForBig(h, x) => ForBig(g, x)) /\ (ForSmall(h, x) => ForSmall(g, x))
<1> DEFINE S == Joined(Small(h))
           B == Joined(Big(h))
           h0 == [h EXCEPT !.freedChunksSmall = Descending(S), !.freedChunksBig = Ascending(B)]
           h1 == mergeLastFreedSmall(h0)
           L == h.pLeftBound
           R == h.pRightBound
<1>1. /\ h \in HeapType /\ Lists(h.freedChunksSmall, Small(h)) /\ Lists(h.freedChunksBig, Big(h))
      /\ Tiles(L, R, Small(h), Big(h), A)
      /\ Packed(Small(h), R, Base + Size) /\ Packed(Big(h), Base, L)
  BY OKHeapLists
<1>2. L \in Nat /\ R \in Nat /\ L <= R /\ R <= Base + Size /\ Base + Size \in Nat /\ Base + Size < AddressSpace /\ L < AddressSpace
  BY <1>1, HeapFacts DEF Tiles
<1>3. IsFiniteSet(Small(h)) /\ IsFiniteSet(Big(h))
  BY <1>1, ListFacts
<1>4. /\ Packed(S, R, Base + Size) /\ SameCells(Small(h), S) /\ IsFiniteSet(S)
      /\ \A c, d \in S : Behind(c) # d.ptr
      /\ \A c, d \in S : c.ptr = d.ptr => c = d
  BY <1>1, <1>2, <1>3, HeapFacts, JoinedTiles
<1>5. /\ Packed(B, Base, L) /\ SameCells(Big(h), B) /\ IsFiniteSet(B)
      /\ \A c, d \in B : Behind(c) # d.ptr
      /\ \A c, d \in B : c.ptr = d.ptr => c = d
      /\ \A c \in B : \E d \in Big(h) : d.size <= c.size
  BY <1>1, <1>2, <1>3, HeapFacts, JoinedTiles
<1> HIDE DEF S, B
<1>6. /\ Lists(Descending(S), S) /\ \A c \in S : Last(Descending(S)).ptr <= c.ptr
  BY <1>4, SortedLists DEF Packed
<1>7. /\ Lists(Ascending(B), B) /\ \A c \in B : c.ptr <= Last(Ascending(B)).ptr
  BY <1>5, SortedLists DEF Packed
<1>8. \A c \in B : isBig(c.size)
  <2> TAKE c \in B
  <2>1. PICK d \in Big(h) : d.size <= c.size
    BY <1>5
  <2>2. isBig(d.size) /\ d \in Chunk /\ c \in Chunk
    BY <1>1, <1>5 DEF Tiles, Packed
  <2> QED
    BY <2>1, <2>2, ChunkFacts, HeapFacts DEF isBig
<1>9. Tiles(L, R, S, B, A)
  <2>1. Tiles(L, R, S, Big(h), A)
    BY <1>1, <1>4, RegroupSmall
  <2> QED
    BY <2>1, <1>5, <1>8, RegroupBig
<1>10. /\ h0 \in HeapType /\ h0.freedChunksSmall = Descending(S) /\ h0.freedChunksBig = Ascending(B)
       /\ h0.pLeftBound = L /\ h0.pRightBound = R /\ h0.availableSize = h.availableSize
  <2>1. Descending(S) \in Seq(Chunk) /\ Ascending(B) \in Seq(Chunk)
    BY <1>6, <1>7 DEF Lists
  <2> QED
    BY <1>1, <2>1 DEF HeapType
<1> HIDE DEF h0
<1>11. HeapOK(h0, A) /\ Small(h0) = S /\ Big(h0) = B
  BY <1>6, <1>7, <1>9, <1>10, HeapIsOK
<1>12. g = mergeLastFreedBig(h1)
  BY DEF defragment, h0, S, B, Small, Big
<1>13. /\ HeapOK(h1, A) /\ h1.availableSize = h.availableSize
       /\ h1.pLeftBound = L /\ Big(h1) = B /\ h1.freedChunksBig = Ascending(B)
       /\ \/ /\ Small(h1) = S /\ h1.pRightBound = R
             /\ S # {} => Last(Descending(S)).ptr # R
          \/ \E c \in S : /\ c.ptr = R /\ h1.pRightBound = Behind(c)
                           /\ Small(h1) = S \ {c}
  BY <1>10, <1>11, MergeSmallOK
<1> HIDE DEF h1
<1>14. /\ HeapOK(g, A) /\ g.availableSize = h.availableSize
       /\ g.pRightBound = h1.pRightBound /\ Small(g) = Small(h1)
       /\ \/ /\ Big(g) = B /\ g.pLeftBound = L
             /\ B # {} => Behind(Last(Ascending(B))) # L
          \/ \E c \in B : /\ Behind(c) = L /\ g.pLeftBound = c.ptr
                           /\ Big(g) = B \ {c}
  BY <1>12, <1>13, MergeBigOK
<1>15. /\ \A c, d \in Small(g) : Behind(c) # d.ptr
       /\ \A c \in Small(g) : c.ptr # g.pRightBound
  <2>1. Small(g) \subseteq S
    BY <1>13, <1>14
  <2>2. CASE Small(h1) = S /\ h1.pRightBound = R /\ (S # {} => Last(Descending(S)).ptr # R)
    <3>1. ASSUME NEW c \in S, c.ptr = R PROVE FALSE
      <4>1. Last(Descending(S)) \in S
        BY <1>6, ListFacts
      <4>2. R <= Last(Descending(S)).ptr /\ Last(Descending(S)).ptr \in Nat
        BY <4>1, <1>4, ChunkFacts DEF Packed
      <4> QED
        BY <3>1, <4>2, <2>2, <1>2, <1>6
    <3> QED
      BY <3>1, <2>1, <2>2, <1>4, <1>14
  <2>3. CASE \E c \in S : c.ptr = R /\ h1.pRightBound = Behind(c) /\ Small(h1) = S \ {c}
    BY <2>1, <2>3, <1>4, <1>14
  <2> QED
    BY <1>13, <2>2, <2>3
<1>16. /\ \A c, d \in Big(g) : Behind(c) # d.ptr
       /\ \A c \in Big(g) : Behind(c) # g.pLeftBound
  <2>1. Big(g) \subseteq B
    BY <1>14
  <2>2. CASE Big(g) = B /\ g.pLeftBound = L /\ (B # {} => Behind(Last(Ascending(B))) # L)
    <3>1. ASSUME NEW c \in B, Behind(c) = L PROVE FALSE
      <4> DEFINE l == Last(Ascending(B))
      <4>1. l \in B /\ l.ptr >= c.ptr
        <5>1. l \in B
          BY <1>7, ListFacts
        <5>2. c \in Chunk /\ l \in Chunk
          BY <5>1, <1>5 DEF Packed
        <5> QED
          BY <5>1, <5>2, <1>7, ChunkFacts
      <4> HIDE DEF l
      <4>2. c \in Chunk /\ l \in Chunk /\ Behind(l) <= L /\ (c # l => Apart(c, l))
        BY <4>1, <1>5 DEF Packed
      <4>3. c # l
        BY <3>1, <2>2 DEF l
      <4> QED
        BY <4>1, <4>2, <4>3, <3>1, ChunkFacts DEF Apart
    <3> QED
      BY <3>1, <2>1, <2>2, <1>5
  <2>3. CASE \E c \in B : Behind(c) = L /\ g.pLeftBound = c.ptr /\ Big(g) = B \ {c}
    BY <2>1, <2>3, <1>5
  <2> QED
    BY <1>14, <2>2, <2>3
<1>17. Settled(g)
  BY <1>15, <1>16 DEF Settled
<1>18. g.pLeftBound \in Nat /\ g.pLeftBound <= L /\ R <= g.pRightBound /\ g.pRightBound \in Nat
  <2>1. g.pLeftBound \in Nat /\ g.pRightBound \in Nat
    BY <1>14, OKHeapLists DEF HeapType
  <2>2. g.pLeftBound <= L
    <3>1. \A c \in B : c \in Chunk
      BY <1>5 DEF Packed
    <3> QED
      BY <2>1, <3>1, <1>2, <1>14, ChunkFacts
  <2>3. R <= g.pRightBound
    <3>1. \A c \in S : c \in Chunk
      BY <1>4 DEF Packed
    <3> QED
      BY <2>1, <3>1, <1>2, <1>13, <1>14, ChunkFacts
  <2> QED
    BY <2>1, <2>2, <2>3
<1>19. ASSUME NEW x \in Nat, L <= x, x < R PROVE ForBig(g, x) /\ ForSmall(g, x)
  BY <1>2, <1>18, <1>19 DEF ForBig, ForSmall
<1>20. ASSUME NEW x \in Nat, NEW c \in Big(h), Covers(c, x) PROVE ForBig(g, x)
  <2>1. PICK d \in B : Covers(d, x)
    BY <1>5, <1>20 DEF SameCells
  <2>2. CASE d \in Big(g)
    BY <2>1, <2>2 DEF ForBig
  <2>3. CASE d \notin Big(g)
    <3>1. Behind(d) = L /\ g.pLeftBound = d.ptr
      BY <2>3, <1>14
    <3>2. d.ptr <= x /\ x < L
      BY <3>1, <2>1 DEF Covers
    <3> QED
      BY <3>1, <3>2, <1>2, <1>18 DEF ForBig
  <2> QED
    BY <2>2, <2>3
<1>21. ASSUME NEW x \in Nat, NEW c \in Small(h), Covers(c, x) PROVE ForSmall(g, x)
  <2>1. PICK d \in S : Covers(d, x)
    BY <1>4, <1>21 DEF SameCells
  <2>2. CASE d \in Small(g)
    BY <2>1, <2>2 DEF ForSmall
  <2>3. CASE d \notin Small(g)
    <3>1. d.ptr = R /\ g.pRightBound = Behind(d)
      BY <2>3, <1>13, <1>14
    <3>2. R <= x /\ x < g.pRightBound
      BY <3>1, <2>1 DEF Covers
    <3> QED
      BY <3>1, <3>2, <1>2, <1>18 DEF ForSmall
  <2> QED
    BY <2>2, <2>3
<1> QED
  BY <1>14, <1>17, <1>19, <1>20, <1>21 DEF ForBig, ForSmall

\* pRightBound - sizeToAllocate stays above 0: a small request is no larger than the
\* address the heap begins at.
NoWrapAround == \A request \in Requests : isBig(alignUp(request)) \/ alignUp(request) <= Base

\* What one attempt to serve n bytes may return: a new range, or nothing when neither
\* a chunk of the side nor the middle is large enough.
Served(at, h, A, n) ==
    \/ /\ at.ptr = 0 /\ at.heap = h
       /\ h.pRightBound - h.pLeftBound < n
       /\ \A c \in (IF isBig(n) THEN Big(h) ELSE Small(h)) : c.size < n
    \/ \E r : /\ at.ptr # 0 /\ r = [ptr |-> at.ptr, size |-> at.size] /\ r \notin A
             /\ HeapOK(at.heap, A \cup {r}) /\ at.heap.availableSize = h.availableSize

\* A chunk is not apart from itself.
LEMMA NotApartFromItself ==
    ASSUME NEW c \in Chunk
    PROVE  ~Apart(c, c)
BY ChunkFacts DEF Apart

\* One turn of the loop of allocate.
LEMMA AttemptOK ==
    ASSUME NEW h, NEW A, HeapOK(h, A), NEW n \in Nat \ {0}, n <= Size,
           isBig(n) \/ n <= Base
    PROVE  Served(Attempt(n, h), h, A, n)
<1> DEFINE at == Attempt(n, h)
           L == h.pLeftBound
           R == h.pRightBound
           list == IF isBig(n) THEN h.freedChunksBig ELSE h.freedChunksSmall
           side == IF isBig(n) THEN Big(h) ELSE Small(h)
           lo == IF isBig(n) THEN Base ELSE R
           hi == IF isBig(n) THEN L ELSE Base + Size
           got == getFromFreedChunks(n, list)
<1>1. /\ h \in HeapType /\ Lists(h.freedChunksSmall, Small(h)) /\ Lists(h.freedChunksBig, Big(h))
      /\ Tiles(L, R, Small(h), Big(h), A)
      /\ Packed(Small(h), R, Base + Size) /\ Packed(Big(h), Base, L)
  BY OKHeapLists
<1>2. /\ L \in Nat /\ R \in Nat /\ Base <= L /\ L <= R /\ R <= Base + Size
  BY <1>1 DEF Tiles
<1>3. lo \in Nat /\ hi \in Nat /\ 0 < lo /\ hi < AddressSpace
  BY <1>2, HeapFacts
<1>4. Lists(list, side) /\ Packed(side, lo, hi)
  BY <1>1
<1>5. Got(got, side, n, lo, hi)
  <2> HIDE DEF list, side, lo, hi
  <2> QED
    BY <1>3, <1>4, HeapFacts, GetTakes
<1>6. CASE got.ptr # 0
  <2>1. /\ at.ptr = got.ptr /\ at.size = got.size
        /\ at.heap = IF isBig(n) THEN [h EXCEPT !.freedChunksBig = got.chunks]
                                 ELSE [h EXCEPT !.freedChunksSmall = got.chunks]
    BY <1>6 DEF Attempt
  <2> HIDE DEF at, got
  <2>2. PICK T, r : /\ Packed(T, lo, hi) /\ SameCells(side, T)
                    /\ r = [ptr |-> got.ptr, size |-> got.size] /\ r \in T
                    /\ Lists(got.chunks, T \ {r})
                    /\ \A d \in T : d \in side \/ d.size >= n
    <3> HIDE DEF side, lo, hi
    <3> QED
      BY <1>5, <1>6 DEF Got
  <2>3. got.chunks \in Seq(Chunk)
    BY <2>2 DEF Lists
  <2>4. CASE isBig(n)
    <3>1. \A d \in T : isBig(d.size)
      <4> TAKE d \in T
      <4>1. CASE d \in Big(h)
        BY <4>1, <1>1 DEF Tiles
      <4>2. CASE d.size >= n
        <5>1. d \in Chunk
          BY <2>2 DEF Packed
        <5> QED
          BY <5>1, <4>2, <2>4, ChunkFacts, HeapFacts DEF isBig
      <4> QED
        BY <4>1, <4>2, <2>2, <2>4
    <3>2. Tiles(L, R, Small(h), T, A)
      BY <1>1, <2>2, <2>4, <3>1, RegroupBig
    <3>3. Tiles(L, R, Small(h), T \ {r}, A \cup {r})
      BY <2>2, <3>2, TakeBig
    <3>4. r \notin A
      BY <2>2, <3>2, NotApartFromItself DEF Tiles, Packed
    <3>5. /\ at.heap \in HeapType /\ at.heap.pLeftBound = L /\ at.heap.pRightBound = R
          /\ at.heap.freedChunksSmall = h.freedChunksSmall /\ at.heap.freedChunksBig = got.chunks
          /\ at.heap.availableSize = h.availableSize
      BY <1>1, <2>1, <2>3, <2>4 DEF HeapType
    <3>6. HeapOK(at.heap, A \cup {r})
      BY <1>1, <2>2, <3>3, <3>5, HeapIsOK
    <3>7. Served(at, h, A, n)
      BY <1>6, <2>1, <2>2, <3>4, <3>5, <3>6 DEF Served
    <3> QED
      BY <3>7 DEF at
  <2>5. CASE ~isBig(n)
    <3>2. Tiles(L, R, T, Big(h), A)
      BY <1>1, <2>2, <2>5, RegroupSmall
    <3>3. Tiles(L, R, T \ {r}, Big(h), A \cup {r})
      BY <2>2, <3>2, TakeSmall
    <3>4. r \notin A
      BY <2>2, <3>2, NotApartFromItself DEF Tiles, Packed
    <3>5. /\ at.heap \in HeapType /\ at.heap.pLeftBound = L /\ at.heap.pRightBound = R
          /\ at.heap.freedChunksBig = h.freedChunksBig /\ at.heap.freedChunksSmall = got.chunks
          /\ at.heap.availableSize = h.availableSize
      BY <1>1, <2>1, <2>3, <2>5 DEF HeapType
    <3>6. HeapOK(at.heap, A \cup {r})
      BY <1>1, <2>2, <3>3, <3>5, HeapIsOK
    <3>7. Served(at, h, A, n)
      BY <1>6, <2>1, <2>2, <3>4, <3>5, <3>6 DEF Served
    <3> QED
      BY <3>7 DEF at
  <2> QED
    BY <2>4, <2>5
<1>7. CASE got.ptr = 0
  <2>1. \A c \in side : c.size < n
    <3> HIDE DEF side, lo, hi, got
    <3> QED
      BY <1>5, <1>7 DEF Got
  <2>2. Plus(L, n) = L + n
    <3>1. L + n \in Nat /\ L + n < AddressSpace
      BY <1>2, HeapFacts
    <3> QED
      BY <3>1, HeapFacts, SmallRemainder DEF Plus
  <2>3. ~isBig(n) => n <= R /\ Minus(R, n) = R - n
    <3>1. ~isBig(n) => n <= R
      BY <1>2, HeapFacts
    <3>2. n <= R => R - n \in Nat /\ R - n < AddressSpace
      BY <1>2, HeapFacts
    <3> QED
      BY <3>1, <3>2, HeapFacts, SmallRemainder DEF Minus
  <2>4. CASE isBig(n) /\ L + n <= R
    <3> DEFINE r == [ptr |-> L, size |-> n]
    <3>1. at = [ptr |-> L, size |-> n, heap |-> [h EXCEPT !.pLeftBound = L + n]]
      BY <1>7, <2>2, <2>4 DEF Attempt
    <3>2. Tiles(L + n, R, Small(h), Big(h), A \cup {r})
      BY <1>1, <2>4, CarveLeft
    <3>3. r \notin A
      BY <1>1, <1>2, <2>4, ChunkFacts DEF Tiles, Packed
    <3> HIDE DEF at
    <3>7. L # 0 /\ L + n \in Nat
      BY <1>2, HeapFacts
    <3>4. /\ at.ptr = L /\ at.size = n
          /\ at.heap \in HeapType /\ at.heap.pLeftBound = L + n /\ at.heap.pRightBound = R
          /\ at.heap.freedChunksSmall = h.freedChunksSmall /\ at.heap.freedChunksBig = h.freedChunksBig
          /\ at.heap.availableSize = h.availableSize
      BY <1>1, <3>1, <3>7 DEF HeapType
    <3>5. HeapOK(at.heap, A \cup {r})
      <4> HIDE DEF r
      <4> QED
        BY <1>1, <3>2, <3>4, HeapIsOK
    <3>6. Served(at, h, A, n)
      BY <3>3, <3>4, <3>5, <3>7 DEF Served
    <3> QED
      BY <3>6 DEF at
  <2>5. CASE ~isBig(n) /\ R - n >= L
    <3> DEFINE r == [ptr |-> R - n, size |-> n]
    <3>1. at = [ptr |-> R - n, size |-> n, heap |-> [h EXCEPT !.pRightBound = R - n]]
      BY <1>7, <2>3, <2>5 DEF Attempt
    <3>0. L <= R - n
      BY <1>2, <2>5
    <3>2. Tiles(L, R - n, Small(h), Big(h), A \cup {r})
      BY <1>1, <2>3, <2>5, <3>0, CarveRight
    <3>3. r \notin A
      <4>1. ASSUME r \in A PROVE FALSE
        <5>1. r.ptr < R /\ Behind(r) = R
          BY <1>2 DEF Behind
        <5>2. Behind(r) <= L
          BY <1>1, <1>2, <4>1, <5>1 DEF Tiles
        <5> QED
          BY <1>2, <2>5, <5>1, <5>2
      <4> QED
        BY <4>1
    <3> HIDE DEF at
    <3>4. /\ at.ptr = R - n /\ R - n # 0 /\ at.size = n /\ R - n \in Nat
      BY <1>2, <2>5, <3>1, HeapFacts
    <3>5. /\ at.heap \in HeapType /\ at.heap.pLeftBound = L /\ at.heap.pRightBound = R - n
          /\ at.heap.freedChunksSmall = h.freedChunksSmall /\ at.heap.freedChunksBig = h.freedChunksBig
          /\ at.heap.availableSize = h.availableSize
      BY <1>1, <3>1, <3>4 DEF HeapType
    <3>6. HeapOK(at.heap, A \cup {r})
      <4> HIDE DEF r
      <4>1. Lists(at.heap.freedChunksSmall, Small(h)) /\ Lists(at.heap.freedChunksBig, Big(h))
        BY <1>1, <3>5
      <4>2. Tiles(at.heap.pLeftBound, at.heap.pRightBound, Small(h), Big(h), A \cup {r})
        BY <3>2, <3>5
      <4> QED
        BY <4>1, <4>2, <3>5, HeapIsOK
    <3>7. Served(at, h, A, n)
      BY <3>3, <3>4, <3>5, <3>6 DEF Served
    <3> QED
      BY <3>7 DEF at
  <2>6. CASE ~(isBig(n) /\ L + n <= R) /\ ~(~isBig(n) /\ R - n >= L)
    <3>1. at = [ptr |-> 0, size |-> n, heap |-> h]
      BY <1>7, <2>2, <2>3, <2>6 DEF Attempt
    <3>2. R - L < n
      BY <1>2, <2>6
    <3> QED
      BY <2>1, <3>1, <3>2 DEF Served
  <2> QED
    BY <2>4, <2>5, <2>6
<1> QED
  BY <1>6, <1>7

\* The amount callers hold.
Held(A) == Cardinality(UNION {Cells(range) : range \in A})

\* The addresses held are those the ranges cover, and they are finitely many.
LEMMA HeldFacts ==
    ASSUME NEW A, Packed(A, Base, Base + Size)
    PROVE  /\ \A x : x \in UNION {Cells(a) : a \in A} <=> x \in Nat /\ \E a \in A : Covers(a, x)
           /\ UNION {Cells(a) : a \in A} \subseteq Base .. Base + Size - 1
           /\ IsFiniteSet(UNION {Cells(a) : a \in A}) /\ Held(A) \in Nat /\ Held(A) <= Size
<1> DEFINE U == UNION {Cells(a) : a \in A}
<1>1. \A a \in A : /\ a.ptr \in Nat /\ a.size \in Nat /\ Behind(a) = a.ptr + a.size
                    /\ Base <= a.ptr /\ Behind(a) <= Base + Size /\ Behind(a) \in Nat
  BY ChunkFacts DEF Packed
<1>2. \A a \in A : \A x : x \in Cells(a) <=> x \in Nat /\ Covers(a, x)
  BY <1>1 DEF Cells, Covers
<1>3. \A x : x \in U <=> x \in Nat /\ \E a \in A : Covers(a, x)
  BY <1>2
<1>4. ASSUME NEW x \in U PROVE x \in Base .. Base + Size - 1
  <2>1. PICK a \in A : Covers(a, x) /\ x \in Nat
    BY <1>3
  <2> QED
    BY <2>1, <1>1, HeapFacts DEF Covers
<1>5. IsFiniteSet(Base .. Base + Size - 1) /\ Cardinality(Base .. Base + Size - 1) = Size
  <2>1. /\ IsFiniteSet(Base .. Base + Size - 1)
        /\ Cardinality(Base .. Base + Size - 1)
             = IF Base > Base + Size - 1 THEN 0 ELSE (Base + Size - 1) - Base + 1
    BY HeapFacts, FS_Interval
  <2> QED
    BY <2>1, HeapFacts
<1>6. U \in SUBSET (Base .. Base + Size - 1)
  BY <1>4
<1>7. IsFiniteSet(U) /\ Cardinality(U) <= Size
  <2> HIDE DEF U
  <2>1. IsFiniteSet(U) /\ Cardinality(U) <= Cardinality(Base .. Base + Size - 1)
    BY <1>5, <1>6, FS_Subset
  <2> QED
    BY <2>1, <1>5
<1> QED
  BY <1>3, <1>6, <1>7, FS_CardinalityType DEF Held

\* A new range adds its size to what is held.
LEMMA HeldAdd ==
    ASSUME NEW A, NEW r, Packed(A \cup {r}, Base, Base + Size), r \notin A
    PROVE  Held(A \cup {r}) = Held(A) + r.size
<1> DEFINE U == UNION {Cells(a) : a \in A}
           V == UNION {Cells(a) : a \in A \cup {r}}
<1>1. Packed(A, Base, Base + Size) /\ r \in Chunk /\ \A a \in A : Apart(a, r) /\ a \in Chunk
  BY DEF Packed
<1>2. r.ptr \in Nat /\ r.size \in Nat /\ r.size > 0 /\ Behind(r) = r.ptr + r.size
  BY <1>1, ChunkFacts
<1>3. IsFiniteSet(Cells(r)) /\ Cardinality(Cells(r)) = r.size
  <2>1. /\ IsFiniteSet(r.ptr .. r.ptr + r.size - 1)
        /\ Cardinality(r.ptr .. r.ptr + r.size - 1)
             = IF r.ptr > r.ptr + r.size - 1 THEN 0 ELSE (r.ptr + r.size - 1) - r.ptr + 1
    <3>1. r.ptr \in Int /\ r.ptr + r.size - 1 \in Int
      BY <1>2
    <3> QED
      BY <3>1, FS_Interval
  <2> QED
    BY <2>1, <1>2 DEF Cells
<1>4. V = U \cup Cells(r)
  OBVIOUS
<1>5. U \cap Cells(r) = {}
  <2>1. \A x \in Cells(r) : x \in Nat /\ Covers(r, x)
    BY <1>2 DEF Cells, Covers
  <2>2. \A x \in U : x \in Nat /\ \E a \in A : Covers(a, x)
    BY <1>1, HeldFacts
  <2> HIDE DEF U
  <2> QED
    BY <2>1, <2>2, <1>1, ApartIsDisjoint
<1>6. IsFiniteSet(U) /\ Cardinality(U) \in Nat
  BY <1>1, HeldFacts DEF Held
<1> HIDE DEF U, V
<1>7. Cardinality(V) = Cardinality(U) + Cardinality(Cells(r)) - Cardinality({})
  BY <1>3, <1>4, <1>5, <1>6, FS_Union
<1>8. Cardinality(V) = Cardinality(U) + r.size
  BY <1>2, <1>3, <1>6, <1>7, FS_EmptySet
<1> QED
  BY <1>8 DEF Held, U, V

\* Attempt returns a record.
LEMMA AttemptShape ==
    ASSUME NEW n, NEW h
    PROVE  LET at == Attempt(n, h) IN at = [ptr |-> at.ptr, size |-> at.size, heap |-> at.heap]
BY DEF Attempt

\* A heap in which a request of n bytes fails although there may be that much left.
Exhausted(h, A, n) ==
    \E g : /\ HeapOK(g, A) /\ Settled(g) /\ g.pRightBound - g.pLeftBound < n
          /\ \A x \in Nat : (ForBig(h, x) => ForBig(g, x)) /\ (ForSmall(h, x) => ForSmall(g, x))
          /\ \A c \in (IF isBig(n) THEN Big(g) ELSE Small(g)) : c.size < n

\* The inductive invariant: the parts tile the space, and availableSize is what is not held.
HeapInv(h, A) == HeapOK(h, A) /\ h.availableSize = Size - Held(A)

\* allocate, with what a failure says of the heap.
LEMMA AllocateOK ==
    ASSUME NoWrapAround, NEW h, NEW A, HeapInv(h, A), NEW request \in Requests,
           NEW res, res = allocate(request, h),
           NEW n, n = alignUp(request)
    PROVE  /\ res.ptr = 0 => HeapInv(res.heap, A) /\ (h.availableSize < n \/ Exhausted(h, A, n))
           /\ res.ptr # 0 => HeapInv(res.heap, A \cup {[ptr |-> res.ptr, size |-> res.size]})
<1> DEFINE first == Attempt(n, h)
           g == defragment(first.heap)
           last == IF first.ptr # 0 THEN first ELSE Attempt(n, g)
<1>1. n \in Nat \ {0} /\ (isBig(n) \/ n <= Base)
  BY AlignedSize DEF NoWrapAround
<1>2. HeapOK(h, A) /\ h.availableSize = Size - Held(A) /\ h.availableSize \in Int
  BY OKHeapLists DEF HeapInv, HeapType
<1>3. Held(A) \in Nat
  BY <1>2, OKHeapLists, HeldFacts DEF Tiles
<1>4. res = CASE h.availableSize < n -> [ptr |-> 0, size |-> n, heap |-> h]
              [] h.availableSize >= n /\ last.ptr = 0 -> last
              [] OTHER -> [last EXCEPT !.heap.availableSize = @ - last.size]
  BY DEF allocate
<1>5. CASE h.availableSize < n
  <2>1. res = [ptr |-> 0, size |-> n, heap |-> h]
    <3> HIDE DEF last
    <3> QED
      BY <1>1, <1>2, <1>4, <1>5
  <2> QED
    BY <1>5, <2>1
<1>6. CASE ~(h.availableSize < n)
  <2>1. n <= Size /\ h.availableSize >= n
    BY <1>1, <1>2, <1>3, <1>6, HeapFacts
  <2>2. Served(first, h, A, n)
    BY <1>1, <1>2, <2>1, AttemptOK
  \* A range that was found, in the heap k after the attempt
  <2>3. ASSUME NEW k, last.ptr # 0, Served(last, k, A, n), k.availableSize = h.availableSize
        PROVE  HeapInv(res.heap, A \cup {[ptr |-> res.ptr, size |-> res.size]}) /\ res.ptr # 0
    <3>1. res = [last EXCEPT !.heap.availableSize = @ - last.size]
      BY <1>4, <2>1, <1>6, <2>3
    <3>2. last = [ptr |-> last.ptr, size |-> last.size, heap |-> last.heap]
      BY AttemptShape
    <3> HIDE DEF last
    <3>3. PICK r : /\ r = [ptr |-> last.ptr, size |-> last.size] /\ r \notin A
                   /\ HeapOK(last.heap, A \cup {r}) /\ last.heap.availableSize = h.availableSize
      BY <2>3 DEF Served
    <3>4. /\ res.ptr = last.ptr /\ res.size = last.size
          /\ res.heap = [last.heap EXCEPT !.availableSize = @ - last.size]
      BY <3>1, <3>2
    <3>5. r.size = last.size /\ [ptr |-> res.ptr, size |-> res.size] = r
      BY <3>3, <3>4
    <3>6. /\ last.heap \in HeapType
          /\ Lists(last.heap.freedChunksSmall, Small(last.heap)) /\ Lists(last.heap.freedChunksBig, Big(last.heap))
          /\ Tiles(last.heap.pLeftBound, last.heap.pRightBound, Small(last.heap), Big(last.heap), A \cup {r})
      BY <3>3, OKHeapLists
    <3>7. Packed(A \cup {r}, Base, Base + Size)
      BY <3>6 DEF Tiles
    <3>8. r \in Chunk /\ r.size \in Nat
      BY <3>7, ChunkFacts DEF Packed
    <3>9. last.heap.availableSize - last.size \in Int
      BY <1>2, <3>3, <3>5, <3>8
    <3>10. /\ res.heap \in HeapType
           /\ res.heap.freedChunksSmall = last.heap.freedChunksSmall
           /\ res.heap.freedChunksBig = last.heap.freedChunksBig
           /\ res.heap.pLeftBound = last.heap.pLeftBound /\ res.heap.pRightBound = last.heap.pRightBound
           /\ res.heap.availableSize = last.heap.availableSize - last.size
      BY <3>4, <3>6, <3>9 DEF HeapType
    <3>11. HeapOK(res.heap, A \cup {r})
      BY <3>6, <3>10, HeapIsOK
    <3>12. Held(A \cup {r}) = Held(A) + r.size
      BY <3>3, <3>7, HeldAdd
    <3>13. res.heap.availableSize = Size - Held(A \cup {r})
      BY <1>2, <1>3, <3>3, <3>5, <3>8, <3>10, <3>12, HeapFacts
    <3> QED
      BY <2>3, <3>4, <3>5, <3>11, <3>13 DEF HeapInv
  <2>4. CASE first.ptr # 0
    <3>1. last = first
      BY <2>4
    <3> HIDE DEF last, first
    <3> QED
      BY <2>2, <2>3, <2>4, <3>1
  <2>5. CASE first.ptr = 0
    <3>1. first.heap = h
      <4> HIDE DEF first
      <4> QED
        BY <2>2, <2>5 DEF Served
    <3>2. /\ HeapOK(g, A) /\ g.availableSize = h.availableSize /\ Settled(g)
          /\ \A x \in Nat : (ForBig(h, x) => ForBig(g, x)) /\ (ForSmall(h, x) => ForSmall(g, x))
      BY <1>2, <3>1, DefragmentOK
    <3> HIDE DEF g
    <3>3. last = Attempt(n, g)
      BY <2>5
    <3>4. Served(last, g, A, n)
      BY <1>1, <2>1, <3>2, <3>3, AttemptOK
    <3> HIDE DEF last
    <3>5. CASE last.ptr # 0
      BY <2>3, <3>2, <3>4, <3>5
    <3>6. CASE last.ptr = 0
      <4>1. res = last
        BY <1>4, <1>6, <2>1, <3>6
      <4>2. /\ last.heap = g /\ g.pRightBound - g.pLeftBound < n
            /\ \A c \in (IF isBig(n) THEN Big(g) ELSE Small(g)) : c.size < n
        BY <3>4, <3>6 DEF Served
      <4>3. Exhausted(h, A, n)
        BY <3>2, <4>2 DEF Exhausted
      <4> QED
        BY <1>2, <3>2, <3>6, <4>1, <4>2, <4>3 DEF HeapInv
    <3> QED
      BY <3>5, <3>6
  <2> QED
    BY <2>4, <2>5
<1> QED
  BY <1>5, <1>6

\* free.
LEMMA FreeOK ==
    ASSUME NEW h, NEW A, HeapInv(h, A), NEW r \in A,
           NEW k, k = [free(r, h) EXCEPT !.availableSize = @ + r.size]
    PROVE  HeapInv(k, A \ {r})
<1> DEFINE L == h.pLeftBound
           R == h.pRightBound
           f == free(r, h)
<1>1. /\ h \in HeapType /\ Lists(h.freedChunksSmall, Small(h)) /\ Lists(h.freedChunksBig, Big(h))
      /\ Tiles(L, R, Small(h), Big(h), A)
      /\ h.availableSize = Size - Held(A)
  BY OKHeapLists DEF HeapInv
<1>2. /\ L \in Nat /\ R \in Nat /\ Base <= L /\ L <= R /\ R <= Base + Size
      /\ Packed(A, Base, Base + Size)
  BY <1>1 DEF Tiles
<1>3. /\ r \in Chunk /\ r.ptr \in Nat /\ r.size \in Nat /\ r.size > 0 /\ Behind(r) = r.ptr + r.size
      /\ Base <= r.ptr /\ Behind(r) <= Base + Size /\ r.ptr < Behind(r) /\ Behind(r) \in Nat
  BY <1>2, ChunkFacts DEF Packed
<1>4. End(r) = Behind(r)
  BY <1>2, HeapFacts, EndIsBehind
<1>5. Minus(L, r.size) = r.ptr <=> Behind(r) = L
  <2>1. CASE r.size <= L
    <3>1. L - r.size \in Nat /\ L - r.size < AddressSpace
      BY <1>2, <1>3, <2>1, HeapFacts
    <3>2. Minus(L, r.size) = L - r.size
      BY <3>1, HeapFacts, SmallRemainder DEF Minus
    <3> QED
      BY <3>2, <1>2, <1>3
  <2>2. CASE r.size > L
    <3> DEFINE d == r.size - L
    <3>1. d \in Nat /\ 0 < d /\ d < AddressSpace /\ L - r.size = -d /\ d <= Size
      BY <1>2, <1>3, <2>2, HeapFacts
    <3>2. Minus(L, r.size) = AddressSpace - d
      <4>1. (-d) % AddressSpace = AddressSpace - d
        <5> HIDE DEF d
        <5> QED
          BY <3>1, HeapFacts, NegativeRemainder
      <4> QED
        BY <4>1, <3>1 DEF Minus
    <3> HIDE DEF d
    <3> QED
      BY <3>1, <3>2, <1>2, <1>3, <2>2, HeapFacts
  <2> QED
    BY <1>2, <1>3, <2>1, <2>2
<1>6. r \notin Small(h) /\ r \notin Big(h)
  BY <1>1, <1>3, NotApartFromItself DEF Tiles
<1>7. HeapOK(f, A \ {r}) /\ f.availableSize = h.availableSize
  <2>1. CASE r.ptr = R
    <3> DEFINE g == [h EXCEPT !.pRightBound = End(r)]
    <3>1. f = mergeLastFreedSmall(g)
      BY <2>1 DEF free
    <3>2. Tiles(L, R, Small(h) \cup {r}, Big(h), A \ {r})
      BY <1>1, <1>2, <2>1, GiveSmall
    <3>3. (Small(h) \cup {r}) \ {r} = Small(h)
      BY <1>6
    <3>4. Tiles(L, Behind(r), Small(h), Big(h), A \ {r})
      BY <2>1, <3>2, <3>3, WidenRight
    <3>5. /\ g \in HeapType /\ g.pRightBound = Behind(r) /\ g.pLeftBound = L
          /\ g.freedChunksSmall = h.freedChunksSmall /\ g.freedChunksBig = h.freedChunksBig
          /\ g.availableSize = h.availableSize
      BY <1>1, <1>3, <1>4 DEF HeapType
    <3> HIDE DEF g
    <3>6. HeapOK(g, A \ {r})
      BY <1>1, <3>4, <3>5, HeapIsOK
    <3> QED
      BY <3>1, <3>5, <3>6, MergeSmallOK
  <2>2. CASE r.ptr # R /\ Behind(r) = L
    <3> DEFINE g == [h EXCEPT !.pLeftBound = r.ptr]
    <3>1. f = mergeLastFreedBig(g)
      BY <2>2, <1>5 DEF free
    <3>0. r.ptr < R
      BY <1>2, <1>3, <2>2
    <3>2. Tiles(L, R, Small(h), Big(h) \cup {r}, A \ {r})
      BY <1>1, <3>0, GiveBig
    <3>3. (Big(h) \cup {r}) \ {r} = Big(h)
      BY <1>6
    <3>4. Tiles(r.ptr, R, Small(h), Big(h), A \ {r})
      BY <2>2, <3>2, <3>3, WidenLeft
    <3>5. /\ g \in HeapType /\ g.pRightBound = R /\ g.pLeftBound = r.ptr
          /\ g.freedChunksSmall = h.freedChunksSmall /\ g.freedChunksBig = h.freedChunksBig
          /\ g.availableSize = h.availableSize
      BY <1>1, <1>3 DEF HeapType
    <3> HIDE DEF g
    <3>6. HeapOK(g, A \ {r})
      BY <1>1, <3>4, <3>5, HeapIsOK
    <3> QED
      BY <3>1, <3>5, <3>6, MergeBigOK
  <2>3. CASE r.ptr # R /\ Behind(r) # L /\ r.ptr < L
    <3> DEFINE s == storeInFreedChunks(r, h.freedChunksBig)
    <3>1. f = [h EXCEPT !.freedChunksBig = s]
      BY <2>3, <1>5 DEF free
    <3>0. r.ptr < R
      BY <1>2, <1>3, <2>3
    <3>2. Tiles(L, R, Small(h), Big(h) \cup {r}, A \ {r})
      BY <1>1, <3>0, GiveBig
    <3>3. Packed(Big(h) \cup {r}, Base, L) /\ \A e \in Big(h) \cup {r} : isBig(e.size)
      BY <3>2 DEF Tiles
    <3>4. L < AddressSpace
      BY <1>2, HeapFacts
    <3>5. PICK T : /\ Lists(s, T)
                   /\ Packed(T, Base, L) /\ SameCells(Big(h) \cup {r}, T)
                   /\ \A d \in T : \E e \in Big(h) \cup {r} : e.size <= d.size
      <4>1. Lists(h.freedChunksBig, Big(h)) /\ Base \in Nat /\ L \in Nat /\ AddressSpace \in Nat
        BY <1>1, <1>2, HeapFacts
      <4>2. Stored(s, Big(h) \cup {r}, Base, L)
        BY <4>1, <1>6, <3>3, <3>4, StoreKeeps
      <4> HIDE DEF s
      <4> QED
        BY <4>2 DEF Stored
    <3> HIDE DEF s
    <3>6. \A d \in T : isBig(d.size)
      <4> TAKE d \in T
      <4>1. PICK e \in Big(h) \cup {r} : e.size <= d.size
        BY <3>5
      <4>2. isBig(e.size) /\ e \in Chunk /\ d \in Chunk
        BY <3>3, <3>5 DEF Packed
      <4> QED
        BY <4>1, <4>2, ChunkFacts, HeapFacts DEF isBig
    <3>7. Tiles(L, R, Small(h), T, A \ {r})
      BY <3>2, <3>5, <3>6, RegroupBig
    <3>8. s \in Seq(Chunk)
      BY <3>5 DEF Lists
    <3>9. /\ f \in HeapType /\ f.pRightBound = R /\ f.pLeftBound = L
          /\ f.freedChunksSmall = h.freedChunksSmall /\ f.freedChunksBig = s
          /\ f.availableSize = h.availableSize
      BY <1>1, <3>1, <3>8 DEF HeapType
    <3> QED
      BY <1>1, <3>5, <3>7, <3>9, HeapIsOK
  <2>4. CASE r.ptr # R /\ Behind(r) # L /\ ~(r.ptr < L)
    <3> DEFINE s == storeInFreedChunks(r, h.freedChunksSmall)
    <3>1. f = [h EXCEPT !.freedChunksSmall = s]
      BY <2>4, <1>5 DEF free
    <3>0. R <= r.ptr
      <4>1. Behind(r) <= L \/ R <= r.ptr
        BY <1>1 DEF Tiles
      <4> QED
        BY <4>1, <1>2, <1>3, <2>4
    <3>2. Tiles(L, R, Small(h) \cup {r}, Big(h), A \ {r})
      BY <1>1, <3>0, GiveSmall
    <3>3. Packed(Small(h) \cup {r}, R, Base + Size)
      BY <3>2 DEF Tiles
    <3>4. Base + Size < AddressSpace /\ Base + Size \in Nat
      BY HeapFacts
    <3>5. PICK T : /\ Lists(s, T)
                   /\ Packed(T, R, Base + Size) /\ SameCells(Small(h) \cup {r}, T)
      <4>1. Lists(h.freedChunksSmall, Small(h)) /\ R \in Nat /\ AddressSpace \in Nat
        BY <1>1, <1>2, HeapFacts
      <4>2. Stored(s, Small(h) \cup {r}, R, Base + Size)
        BY <4>1, <1>6, <3>3, <3>4, StoreKeeps
      <4> HIDE DEF s
      <4> QED
        BY <4>2 DEF Stored
    <3> HIDE DEF s
    <3>7. Tiles(L, R, T, Big(h), A \ {r})
      BY <3>2, <3>5, RegroupSmall
    <3>8. s \in Seq(Chunk)
      BY <3>5 DEF Lists
    <3>9. /\ f \in HeapType /\ f.pRightBound = R /\ f.pLeftBound = L
          /\ f.freedChunksBig = h.freedChunksBig /\ f.freedChunksSmall = s
          /\ f.availableSize = h.availableSize
      BY <1>1, <3>1, <3>8 DEF HeapType
    <3> QED
      BY <1>1, <3>5, <3>7, <3>9, HeapIsOK
  <2> QED
    BY <2>1, <2>2, <2>3, <2>4
<1> HIDE DEF f
<1>8. /\ f \in HeapType /\ Lists(f.freedChunksSmall, Small(f)) /\ Lists(f.freedChunksBig, Big(f))
      /\ Tiles(f.pLeftBound, f.pRightBound, Small(f), Big(f), A \ {r})
  BY <1>7, OKHeapLists
<1>9. h.availableSize + r.size \in Int
  BY <1>1, <1>3 DEF HeapType
<1>10. /\ k \in HeapType
       /\ k.freedChunksSmall = f.freedChunksSmall /\ k.freedChunksBig = f.freedChunksBig
       /\ k.pLeftBound = f.pLeftBound /\ k.pRightBound = f.pRightBound
       /\ k.availableSize = h.availableSize + r.size
  <2>1. k = [f EXCEPT !.availableSize = @ + r.size]
    BY DEF f
  <2> QED
    BY <2>1, <1>7, <1>8, <1>9 DEF HeapType
<1>11. HeapOK(k, A \ {r})
  BY <1>8, <1>10, HeapIsOK
<1>12. Held(A) = Held(A \ {r}) + r.size /\ Held(A \ {r}) \in Nat
  <2>1. (A \ {r}) \cup {r} = A
    OBVIOUS
  <2>2. Packed(A \ {r}, Base, Base + Size)
    BY <1>2 DEF Packed
  <2> QED
    BY <2>1, <2>2, <1>2, HeldAdd, HeldFacts
<1>13. k.availableSize = Size - Held(A \ {r})
  BY <1>1, <1>3, <1>10, <1>12, HeapFacts
<1> QED
  BY <1>11, <1>13 DEF HeapInv

-----------------------------------------------------------------------------
(* The theorems *)

\* The constructor.
LEMMA InitOK ==
    ASSUME Init
    PROVE  HeapInv(heap, allocations)
<1>1. /\ heap \in HeapType /\ heap.pLeftBound = Base /\ heap.pRightBound = Base + Size
      /\ heap.freedChunksSmall = <<>> /\ heap.freedChunksBig = <<>> /\ heap.availableSize = Size
  <2>1. <<>> \in Seq(Chunk) /\ Base + Size \in Nat /\ Base \in Nat /\ Size \in Int
    BY HeapFacts
  <2> QED
    BY <2>1 DEF Init, HeapType
<1>2. Lists(<<>>, {})
  BY DEF Lists, IsInjective, ToSet
<1>3. Tiles(Base, Base + Size, {}, {}, {})
  BY HeapFacts DEF Tiles, Packed
<1>4. allocations = {}
  BY DEF Init
<1>5. HeapOK(heap, {})
  BY <1>1, <1>2, <1>3, HeapIsOK
<1>6. Held({}) = 0
  <2>1. UNION {Cells(range) : range \in {}} = {}
    OBVIOUS
  <2> QED
    BY <2>1, FS_EmptySet DEF Held
<1>7. heap.availableSize = Size - Held({})
  BY <1>1, <1>6, HeapFacts
<1> QED
  BY <1>4, <1>5, <1>7 DEF HeapInv

\* Every step keeps the invariant.
LEMMA StepOK ==
    ASSUME NoWrapAround, HeapInv(heap, allocations), [Next]_vars
    PROVE  HeapInv(heap', allocations')
<1>1. ASSUME NEW request \in Requests, Allocate(request) PROVE HeapInv(heap', allocations')
  <2> DEFINE res == allocate(request, heap)
  <2>1. /\ heap' = res.heap
        /\ allocations' = IF res.ptr = 0 THEN allocations
                          ELSE allocations \cup {[ptr |-> res.ptr, size |-> res.size]}
    BY <1>1 DEF Allocate
  <2>2. /\ res.ptr = 0 => HeapInv(res.heap, allocations)
        /\ res.ptr # 0 => HeapInv(res.heap, allocations \cup {[ptr |-> res.ptr, size |-> res.size]})
    BY AllocateOK
  <2> HIDE DEF res
  <2> QED
    BY <2>1, <2>2
<1>2. ASSUME NEW range \in allocations, Free(range) PROVE HeapInv(heap', allocations')
  BY <1>2, FreeOK DEF Free
<1>3. CASE UNCHANGED vars
  BY <1>3 DEF vars
<1> QED
  BY <1>1, <1>2, <1>3 DEF Next

\* In every reachable state the parts tile the space.
THEOREM HeapInvariant ==
    ASSUME NoWrapAround
    PROVE  Spec => []HeapInv(heap, allocations)
<1>1. Init => HeapInv(heap, allocations)
  BY InitOK
<1>2. HeapInv(heap, allocations) /\ [Next]_vars => HeapInv(heap, allocations)'
  BY StepOK
<1> QED
  BY <1>1, <1>2, PTL DEF Spec

\* The two lists one after the other.
LEMMA ConcatLists ==
    ASSUME NEW s, NEW S, Lists(s, S), NEW t, NEW T, Lists(t, T), S \cap T = {}
    PROVE  Lists(s \o t, S \cup T)
<1> DEFINE u == s \o t
<1>1. s \in Seq(Chunk) /\ t \in Seq(Chunk) /\ Len(s) \in Nat /\ Len(t) \in Nat
  BY ListFacts DEF Lists
<1>2. /\ u \in Seq(Chunk) /\ Len(u) = Len(s) + Len(t)
      /\ \A i \in 1..Len(s) + Len(t) : u[i] = IF i <= Len(s) THEN s[i] ELSE t[i - Len(s)]
  BY <1>1, ConcatProperties
<1> HIDE DEF u
<1>3. \A i \in 1..Len(s) : u[i] = s[i] /\ u[i] \in S /\ i \in 1..Len(u)
  BY <1>1, <1>2, ListFacts
<1>4. \A i \in 1..Len(t) : u[Len(s) + i] = t[i] /\ u[Len(s) + i] \in T /\ Len(s) + i \in 1..Len(u)
  <2> TAKE i \in 1..Len(t)
  <2>1. Len(s) + i \in 1..Len(s) + Len(t) /\ ~(Len(s) + i <= Len(s)) /\ (Len(s) + i) - Len(s) = i
    BY <1>1
  <2>2. u[Len(s) + i] = t[i]
    BY <2>1, <1>2
  <2> QED
    BY <2>1, <2>2, <1>2, ListFacts
<1>5. \A i \in 1..Len(u) : i \in 1..Len(s) \/ \E j \in 1..Len(t) : i = Len(s) + j
  <2> TAKE i \in 1..Len(u)
  <2>1. i > Len(s) => i - Len(s) \in 1..Len(t) /\ i = Len(s) + (i - Len(s))
    BY <1>1, <1>2
  <2>2. i > Len(s) \/ i \in 1..Len(s)
    BY <1>1, <1>2
  <2> QED
    BY <2>1, <2>2
<1>6. \A i \in 1..Len(u) : u[i] \in S \cup T
  BY <1>3, <1>4, <1>5
<1>7. \A c \in S \cup T : \E i \in 1..Len(u) : u[i] = c
  <2> TAKE c \in S \cup T
  <2>1. CASE c \in S
    <3>1. PICK i \in 1..Len(s) : s[i] = c
      BY <2>1, ListFacts
    <3> QED
      BY <3>1, <1>3
  <2>2. CASE c \in T
    <3>1. PICK i \in 1..Len(t) : t[i] = c
      BY <2>2, ListFacts
    <3> QED
      BY <3>1, <1>4
  <2> QED
    BY <2>1, <2>2
<1>8. ASSUME NEW i \in 1..Len(u), NEW j \in 1..Len(u), u[i] = u[j] PROVE i = j
  <2>1. CASE i \in 1..Len(s)
    <3>1. j \in 1..Len(s)
      <4>1. ASSUME NEW k \in 1..Len(t), j = Len(s) + k PROVE FALSE
        BY <2>1, <4>1, <1>3, <1>4, <1>8
      <4> QED
        BY <4>1, <1>5
    <3> QED
      BY <2>1, <3>1, <1>3, <1>8, ListFacts
  <2>2. CASE i \notin 1..Len(s)
    <3>1. PICK k \in 1..Len(t) : i = Len(s) + k
      BY <2>2, <1>5
    <3>2. j \notin 1..Len(s)
      BY <3>1, <1>3, <1>4, <1>8
    <3>3. PICK l \in 1..Len(t) : j = Len(s) + l
      BY <3>2, <1>5
    <3>4. t[k] = t[l]
      BY <3>1, <3>3, <1>4, <1>8
    <3> QED
      BY <3>1, <3>3, <3>4, ListFacts
  <2> QED
    BY <2>1, <2>2
<1>9. Lists(u, S \cup T)
  BY <1>2, <1>6, <1>7, <1>8, IsListing
<1> QED
  BY <1>9 DEF u

\* The invariant says that every address is there once.
LEMMA TilesAreOnce ==
    ASSUME HeapInv(heap, allocations)
    PROVE  EveryAddressOnce
<1> DEFINE freed == heap.freedChunksSmall \o heap.freedChunksBig
           S == Small(heap)
           B == Big(heap)
           A == allocations
           L == heap.pLeftBound
           R == heap.pRightBound
           Parts == allocations \cup ToSet(freed) \cup {Middle}
<1>1. /\ Lists(heap.freedChunksSmall, S) /\ Lists(heap.freedChunksBig, B)
      /\ Tiles(L, R, S, B, A)
  BY OKHeapLists DEF HeapInv
<1>2. /\ L \in Nat /\ R \in Nat /\ Base <= L /\ L <= R /\ R <= Base + Size
  BY <1>1 DEF Tiles
<1>3. ASSUME NEW c \in A \cup S \cup B
      PROVE  /\ c \in Chunk /\ c.ptr \in Nat /\ Behind(c) \in Nat /\ c.ptr < Behind(c)
             /\ Base <= c.ptr /\ Behind(c) <= Base + Size
             /\ Behind(c) <= L \/ R <= c.ptr
             /\ \A x : x \in Cells(c) <=> x \in Nat /\ Covers(c, x)
  <2>1. c \in Chunk
    BY <1>1 DEF Tiles, Packed
  <2>2. c.ptr \in Nat /\ c.size \in Nat /\ Behind(c) \in Nat /\ c.ptr < Behind(c) /\ Behind(c) = c.ptr + c.size
    BY <2>1, ChunkFacts
  <2>3. \A x : x \in Cells(c) <=> x \in Nat /\ Covers(c, x)
    BY <2>2 DEF Cells, Covers
  <2>4. CASE c \in A
    BY <1>1, <2>1, <2>2, <2>3, <2>4 DEF Tiles, Packed
  <2>5. CASE c \in S
    <3>1. R <= c.ptr /\ Behind(c) <= Base + Size
      BY <1>1, <2>5 DEF Tiles, Packed
    <3>2. Base <= c.ptr
      BY <3>1, <1>2, <2>2, HeapFacts
    <3> QED
      BY <2>1, <2>2, <2>3, <3>1, <3>2
  <2>6. CASE c \in B
    <3>1. Base <= c.ptr /\ Behind(c) <= L
      BY <1>1, <2>6 DEF Tiles, Packed
    <3>2. Behind(c) <= Base + Size
      BY <3>1, <1>2, <2>2, HeapFacts
    <3> QED
      BY <2>1, <2>2, <2>3, <3>1, <3>2
  <2> QED
    BY <2>4, <2>5, <2>6
<1>4. ASSUME NEW c \in A \cup S \cup B, NEW d \in A \cup S \cup B, c # d
      PROVE  Apart(c, d)
  <2>1. CASE (c \in A /\ d \in A) \/ (c \in S /\ d \in S) \/ (c \in B /\ d \in B)
    BY <1>1, <1>4, <2>1 DEF Tiles, Packed
  <2>2. CASE (c \in A /\ d \in S \cup B) \/ (d \in A /\ c \in S \cup B)
    BY <1>1, <2>2 DEF Tiles, Apart
  <2>3. CASE (c \in S /\ d \in B) \/ (c \in B /\ d \in S)
    <3>1. \A e \in S : R <= e.ptr
      BY <1>1 DEF Tiles, Packed
    <3>2. \A e \in B : Behind(e) <= L
      BY <1>1 DEF Tiles, Packed
    <3> QED
      BY <1>2, <1>3, <2>3, <3>1, <3>2 DEF Apart
  <2> QED
    BY <2>1, <2>2, <2>3
<1>5. S \cap B = {}
  <2>1. ASSUME NEW c \in S \cap B PROVE FALSE
    <3>1. R <= c.ptr /\ Behind(c) <= L
      BY <1>1, <2>1 DEF Tiles, Packed
    <3> QED
      BY <1>2, <1>3, <2>1, <3>1
  <2> QED
    BY <2>1
<1>6. IsInjective(freed) /\ ToSet(freed) = S \cup B
  BY <1>1, <1>5, ConcatLists DEF Lists
<1>7. A \cap (S \cup B) = {}
  <2>1. ASSUME NEW c \in A, c \in S \cup B PROVE FALSE
    BY <1>1, <1>3, <2>1, NotApartFromItself DEF Tiles
  <2> QED
    BY <2>1
<1>8. \A x : x \in Cells(Middle) <=> x \in Nat /\ L <= x /\ x < R
  <2>1. Cells(Middle) = L .. L + (R - L) - 1
    BY DEF Cells, Middle
  <2> QED
    BY <2>1, <1>2
<1>9. \A part \in Parts : part \in A \cup S \cup B \/ part = Middle
  BY <1>6
<1>10. UNION {Cells(part) : part \in Parts} = Base .. Base + Size - 1
  <2>1. ASSUME NEW part \in Parts, NEW x \in Cells(part) PROVE x \in Base .. Base + Size - 1
    <3>1. CASE part \in A \cup S \cup B
      <4>1. x \in Nat /\ part.ptr <= x /\ x < Behind(part)
        BY <1>3, <2>1, <3>1 DEF Covers
      <4> QED
        BY <4>1, <1>3, <3>1, HeapFacts
    <3>2. CASE part = Middle
      BY <1>2, <1>8, <2>1, <3>2, HeapFacts
    <3> QED
      BY <1>9, <3>1, <3>2
  <2>2. ASSUME NEW x \in Base .. Base + Size - 1 PROVE \E part \in Parts : x \in Cells(part)
    <3>1. x \in Nat /\ Base <= x /\ x < Base + Size
      BY HeapFacts
    <3>2. CASE L <= x /\ x < R
      BY <1>8, <3>1, <3>2
    <3>3. CASE \E c \in A \cup S \cup B : Covers(c, x)
      <4>1. PICK c \in A \cup S \cup B : Covers(c, x)
        BY <3>3
      <4>2. c \in Parts /\ x \in Cells(c)
        BY <4>1, <1>3, <1>6, <3>1
      <4> QED
        BY <4>2
    <3> QED
      BY <1>1, <3>1, <3>2, <3>3 DEF Tiles
  <2> HIDE DEF Parts
  <2> QED
    BY <2>1, <2>2
<1>11. ASSUME NEW a \in Parts, NEW b \in Parts, a # b PROVE Cells(a) \cap Cells(b) = {}
  <2>1. CASE a \in A \cup S \cup B /\ b \in A \cup S \cup B
    <3>1. Apart(a, b) /\ a \in Chunk /\ b \in Chunk
      BY <1>3, <1>4, <1>11, <2>1
    <3>2. \A x \in Cells(a) : x \in Nat /\ Covers(a, x)
      BY <1>3, <2>1
    <3>3. \A x \in Cells(b) : x \in Nat /\ Covers(b, x)
      BY <1>3, <2>1
    <3> QED
      BY <3>1, <3>2, <3>3, ApartIsDisjoint
  <2>2. ASSUME NEW c \in A \cup S \cup B PROVE Cells(c) \cap Cells(Middle) = {}
    <3>1. ASSUME NEW x \in Cells(c), x \in Cells(Middle) PROVE FALSE
      <4>1. x \in Nat /\ c.ptr <= x /\ x < Behind(c) /\ L <= x /\ x < R
        BY <1>3, <1>8, <3>1 DEF Covers
      <4> QED
        BY <4>1, <1>2, <1>3
    <3> QED
      BY <3>1
  <2> HIDE DEF Parts
  <2> QED
    BY <1>9, <1>11, <2>1, <2>2
<1>12. \A part \in A \cup B : part.ptr < L => isBig(part.size)
  <2>1. ASSUME NEW part \in A, part.ptr < L PROVE isBig(part.size)
    <3>1. ~(R <= part.ptr)
      BY <1>2, <1>3, <2>1
    <3> QED
      BY <1>1, <3>1 DEF Tiles
  <2> QED
    BY <1>1, <2>1 DEF Tiles
<1>13. heap.availableSize = Size - Cardinality(UNION {Cells(range) : range \in allocations})
  BY DEF HeapInv, Held
<1> QED
  BY <1>6, <1>7, <1>10, <1>11, <1>12, <1>13 DEF EveryAddressOnce, Big

\* HeapAllocator::allocate and free, called in any order by any threads, never hand an
\* address out twice and never lose one: held ranges, freed chunks and the unused
\* middle tile the space, and availableSize is what is not held.
THEOREM EveryAddressOnceAlways ==
    ASSUME NoWrapAround
    PROVE  Spec => []EveryAddressOnce
<1>1. HeapInv(heap, allocations) => EveryAddressOnce
  BY TilesAreOnce
<1> QED
  BY <1>1, HeapInvariant, PTL

\* A run of n addresses fits into no settled heap whose chunks and middle are shorter.
LEMMA NoRunLeft ==
    ASSUME NEW g, NEW A, HeapOK(g, A), Settled(g), NEW n \in Nat \ {0},
           g.pRightBound - g.pLeftBound < n, NEW a \in Nat
    PROVE  /\ (\A c \in Big(g) : c.size < n) => \E x \in a .. a + n - 1 : ~ForBig(g, x)
           /\ (\A c \in Small(g) : c.size < n) => \E x \in a .. a + n - 1 : ~ForSmall(g, x)
<1> DEFINE L == g.pLeftBound
           R == g.pRightBound
<1>1. Packed(Small(g), R, Base + Size) /\ Packed(Big(g), Base, L) /\ Tiles(L, R, Small(g), Big(g), A)
  BY OKHeapLists
<1>2. L \in Nat /\ R \in Nat /\ L <= R
  BY <1>1 DEF Tiles
<1>3. ASSUME NEW c \in Chunk, c.size < n, Covers(c, a) PROVE Behind(c) \in a .. a + n - 1
  BY <1>3, ChunkFacts DEF Covers
<1>4. L <= a /\ a < R => R \in a .. a + n - 1
  BY <1>2
<1>5. a \in a .. a + n - 1
  OBVIOUS
<1>6. ASSUME NEW S, NEW lo, NEW hi, Packed(S, lo, hi), NEW c \in S, NEW d \in S, Covers(d, Behind(c))
      PROVE  Behind(c) = d.ptr
  <2>1. c \in Chunk /\ d \in Chunk /\ (c # d => Apart(c, d))
    BY <1>6 DEF Packed
  <2> QED
    BY <1>6, <2>1, ChunkFacts DEF Covers, Apart
<1>7. ASSUME \A c \in Big(g) : c.size < n, \A x \in a .. a + n - 1 : ForBig(g, x) PROVE FALSE
  <2>1. CASE L <= a /\ a < R
    <3>1. PICK d \in Big(g) : Covers(d, R)
      BY <1>2, <1>4, <1>7, <2>1 DEF ForBig
    <3>2. d \in Chunk /\ Behind(d) <= L
      BY <1>1 DEF Packed
    <3> QED
      BY <1>2, <3>1, <3>2, ChunkFacts DEF Covers
  <2>2. CASE \E c \in Big(g) : Covers(c, a)
    <3>1. PICK c \in Big(g) : Covers(c, a)
      BY <2>2
    <3>2. c \in Chunk /\ Behind(c) <= L /\ Behind(c) \in Nat
      BY <1>1, ChunkFacts DEF Packed
    <3>3. ForBig(g, Behind(c))
      BY <1>3, <1>7, <3>1, <3>2
    <3>4. Behind(c) # L
      BY DEF Settled
    <3>5. PICK d \in Big(g) : Covers(d, Behind(c))
      BY <1>2, <3>2, <3>3, <3>4 DEF ForBig
    <3>6. Behind(c) = d.ptr
      BY <1>1, <1>6, <3>5
    <3> QED
      BY <3>6 DEF Settled
  <2> QED
    BY <1>5, <1>7, <2>1, <2>2 DEF ForBig
<1>8. ASSUME \A c \in Small(g) : c.size < n, \A x \in a .. a + n - 1 : ForSmall(g, x) PROVE FALSE
  <2>1. CASE L <= a /\ a < R
    <3>1. PICK d \in Small(g) : Covers(d, R)
      BY <1>2, <1>4, <1>8, <2>1 DEF ForSmall
    <3>2. d \in Chunk /\ R <= d.ptr /\ d.ptr # R
      BY <1>1 DEF Packed, Settled
    <3> QED
      BY <1>2, <3>1, <3>2, ChunkFacts DEF Covers
  <2>2. CASE \E c \in Small(g) : Covers(c, a)
    <3>1. PICK c \in Small(g) : Covers(c, a)
      BY <2>2
    <3>2. c \in Chunk /\ R <= c.ptr /\ c.ptr < Behind(c) /\ Behind(c) \in Nat /\ c.ptr \in Nat
      BY <1>1, ChunkFacts DEF Packed
    <3>3. ForSmall(g, Behind(c))
      BY <1>3, <1>8, <3>1, <3>2
    <3>5. PICK d \in Small(g) : Covers(d, Behind(c))
      BY <1>2, <3>2, <3>3 DEF ForSmall
    <3>6. Behind(c) = d.ptr
      BY <1>1, <1>6, <3>5
    <3> QED
      BY <3>6 DEF Settled
  <2> QED
    BY <1>5, <1>8, <2>1, <2>2 DEF ForSmall
<1> QED
  BY <1>7, <1>8

\* The free addresses a request of n bytes may be served from.
Usable(n) ==
    UNION {Cells(part) : part \in (IF isBig(n) THEN Big(heap) ELSE Small(heap)) \cup {Middle}}

\* A request that is refused fits nowhere on its side.
LEMMA NothingFits ==
    ASSUME NoWrapAround, HeapInv(heap, allocations),
           NEW request \in Requests, allocate(request, heap).ptr = 0,
           NEW n, n = alignUp(request),
           NEW usable, usable = Usable(n),
           NEW a \in usable, a .. a + n - 1 \subseteq usable
    PROVE  FALSE
<1> DEFINE A == allocations
           L == heap.pLeftBound
           R == heap.pRightBound
           side == IF isBig(n) THEN Big(heap) ELSE Small(heap)
<1>1. n \in Nat \ {0}
  BY AlignedSize
<1>2. HeapOK(heap, A) /\ heap.availableSize = Size - Held(A)
  BY DEF HeapInv
<1>3. Tiles(L, R, Small(heap), Big(heap), A)
  BY <1>2, OKHeapLists
<1>4. L \in Nat /\ R \in Nat /\ Base <= L /\ L <= R /\ R <= Base + Size
  BY <1>3 DEF Tiles
<1>5. heap.availableSize < n \/ Exhausted(heap, A, n)
  BY AllocateOK
<1>6. usable = UNION {Cells(part) : part \in side \cup {Middle}}
  BY DEF Usable
<1>7. ASSUME NEW x \in usable
      PROVE  /\ x \in Nat
             /\ (L <= x /\ x < R) \/ \E c \in side : Covers(c, x)
  <2>1. PICK part \in side \cup {Middle} : x \in Cells(part)
    BY <1>6
  <2>2. CASE part = Middle
    <3>1. x \in L .. L + (R - L) - 1
      BY <2>1, <2>2 DEF Cells, Middle
    <3> QED
      BY <3>1, <1>4
  <2>3. CASE part \in side
    <3>1. part \in Chunk
      BY <1>3, <2>3 DEF Tiles, Packed
    <3> QED
      BY <2>1, <2>3, <3>1, ChunkFacts DEF Cells, Covers, Behind
  <2> QED
    BY <2>1, <2>2, <2>3
<1>8. a \in Nat
  BY <1>7
<1>9. CASE heap.availableSize < n
  <2> DEFINE U == UNION {Cells(range) : range \in A}
             run == a .. a + n - 1
             all == Base .. Base + Size - 1
  <2>1. Packed(A, Base, Base + Size)
    BY <1>3 DEF Tiles
  <2>2. /\ IsFiniteSet(U) /\ U \subseteq all /\ Cardinality(U) \in Nat
        /\ \A x \in U : x \in Nat /\ \E c \in A : Covers(c, x)
    BY <2>1, HeldFacts DEF Held
  <2>3. IsFiniteSet(run) /\ Cardinality(run) = n
    <3>1. a \in Int /\ a + n - 1 \in Int
      BY <1>1, <1>8
    <3>2. IsFiniteSet(run) /\ Cardinality(run) = IF a > a + n - 1 THEN 0 ELSE (a + n - 1) - a + 1
      BY <3>1, FS_Interval
    <3> HIDE DEF run
    <3> QED
      BY <3>2, <1>1, <1>8
  <2>4. IsFiniteSet(all) /\ Cardinality(all) = Size
    <3>1. Base \in Int /\ Base + Size - 1 \in Int
      BY HeapFacts
    <3>2. IsFiniteSet(all) /\ Cardinality(all) = IF Base > Base + Size - 1 THEN 0 ELSE (Base + Size - 1) - Base + 1
      BY <3>1, FS_Interval
    <3> HIDE DEF all
    <3> QED
      BY <3>2, HeapFacts
  <2>5. ASSUME NEW x \in run PROVE x \in all /\ x \notin U
    <3>1. x \in Nat /\ ((L <= x /\ x < R) \/ \E c \in side : Covers(c, x))
      BY <1>7
    <3>2. CASE L <= x /\ x < R
      <4>1. \A c \in A : c \in Chunk /\ (Behind(c) <= L \/ R <= c.ptr)
        BY <1>3 DEF Tiles, Packed
      <4>2. \A c \in A : ~Covers(c, x)
        BY <1>4, <3>1, <3>2, <4>1, ChunkFacts DEF Covers
      <4>3. x \in all
        BY <1>4, <3>1, <3>2, HeapFacts
      <4> HIDE DEF U
      <4> QED
        BY <2>2, <4>2, <4>3
    <3>3. CASE \E c \in side : Covers(c, x)
      <4>1. PICK c \in side : Covers(c, x)
        BY <3>3
      <4>2. c \in Small(heap) \/ c \in Big(heap)
        OBVIOUS
      <4>3. /\ c \in Chunk /\ \A d \in A : d \in Chunk /\ Apart(d, c)
            /\ (R <= c.ptr /\ Behind(c) <= Base + Size) \/ (Base <= c.ptr /\ Behind(c) <= L)
        BY <1>3, <4>2 DEF Tiles, Packed
      <4>4. \A d \in A : ~Covers(d, x)
        BY <3>1, <4>1, <4>3, ApartIsDisjoint
      <4>5. x \in all
        BY <1>4, <3>1, <4>1, <4>3, ChunkFacts, HeapFacts DEF Covers
      <4> HIDE DEF U
      <4> QED
        BY <2>2, <4>4, <4>5
    <3> QED
      BY <3>1, <3>2, <3>3
  <2>6. Held(A) = Cardinality(U)
    BY DEF Held
  <2> HIDE DEF U, run, all
  <2>7. U \cap run = {} /\ U \cup run \in SUBSET all
    BY <2>2, <2>5
  <2>8. Cardinality(U \cup run) = Cardinality(U) + Cardinality(run) - Cardinality({})
    BY <2>2, <2>3, <2>7, FS_Union
  <2>9. Cardinality(U \cup run) <= Size
    BY <2>4, <2>7, FS_Subset
  <2>10. Cardinality(U) + n <= Size
    BY <1>1, <2>2, <2>3, <2>8, <2>9, FS_EmptySet
  <2> QED
    BY <1>1, <1>2, <1>9, <2>2, <2>6, <2>10, HeapFacts
<1>10. CASE Exhausted(heap, A, n)
  <2>1. PICK g : /\ HeapOK(g, A) /\ Settled(g) /\ g.pRightBound - g.pLeftBound < n
                 /\ \A x \in Nat : (ForBig(heap, x) => ForBig(g, x)) /\ (ForSmall(heap, x) => ForSmall(g, x))
                 /\ \A c \in (IF isBig(n) THEN Big(g) ELSE Small(g)) : c.size < n
    BY <1>10 DEF Exhausted
  <2>2. CASE isBig(n)
    <3>1. \A x \in a .. a + n - 1 : ForBig(g, x)
      BY <1>7, <2>1, <2>2 DEF ForBig
    <3> QED
      BY <1>1, <1>8, <2>1, <2>2, <3>1, NoRunLeft
  <2>3. CASE ~isBig(n)
    <3>1. \A x \in a .. a + n - 1 : ForSmall(g, x)
      BY <1>7, <2>1, <2>3 DEF ForSmall
    <3> QED
      BY <1>1, <1>8, <2>1, <2>3, <3>1, NoRunLeft
  <2> QED
    BY <2>2, <2>3
<1> QED
  BY <1>5, <1>9, <1>10

\* The invariant says what a refusal means.
LEMMA RefusedIsFragmented ==
    ASSUME NoWrapAround, HeapInv(heap, allocations)
    PROVE  RefusedOnlyWhenFragmented
<1> SUFFICES ASSUME NEW request \in Requests, allocate(request, heap).ptr = 0
             PROVE  LET size == alignUp(request)
                        side == ToSet(IF isBig(size) THEN heap.freedChunksBig ELSE heap.freedChunksSmall)
                        usable == UNION {Cells(part) : part \in side \cup {Middle}}
                    IN  ~\E a \in usable : a .. a + size - 1 \subseteq usable
  BY DEF RefusedOnlyWhenFragmented
<1> DEFINE n == alignUp(request)
           side == ToSet(IF isBig(n) THEN heap.freedChunksBig ELSE heap.freedChunksSmall)
           usable == UNION {Cells(part) : part \in side \cup {Middle}}
<1>1. usable = Usable(n)
  BY DEF Usable, Small, Big
<1>2. ASSUME NEW a \in usable, a .. a + n - 1 \subseteq usable PROVE FALSE
  <2>1. n = alignUp(request)
    OBVIOUS
  <2> HIDE DEF n, usable
  <2> QED
    BY <1>1, <1>2, <2>1, NothingFits
<1> QED
  BY <1>2

\* HeapAllocator::allocate gives up only when no run of free addresses of the request's
\* side, the unused middle included, is long enough: one pass of defragment and one
\* more attempt find every run, whatever was allocated and freed before.
THEOREM RefusedOnlyWhenFragmentedAlways ==
    ASSUME NoWrapAround
    PROVE  Spec => []RefusedOnlyWhenFragmented
<1>1. HeapInv(heap, allocations) => RefusedOnlyWhenFragmented
  BY RefusedIsFragmented
<1> QED
  BY <1>1, HeapInvariant, PTL
=============================================================================
