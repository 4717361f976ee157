--------------------- MODULE TimestampPacketsTagProofs ----------------------
(***************************************************************************)
(* The tags of TimestampPackets, for all numbers of threads, receivers,    *)
(* queues, commands and tags.  Every tag is accounted for: AccountInv adds *)
(* the places of the tags to the control, the streams and the counts, and  *)
(* implies TagsAccountedFor.  No tag is reused while the GPU may still     *)
(* touch it: FlightInv bounds what is outstanding for a tag by its counter *)
(* and its write, so that a tag that canBeReleased has nothing in flight,  *)
(* and implies NoTagReusedInFlight.                                        *)
(***************************************************************************)
EXTENDS TimestampPacketsProofs

\* The tags that the allocator of a receiver has created, and those of all receivers.
Created(r) == {TagMemory[r][i] : i \in 1..populated[r]}
AllCreated == UNION {Created(r) : r \in Csrs}
\* The places of the tags as a function, which partition the tags created so far.
content == [p \in Places |-> Content(p)]
Partition(f, U) ==
  /\ \A p, q \in DOMAIN f : p # q => f[p] \cap f[q] = {}
  /\ UNION {f[p] : p \in DOMAIN f} = U
\* The receiver of a place; a tag never leaves the allocator that created it.
Home(p) == IF p[1] \in {"free", "deferred", "used"} THEN p[2] ELSE Csr(thread[p[2]].cmd)
HomeInv ==
  /\ \A r \in Csrs : populated[r] <= Len(TagMemory[r])
  /\ \A p \in Places : content[p] # {} => content[p] \subseteq Created(Home(p))
\* No list has a tag twice.
OnceInv ==
  /\ \A r \in Csrs : IsInjective(freeTags[r]) /\ IsInjective(deferredTags[r])
  /\ \A t \in Threads :
       IsInjective(thread[t].detached) /\ IsInjective(thread[t].ready) /\ IsInjective(thread[t].pending)
\* The thread has brought the count of n to zero and is about to put it back.
Placed(t, n) == thread[t].place # "none" /\ Head(thread[t].toReturn) = n
\* A tag is used while it is counted or about to be put back, by one thread at most.
UsedInv ==
  /\ \A r \in Csrs : \A n \in Range(TagMemory[r]) : n \in usedTags[r] <=> refCount[n] > 0 \/ \E t \in Threads : Placed(t, n)
  /\ \A t \in Threads : \A n \in Tags : Placed(t, n) => refCount[n] = 0
  /\ \A t, u \in Threads : \A n \in Tags : Placed(t, n) /\ Placed(u, n) => t = u
\* The invariant of the places.
PlaceInv == Partition(content, AllCreated) /\ HomeInv /\ OnceInv /\ UsedInv
\* The commands that may still be submitted, as instructions.
written == [c \in Commands |-> IF status[c] \in {"new", "blocked"} THEN dispatched[c] ELSE <<>>]
\* How many instructions of S the GPU has still to execute.
Outstanding(S) == Cardinality(Sites(S, stream)) + Cardinality(Sites(S, written))
\* No tag has more outstanding decrements than its implicitDependenciesCount says, nor
\* a second write, nor one after it is written.
CountInv ==
  \A n \in Tags : /\ Outstanding(Decrements(n)) <= packet[n].implicitDependenciesCount
                  /\ Outstanding(Writes(n)) <= IF packet[n].ended THEN 0 ELSE 1
\* A tag that is in use or deferred, or in the hands of a thread that examines the deferred
\* tags, and that no thread is about to put back to the free tags.
Busy(n) ==
  /\ \/ \E r \in Csrs : n \in usedTags[r] \/ n \in Range(deferredTags[r])
     \/ \E t \in Threads : n \in Range(thread[t].detached) \/ n \in Range(thread[t].pending)
  /\ \A t \in Threads : thread[t].place = "free" => Head(thread[t].toReturn) # n
\* What is in flight names the command that its tag was taken for, and the tag is busy.
BusyInv == \A i \in InFlight : tagOf[i.tag] = i.for /\ Busy(i.tag)
\* The tag that a thread is about to dispatch is its command's, and not yet written.
Fresh(t, n) ==
  /\ nodes[QueueOf[thread[t].cmd]] = <<n>> /\ tagOf[n] = thread[t].cmd
  /\ ~packet[n].ended /\ Outstanding(Writes(n)) = 0
FreshInv == \A t \in Threads : thread[t].pc = "dispatch" => \E n \in Tags : Fresh(t, n)
\* The invariant of what is in flight.
FlightInv == CountInv /\ BusyInv /\ FreshInv

-----------------------------------------------------------------------------
(* Places *)

\* What is in each place.
LEMMA ContentFacts ==
  /\ \A r \in Csrs : /\ <<"free", r>> \in Places /\ content[<<"free", r>>] = Range(freeTags[r])
                     /\ <<"deferred", r>> \in Places /\ content[<<"deferred", r>>] = Range(deferredTags[r])
                     /\ <<"used", r>> \in Places /\ content[<<"used", r>>] = usedTags[r]
                     /\ Home(<<"free", r>>) = r /\ Home(<<"deferred", r>>) = r /\ Home(<<"used", r>>) = r
  /\ \A t \in Threads : /\ <<"detached", t>> \in Places /\ content[<<"detached", t>>] = Range(thread[t].detached)
                        /\ <<"ready", t>> \in Places /\ content[<<"ready", t>>] = Range(thread[t].ready)
                        /\ <<"pending", t>> \in Places /\ content[<<"pending", t>>] = Range(thread[t].pending)
                        /\ <<"node", t>> \in Places /\ content[<<"node", t>>] = {thread[t].node} \ {None}
                        /\ \A k \in {"detached", "ready", "pending", "node"} : Home(<<k, t>>) = Csr(thread[t].cmd)
<1>1. ASSUME NEW r \in Csrs
      PROVE  /\ <<"free", r>> \in Places /\ Content(<<"free", r>>) = Range(freeTags[r])
             /\ <<"deferred", r>> \in Places /\ Content(<<"deferred", r>>) = Range(deferredTags[r])
             /\ <<"used", r>> \in Places /\ Content(<<"used", r>>) = usedTags[r]
  BY DEF Places, Content
<1>2. ASSUME NEW t \in Threads
      PROVE  /\ <<"detached", t>> \in Places /\ Content(<<"detached", t>>) = Range(thread[t].detached)
             /\ <<"ready", t>> \in Places /\ Content(<<"ready", t>>) = Range(thread[t].ready)
             /\ <<"pending", t>> \in Places /\ Content(<<"pending", t>>) = Range(thread[t].pending)
             /\ <<"node", t>> \in Places /\ Content(<<"node", t>>) = {thread[t].node} \ {None}
  BY DEF Places, Content
<1>3. \A p \in Places : content[p] = Content(p)
  BY DEF content
<1>4. \A r \in Csrs : Home(<<"free", r>>) = r /\ Home(<<"deferred", r>>) = r /\ Home(<<"used", r>>) = r
  BY DEF Home
<1>5. \A t \in Threads : \A k \in {"detached", "ready", "pending", "node"} : Home(<<k, t>>) = Csr(thread[t].cmd)
  BY DEF Home
<1> QED
  BY <1>1, <1>2, <1>3, <1>4, <1>5

\* The same after a step.
LEMMA ContentPrimed ==
  /\ \A r \in Csrs : /\ content'[<<"free", r>>] = Range(freeTags'[r])
                     /\ content'[<<"deferred", r>>] = Range(deferredTags'[r])
                     /\ content'[<<"used", r>>] = usedTags'[r]
                     /\ Home(<<"free", r>>)' = r /\ Home(<<"deferred", r>>)' = r /\ Home(<<"used", r>>)' = r
  /\ \A t \in Threads : /\ content'[<<"detached", t>>] = Range(thread'[t].detached)
                        /\ content'[<<"ready", t>>] = Range(thread'[t].ready)
                        /\ content'[<<"pending", t>>] = Range(thread'[t].pending)
                        /\ content'[<<"node", t>>] = {thread'[t].node} \ {None}
                        /\ \A k \in {"detached", "ready", "pending", "node"} : Home(<<k, t>>)' = Csr(thread'[t].cmd)
<1>1. ASSUME NEW r \in Csrs
      PROVE  /\ <<"free", r>> \in Places /\ Content(<<"free", r>>)' = Range(freeTags'[r])
             /\ <<"deferred", r>> \in Places /\ Content(<<"deferred", r>>)' = Range(deferredTags'[r])
             /\ <<"used", r>> \in Places /\ Content(<<"used", r>>)' = usedTags'[r]
  BY DEF Places, Content
<1>2. ASSUME NEW t \in Threads
      PROVE  /\ <<"detached", t>> \in Places /\ Content(<<"detached", t>>)' = Range(thread'[t].detached)
             /\ <<"ready", t>> \in Places /\ Content(<<"ready", t>>)' = Range(thread'[t].ready)
             /\ <<"pending", t>> \in Places /\ Content(<<"pending", t>>)' = Range(thread'[t].pending)
             /\ <<"node", t>> \in Places /\ Content(<<"node", t>>)' = {thread'[t].node} \ {None}
  BY DEF Places, Content
<1>3. \A p \in Places : content'[p] = Content(p)'
  BY DEF content
<1>4. \A r \in Csrs : Home(<<"free", r>>)' = r /\ Home(<<"deferred", r>>)' = r /\ Home(<<"used", r>>)' = r
  BY DEF Home
<1>5. \A t \in Threads : \A k \in {"detached", "ready", "pending", "node"} : Home(<<k, t>>)' = Csr(thread'[t].cmd)
  BY DEF Home, Csr
<1> QED
  BY <1>1, <1>2, <1>3, <1>4, <1>5

\* Every place is a list of a receiver or of a thread.
LEMMA PlacesAre ==
  ASSUME NEW x \in Places
  PROVE  \/ \E r \in Csrs : x \in {<<"free", r>>, <<"deferred", r>>, <<"used", r>>}
         \/ \E t \in Threads : x \in {<<"detached", t>>, <<"ready", t>>, <<"pending", t>>, <<"node", t>>}
BY DEF Places

\* The places that a step does not touch.
LEMMA SamePlaces ==
  ASSUME NEW F,
         \A r \in Csrs : /\ <<"free", r>> \in F \/ freeTags'[r] = freeTags[r]
                         /\ <<"deferred", r>> \in F \/ deferredTags'[r] = deferredTags[r]
                         /\ <<"used", r>> \in F \/ usedTags'[r] = usedTags[r],
         \A t \in Threads : /\ <<"detached", t>> \in F \/ thread'[t].detached = thread[t].detached
                            /\ <<"ready", t>> \in F \/ thread'[t].ready = thread[t].ready
                            /\ <<"pending", t>> \in F \/ thread'[t].pending = thread[t].pending
                            /\ <<"node", t>> \in F \/ thread'[t].node = thread[t].node
  PROVE  \A x \in Places : x \notin F => content'[x] = content[x]
<1> SUFFICES ASSUME NEW x \in Places, x \notin F PROVE content'[x] = content[x]
  OBVIOUS
<1>1. ASSUME NEW r \in Csrs, x \in {<<"free", r>>, <<"deferred", r>>, <<"used", r>>}
      PROVE  content'[x] = content[x]
  <2>1. CASE x = <<"free", r>>
    <3>1. content[<<"free", r>>] = Range(freeTags[r]) /\ content'[<<"free", r>>] = Range(freeTags'[r])
      BY ContentFacts, ContentPrimed
    <3> QED
      BY <2>1, <3>1
  <2>2. CASE x = <<"deferred", r>>
    <3>1. content[<<"deferred", r>>] = Range(deferredTags[r]) /\ content'[<<"deferred", r>>] = Range(deferredTags'[r])
      BY ContentFacts, ContentPrimed
    <3> QED
      BY <2>2, <3>1
  <2>3. CASE x = <<"used", r>>
    <3>1. content[<<"used", r>>] = usedTags[r] /\ content'[<<"used", r>>] = usedTags'[r]
      BY ContentFacts, ContentPrimed
    <3> QED
      BY <2>3, <3>1
  <2> QED
    BY <1>1, <2>1, <2>2, <2>3
<1>2. ASSUME NEW t \in Threads, x \in {<<"detached", t>>, <<"ready", t>>, <<"pending", t>>, <<"node", t>>}
      PROVE  content'[x] = content[x]
  <2>1. CASE x = <<"detached", t>>
    <3>1. content[<<"detached", t>>] = Range(thread[t].detached) /\ content'[<<"detached", t>>] = Range(thread'[t].detached)
      BY ContentFacts, ContentPrimed
    <3> QED
      BY <2>1, <3>1
  <2>2. CASE x = <<"ready", t>>
    <3>1. content[<<"ready", t>>] = Range(thread[t].ready) /\ content'[<<"ready", t>>] = Range(thread'[t].ready)
      BY ContentFacts, ContentPrimed
    <3> QED
      BY <2>2, <3>1
  <2>3. CASE x = <<"pending", t>>
    <3>1. content[<<"pending", t>>] = Range(thread[t].pending) /\ content'[<<"pending", t>>] = Range(thread'[t].pending)
      BY ContentFacts, ContentPrimed
    <3> QED
      BY <2>3, <3>1
  <2>4. CASE x = <<"node", t>>
    <3>1. content[<<"node", t>>] = {thread[t].node} \ {None} /\ content'[<<"node", t>>] = {thread'[t].node} \ {None}
      BY ContentFacts, ContentPrimed
    <3> QED
      BY <2>4, <3>1
  <2> QED
    BY <1>2, <2>1, <2>2, <2>3, <2>4
<1> QED
  BY <1>1, <1>2, PlacesAre

\* The receiver of a place, when threads keep their commands.
LEMMA SameHomes ==
  ASSUME \A t \in Threads : thread'[t].cmd = thread[t].cmd
  PROVE  \A x \in Places : Home(x)' = Home(x)
<1> SUFFICES ASSUME NEW x \in Places PROVE Home(x)' = Home(x)
  OBVIOUS
<1>1. ASSUME NEW r \in Csrs, x \in {<<"free", r>>, <<"deferred", r>>, <<"used", r>>}
      PROVE  Home(x)' = Home(x)
  BY <1>1 DEF Home
<1>2. ASSUME NEW t \in Threads, x \in {<<"detached", t>>, <<"ready", t>>, <<"pending", t>>, <<"node", t>>}
      PROVE  Home(x)' = Home(x)
  <2>1. x[2] = t /\ x[1] \notin {"free", "deferred", "used"}
    BY <1>2
  <2> QED
    BY <2>1 DEF Home, Csr
<1> QED
  BY <1>1, <1>2, PlacesAre

\* Tags go from one place to another.
LEMMA PartitionMove ==
  ASSUME NEW P, NEW f, NEW g, DOMAIN f = P, DOMAIN g = P, NEW U, Partition(f, U),
         NEW p \in P, NEW q \in P, p # q, NEW M, M \subseteq f[p],
         g[p] = f[p] \ M, g[q] = f[q] \cup M, \A x \in P : x \notin {p, q} => g[x] = f[x]
  PROVE  Partition(g, U)
<1>1. \A x, y \in P : x # y => f[x] \cap f[y] = {}
  BY DEF Partition
<1>2. \A n : n \in U <=> \E x \in P : n \in f[x]
  BY DEF Partition
<1>3. ASSUME NEW x \in P, NEW y \in P, x # y PROVE g[x] \cap g[y] = {}
  BY <1>1, <1>3
<1>4. ASSUME NEW n PROVE n \in U <=> \E x \in P : n \in g[x]
  <2>1. ASSUME NEW x \in P, n \in f[x] PROVE \E y \in P : n \in g[y]
    BY <2>1
  <2>2. ASSUME NEW x \in P, n \in g[x] PROVE \E y \in P : n \in f[y]
    BY <2>2
  <2> QED
    BY <1>2, <2>1, <2>2
<1>5. UNION {g[x] : x \in P} = U
  BY <1>4
<1> QED
  BY <1>3, <1>5 DEF Partition

\* The part of PlaceInv that a move of tags changes.
Lists == Partition(content, AllCreated) /\ HomeInv

\* A step that moves the tags M from place p to place q of the same receiver keeps every
\* tag in one place.
LEMMA Move ==
  ASSUME Lists, UNCHANGED populated, \A t \in Threads : thread'[t].cmd = thread[t].cmd,
         NEW p \in Places, NEW q \in Places, p # q, NEW M, M \subseteq content[p], Home(p) = Home(q),
         content'[p] = content[p] \ M, content'[q] = content[q] \cup M,
         \A x \in Places : x \notin {p, q} => content'[x] = content[x]
  PROVE  Lists'
<1>1. DOMAIN content = Places /\ DOMAIN content' = Places
  BY DEF content
<1>2. AllCreated' = AllCreated /\ \A r : Created(r)' = Created(r)
  BY DEF AllCreated, Created
<1>3. Partition(content', AllCreated)
  BY <1>1, PartitionMove DEF Lists
<1>4. Partition(content, AllCreated)'
  BY <1>2, <1>3 DEF Partition
<1>5. ASSUME NEW x \in Places, content'[x] # {} PROVE content'[x] \subseteq Created(Home(x))'
  <2>1. \A y \in Places : content[y] # {} => content[y] \subseteq Created(Home(y))
    BY DEF Lists, HomeInv
  <2>2. Home(x)' = Home(x)
    BY SameHomes
  <2>3. Created(Home(x))' = Created(Home(x))
    BY <2>2 DEF Created
  <2>4. CASE x = q
    <3>1. M \subseteq Created(Home(q))
      BY <2>1
    <3> QED
      BY <2>1, <2>3, <2>4, <3>1
  <2>5. CASE x # q
    BY <2>1, <2>3, <2>5, <1>5
  <2> QED
    BY <2>4, <2>5
<1>6. HomeInv'
  BY <1>5 DEF HomeInv, Lists
<1> QED
  BY <1>4, <1>6 DEF Lists

\* No tag moves; a thread whose command changes has none.
LEMMA Stay ==
  ASSUME Lists, UNCHANGED populated, \A x \in Places : content'[x] = content[x],
         \A x \in Places : content[x] # {} => Home(x)' = Home(x)
  PROVE  Lists'
<1>1. DOMAIN content = Places /\ DOMAIN content' = Places
  BY DEF content
<1>2. AllCreated' = AllCreated
  BY DEF AllCreated, Created
<1>3. content' = content
  BY DEF content
<1>4. Partition(content, AllCreated)'
  BY <1>2, <1>3 DEF Partition, Lists
<1>5. ASSUME NEW x \in Places, content'[x] # {} PROVE content'[x] \subseteq Created(Home(x))'
  <2>1. content[x] \subseteq Created(Home(x)) /\ Home(x)' = Home(x)
    BY <1>3, <1>5 DEF Lists, HomeInv
  <2> QED
    BY <1>3, <2>1 DEF Created
<1>6. HomeInv'
  BY <1>5 DEF HomeInv, Lists
<1> QED
  BY <1>4, <1>6 DEF Lists

\* The same, told by the lists that the step does not touch.
LEMMA Moved ==
  ASSUME Lists, UNCHANGED populated, \A t \in Threads : thread'[t].cmd = thread[t].cmd,
         NEW p \in Places, NEW q \in Places, p # q, NEW M, M \subseteq content[p], Home(p) = Home(q),
         content'[p] = content[p] \ M, content'[q] = content[q] \cup M,
         \A r \in Csrs : /\ <<"free", r>> \in {p, q} \/ freeTags'[r] = freeTags[r]
                         /\ <<"deferred", r>> \in {p, q} \/ deferredTags'[r] = deferredTags[r]
                         /\ <<"used", r>> \in {p, q} \/ usedTags'[r] = usedTags[r],
         \A t \in Threads : /\ <<"detached", t>> \in {p, q} \/ thread'[t].detached = thread[t].detached
                            /\ <<"ready", t>> \in {p, q} \/ thread'[t].ready = thread[t].ready
                            /\ <<"pending", t>> \in {p, q} \/ thread'[t].pending = thread[t].pending
                            /\ <<"node", t>> \in {p, q} \/ thread'[t].node = thread[t].node
  PROVE  Lists'
<1>1. \A x \in Places : x \notin {p, q} => content'[x] = content[x]
  BY SamePlaces
<1> QED
  BY <1>1, Move

\* The lists have tags, none of them twice, and no tag is in two of them.
LEMMA ListFacts ==
  ASSUME TypeOK, OnceInv
  PROVE  /\ \A r \in Csrs : /\ freeTags[r] \in Seq(Tags) /\ IsInjective(freeTags[r])
                            /\ deferredTags[r] \in Seq(Tags) /\ IsInjective(deferredTags[r])
         /\ \A t \in Threads : /\ thread[t].detached \in Seq(Tags) /\ IsInjective(thread[t].detached)
                               /\ thread[t].ready \in Seq(Tags) /\ IsInjective(thread[t].ready)
                               /\ thread[t].pending \in Seq(Tags) /\ IsInjective(thread[t].pending)
  BY Fields DEF TypeOK, OnceInv

\* No tag is in two places.
LEMMA Apart ==
  ASSUME Lists, NEW p \in Places, NEW q \in Places, p # q
  PROVE  content[p] \cap content[q] = {}
<1>1. DOMAIN content = Places
  BY DEF content
<1> QED
  BY <1>1 DEF Lists, Partition

\* An empty list has no tags.
LEMMA EmptyRange == Range(<<>>) = {}
  BY DEF Range

\* The receiver of a tag.
LEMMA TagHome ==
  ASSUME NEW n \in Tags
  PROVE  TagCsr(n) \in Csrs /\ n \in Range(TagMemory[TagCsr(n)])
  BY DEF TagCsr, Tags

\* returnTagToFreePool moves the tag from the used to the free tags.
LEMMA ReturnToFreeLists ==
  ASSUME ControlInv, PlaceInv, NEW t \in Threads, returnTagToFreePool(t)
  PROVE  Lists' /\ OnceInv'
<1>0. TypeOK /\ OnceInv /\ Lists /\ UsedInv
  BY DEF ControlInv, PlaceInv, Lists
<1>1. PICK n \in Tags : n = Head(thread[t].toReturn)
  BY ReturnToFreeEffect
<1>2. PICK r \in Csrs : r = TagCsr(n) /\ n \in Range(TagMemory[r])
  BY TagHome
<1>3. /\ usedTags' = [usedTags EXCEPT ![r] = @ \ {n}] /\ freeTags' = [freeTags EXCEPT ![r] = <<n>> \o @]
      /\ UNCHANGED <<deferredTags, populated>> /\ thread[t].place = "free"
      /\ \A u \in Threads : /\ thread'[u].cmd = thread[u].cmd /\ thread'[u].node = thread[u].node
                            /\ thread'[u].detached = thread[u].detached /\ thread'[u].ready = thread[u].ready
                            /\ thread'[u].pending = thread[u].pending
  <2>1. /\ Others(t) /\ Control(t, thread[t].pc, thread[t].cmd, thread[t].toResolve, thread[t].toDrop)
        /\ Has(t, thread[t].node, thread[t].detached, thread[t].ready, thread[t].pending)
        /\ usedTags' = [usedTags EXCEPT ![r] = @ \ {n}] /\ freeTags' = [freeTags EXCEPT ![r] = <<n>> \o @]
        /\ UNCHANGED <<deferredTags, populated>> /\ thread[t].place = "free"
    BY <1>1, <1>2, ReturnToFreeEffect
  <2> QED
    BY <2>1 DEF Others, Control, Has
<1>4. n \in usedTags[r]
  BY <1>0, <1>1, <1>2, <1>3 DEF UsedInv, Placed
<1>5. /\ freeTags'[r] = <<n>> \o freeTags[r] /\ usedTags'[r] = usedTags[r] \ {n}
      /\ \A x \in Csrs \ {r} : freeTags'[x] = freeTags[x] /\ usedTags'[x] = usedTags[x]
  BY <1>0, <1>3 DEF TypeOK
<1> DEFINE p == <<"used", r>>
           q == <<"free", r>>
<1>6. /\ p \in Places /\ q \in Places /\ p # q /\ content[p] = usedTags[r] /\ content[q] = Range(freeTags[r])
      /\ content'[p] = usedTags'[r] /\ content'[q] = Range(freeTags'[r]) /\ Home(p) = Home(q)
  BY ContentFacts, ContentPrimed
<1>7. n \notin Range(freeTags[r])
  BY <1>0, <1>4, <1>6, Apart
<1>8. freeTags[r] \in Seq(Tags) /\ IsInjective(freeTags[r])
  BY <1>0, ListFacts
<1>9. IsInjective(freeTags'[r]) /\ Range(freeTags'[r]) = Range(freeTags[r]) \cup {n}
  BY <1>5, <1>7, <1>8, ConsOnce
<1>10. OnceInv'
  BY <1>0, <1>3, <1>5, <1>9 DEF OnceInv
<1>11. {n} \subseteq content[p] /\ content'[p] = content[p] \ {n} /\ content'[q] = content[q] \cup {n}
  BY <1>4, <1>5, <1>6, <1>9
<1>12. \A x \in Csrs : /\ <<"free", x>> \in {p, q} \/ freeTags'[x] = freeTags[x]
                       /\ <<"deferred", x>> \in {p, q} \/ deferredTags'[x] = deferredTags[x]
                       /\ <<"used", x>> \in {p, q} \/ usedTags'[x] = usedTags[x]
  BY <1>3, <1>5
<1>13. Lists'
  <2> HIDE DEF p, q
  <2>5. /\ UNCHANGED populated /\ \A u \in Threads : thread'[u].cmd = thread[u].cmd
    BY <1>0, <1>3, <1>6, <1>11, <1>12
  <2>6. \A x \in Csrs : /\ <<"free", x>> \in {p, q} \/ freeTags'[x] = freeTags[x]
                        /\ <<"deferred", x>> \in {p, q} \/ deferredTags'[x] = deferredTags[x]
                        /\ <<"used", x>> \in {p, q} \/ usedTags'[x] = usedTags[x]
    BY <1>0, <1>3, <1>6, <1>11, <1>12
  <2>7. \A u \in Threads : /\ <<"detached", u>> \in {p, q} \/ thread'[u].detached = thread[u].detached
                           /\ <<"ready", u>> \in {p, q} \/ thread'[u].ready = thread[u].ready
                           /\ <<"pending", u>> \in {p, q} \/ thread'[u].pending = thread[u].pending
                           /\ <<"node", u>> \in {p, q} \/ thread'[u].node = thread[u].node
    BY <1>0, <1>3, <1>6, <1>11, <1>12
  <2> QED
    BY <1>0, <1>6, <1>11, <2>5, <2>6, <2>7, Moved
<1> QED
  BY <1>10, <1>13

\* returnTagToDeferredPool moves the tag from the used to the deferred tags.
LEMMA ReturnToDeferredLists ==
  ASSUME ControlInv, PlaceInv, NEW t \in Threads, returnTagToDeferredPool(t)
  PROVE  Lists' /\ OnceInv'
<1>0. TypeOK /\ OnceInv /\ Lists /\ UsedInv
  BY DEF ControlInv, PlaceInv, Lists
<1>1. PICK n \in Tags : n = Head(thread[t].toReturn)
  BY ReturnToDeferredEffect
<1>2. PICK r \in Csrs : r = TagCsr(n) /\ n \in Range(TagMemory[r])
  BY TagHome
<1>3. /\ usedTags' = [usedTags EXCEPT ![r] = @ \ {n}] /\ deferredTags' = [deferredTags EXCEPT ![r] = <<n>> \o @]
      /\ UNCHANGED <<freeTags, populated>> /\ thread[t].place = "deferred"
      /\ \A u \in Threads : /\ thread'[u].cmd = thread[u].cmd /\ thread'[u].node = thread[u].node
                            /\ thread'[u].detached = thread[u].detached /\ thread'[u].ready = thread[u].ready
                            /\ thread'[u].pending = thread[u].pending
  <2>1. /\ Others(t) /\ Control(t, thread[t].pc, thread[t].cmd, thread[t].toResolve, thread[t].toDrop)
        /\ Has(t, thread[t].node, thread[t].detached, thread[t].ready, thread[t].pending)
        /\ usedTags' = [usedTags EXCEPT ![r] = @ \ {n}] /\ deferredTags' = [deferredTags EXCEPT ![r] = <<n>> \o @]
        /\ UNCHANGED <<freeTags, populated>> /\ thread[t].place = "deferred"
    BY <1>1, <1>2, ReturnToDeferredEffect
  <2> QED
    BY <2>1 DEF Others, Control, Has
<1>4. n \in usedTags[r]
  BY <1>0, <1>1, <1>2, <1>3 DEF UsedInv, Placed
<1>5. /\ deferredTags'[r] = <<n>> \o deferredTags[r] /\ usedTags'[r] = usedTags[r] \ {n}
      /\ \A x \in Csrs \ {r} : deferredTags'[x] = deferredTags[x] /\ usedTags'[x] = usedTags[x]
  BY <1>0, <1>3 DEF TypeOK
<1> DEFINE p == <<"used", r>>
           q == <<"deferred", r>>
<1>6. /\ p \in Places /\ q \in Places /\ p # q /\ content[p] = usedTags[r] /\ content[q] = Range(deferredTags[r])
      /\ content'[p] = usedTags'[r] /\ content'[q] = Range(deferredTags'[r]) /\ Home(p) = Home(q)
  BY ContentFacts, ContentPrimed
<1>7. n \notin Range(deferredTags[r])
  BY <1>0, <1>4, <1>6, Apart
<1>8. deferredTags[r] \in Seq(Tags) /\ IsInjective(deferredTags[r])
  BY <1>0, ListFacts
<1>9. IsInjective(deferredTags'[r]) /\ Range(deferredTags'[r]) = Range(deferredTags[r]) \cup {n}
  BY <1>5, <1>7, <1>8, ConsOnce
<1>10. OnceInv'
  BY <1>0, <1>3, <1>5, <1>9 DEF OnceInv
<1>11. {n} \subseteq content[p] /\ content'[p] = content[p] \ {n} /\ content'[q] = content[q] \cup {n}
  BY <1>4, <1>5, <1>6, <1>9
<1>12. \A x \in Csrs : /\ <<"free", x>> \in {p, q} \/ freeTags'[x] = freeTags[x]
                       /\ <<"deferred", x>> \in {p, q} \/ deferredTags'[x] = deferredTags[x]
                       /\ <<"used", x>> \in {p, q} \/ usedTags'[x] = usedTags[x]
  BY <1>3, <1>5
<1>13. Lists'
  <2> HIDE DEF p, q
  <2>5. /\ UNCHANGED populated /\ \A u \in Threads : thread'[u].cmd = thread[u].cmd
    BY <1>0, <1>3, <1>6, <1>11, <1>12
  <2>6. \A x \in Csrs : /\ <<"free", x>> \in {p, q} \/ freeTags'[x] = freeTags[x]
                        /\ <<"deferred", x>> \in {p, q} \/ deferredTags'[x] = deferredTags[x]
                        /\ <<"used", x>> \in {p, q} \/ usedTags'[x] = usedTags[x]
    BY <1>0, <1>3, <1>6, <1>11, <1>12
  <2>7. \A u \in Threads : /\ <<"detached", u>> \in {p, q} \/ thread'[u].detached = thread[u].detached
                           /\ <<"ready", u>> \in {p, q} \/ thread'[u].ready = thread[u].ready
                           /\ <<"pending", u>> \in {p, q} \/ thread'[u].pending = thread[u].pending
                           /\ <<"node", u>> \in {p, q} \/ thread'[u].node = thread[u].node
    BY <1>0, <1>3, <1>6, <1>11, <1>12
  <2> QED
    BY <1>0, <1>6, <1>11, <2>5, <2>6, <2>7, Moved
<1> QED
  BY <1>10, <1>13

\* releaseDeferredTags takes the deferred tags into the thread's hands, all at once.
LEMMA DetachLists ==
  ASSUME ControlInv, PlaceInv, NEW t \in Threads, DetachDeferred(t)
  PROVE  Lists' /\ OnceInv'
<1>0. TypeOK /\ OnceInv /\ Lists
  BY DEF ControlInv, PlaceInv, Lists
<1>1. PICK r \in Csrs : r = Csr(thread[t].cmd)
  BY DetachDeferredEffect DEF allocatorOf
<1>2. /\ deferredTags' = [deferredTags EXCEPT ![r] = <<>>] /\ UNCHANGED <<freeTags, usedTags, populated>>
      /\ thread[t].pc = "detach" /\ thread'[t].detached = deferredTags[r]
      /\ \A u \in Threads : /\ thread'[u].cmd = thread[u].cmd /\ thread'[u].node = thread[u].node
                            /\ thread'[u].ready = thread[u].ready /\ thread'[u].pending = thread[u].pending
      /\ \A u \in Threads \ {t} : thread'[u].detached = thread[u].detached
  <2>1. /\ Others(t) /\ Control(t, "sort", thread[t].cmd, thread[t].toResolve, thread[t].toDrop)
        /\ Has(t, thread[t].node, deferredTags[r], thread[t].ready, thread[t].pending)
        /\ deferredTags' = [deferredTags EXCEPT ![r] = <<>>] /\ UNCHANGED <<freeTags, usedTags, populated>>
        /\ thread[t].pc = "detach"
    BY <1>1, DetachDeferredEffect DEF allocatorOf, At
  <2> QED
    BY <2>1 DEF Others, Control, Has
<1>3. thread[t].detached = <<>>
  BY <1>2 DEF ControlInv, ThreadInv, ThreadOK
<1>4. deferredTags'[r] = <<>> /\ \A x \in Csrs \ {r} : deferredTags'[x] = deferredTags[x]
  BY <1>0, <1>2 DEF TypeOK
<1> DEFINE p == <<"deferred", r>>
           q == <<"detached", t>>
<1>5. /\ p \in Places /\ q \in Places /\ p # q /\ content[p] = Range(deferredTags[r]) /\ content[q] = Range(thread[t].detached)
      /\ content'[p] = Range(deferredTags'[r]) /\ content'[q] = Range(thread'[t].detached) /\ Home(p) = Home(q)
  BY <1>1, ContentFacts, ContentPrimed
<1>6. IsInjective(<<>>)
  BY DEF IsInjective
<1>7. OnceInv'
  BY <1>0, <1>2, <1>4, <1>6 DEF OnceInv
<1>8. content'[p] = content[p] \ content[p] /\ content'[q] = content[q] \cup content[p]
  BY <1>2, <1>3, <1>4, <1>5, EmptyRange
<1>9. \A x \in Csrs : <<"deferred", x>> \in {p, q} \/ deferredTags'[x] = deferredTags[x]
  BY <1>4
<1>10. \A u \in Threads : <<"detached", u>> \in {p, q} \/ thread'[u].detached = thread[u].detached
  BY <1>2
<1>11. Lists'
  <2> HIDE DEF p, q
  <2> DEFINE M == content[p]
  <2>1. M \subseteq content[p] /\ content'[p] = content[p] \ M /\ content'[q] = content[q] \cup M
    BY <1>8
  <2> HIDE DEF M
  <2>5. /\ UNCHANGED populated /\ \A u \in Threads : thread'[u].cmd = thread[u].cmd
    BY <1>0, <1>2, <1>5, <1>9, <1>10, <2>1
  <2>6. \A x \in Csrs : /\ <<"free", x>> \in {p, q} \/ freeTags'[x] = freeTags[x]
                        /\ <<"deferred", x>> \in {p, q} \/ deferredTags'[x] = deferredTags[x]
                        /\ <<"used", x>> \in {p, q} \/ usedTags'[x] = usedTags[x]
    BY <1>0, <1>2, <1>5, <1>9, <1>10, <2>1
  <2>7. \A u \in Threads : /\ <<"detached", u>> \in {p, q} \/ thread'[u].detached = thread[u].detached
                           /\ <<"ready", u>> \in {p, q} \/ thread'[u].ready = thread[u].ready
                           /\ <<"pending", u>> \in {p, q} \/ thread'[u].pending = thread[u].pending
                           /\ <<"node", u>> \in {p, q} \/ thread'[u].node = thread[u].node
    BY <1>0, <1>2, <1>5, <1>9, <1>10, <2>1
  <2> QED
    BY <1>0, <1>5, <2>1, <2>5, <2>6, <2>7, Moved
<1> QED
  BY <1>7, <1>11

\* A deferred tag that can be released goes to the ready ones.
LEMMA SortReadyLists ==
  ASSUME ControlInv, PlaceInv, NEW t \in Threads, SortDeferred(t), canBeReleased(Head(thread[t].detached))
  PROVE  Lists' /\ OnceInv'
<1>0. TypeOK /\ OnceInv /\ Lists
  BY DEF ControlInv, PlaceInv, Lists
<1> DEFINE n == Head(thread[t].detached)
<1>1. /\ Others(t) /\ Control(t, thread[t].pc, thread[t].cmd, thread[t].toResolve, thread[t].toDrop)
      /\ Has(t, thread[t].node, Tail(thread[t].detached), <<n>> \o thread[t].ready, thread[t].pending)
      /\ UNCHANGED <<freeTags, deferredTags, usedTags, populated>> /\ thread[t].detached # <<>>
  BY SortDeferredEffect
<1>2. /\ thread'[t].detached = Tail(thread[t].detached) /\ thread'[t].ready = <<n>> \o thread[t].ready
      /\ \A u \in Threads : /\ thread'[u].cmd = thread[u].cmd /\ thread'[u].node = thread[u].node
                            /\ thread'[u].pending = thread[u].pending
      /\ \A u \in Threads \ {t} : thread'[u].detached = thread[u].detached /\ thread'[u].ready = thread[u].ready
  BY <1>1 DEF Others, Control, Has
<1> DEFINE p == <<"detached", t>>
           q == <<"ready", t>>
<1>3. /\ p \in Places /\ q \in Places /\ p # q /\ content[p] = Range(thread[t].detached) /\ content[q] = Range(thread[t].ready)
      /\ content'[p] = Range(thread'[t].detached) /\ content'[q] = Range(thread'[t].ready) /\ Home(p) = Home(q)
  BY ContentFacts, ContentPrimed
<1>4. /\ thread[t].detached \in Seq(Tags) /\ IsInjective(thread[t].detached)
      /\ thread[t].ready \in Seq(Tags) /\ IsInjective(thread[t].ready)
  BY <1>0, ListFacts
<1>5. /\ IsInjective(thread'[t].detached) /\ Range(thread'[t].detached) = Range(thread[t].detached) \ {n}
      /\ n \in Range(thread[t].detached) /\ n \in Tags
  BY <1>1, <1>2, <1>4, TailOnce
<1>6. n \notin Range(thread[t].ready)
  BY <1>0, <1>3, <1>5, Apart
<1>7. IsInjective(thread'[t].ready) /\ Range(thread'[t].ready) = Range(thread[t].ready) \cup {n}
  <2> HIDE DEF n
  <2> QED
    BY <1>2, <1>4, <1>5, <1>6, ConsOnce
<1> HIDE DEF n
<1>8. OnceInv'
  BY <1>0, <1>1, <1>2, <1>5, <1>7 DEF OnceInv
<1>9. {n} \subseteq content[p] /\ content'[p] = content[p] \ {n} /\ content'[q] = content[q] \cup {n}
  BY <1>3, <1>5, <1>7
<1>10. \A u \in Threads : /\ <<"detached", u>> \in {p, q} \/ thread'[u].detached = thread[u].detached
                          /\ <<"ready", u>> \in {p, q} \/ thread'[u].ready = thread[u].ready
  BY <1>2
<1>11. Lists'
  <2> HIDE DEF p, q
  <2>5. /\ UNCHANGED populated /\ \A u \in Threads : thread'[u].cmd = thread[u].cmd
    BY <1>0, <1>1, <1>2, <1>3, <1>9, <1>10
  <2>6. \A x \in Csrs : /\ <<"free", x>> \in {p, q} \/ freeTags'[x] = freeTags[x]
                        /\ <<"deferred", x>> \in {p, q} \/ deferredTags'[x] = deferredTags[x]
                        /\ <<"used", x>> \in {p, q} \/ usedTags'[x] = usedTags[x]
    BY <1>0, <1>1, <1>2, <1>3, <1>9, <1>10
  <2>7. \A u \in Threads : /\ <<"detached", u>> \in {p, q} \/ thread'[u].detached = thread[u].detached
                           /\ <<"ready", u>> \in {p, q} \/ thread'[u].ready = thread[u].ready
                           /\ <<"pending", u>> \in {p, q} \/ thread'[u].pending = thread[u].pending
                           /\ <<"node", u>> \in {p, q} \/ thread'[u].node = thread[u].node
    BY <1>0, <1>1, <1>2, <1>3, <1>9, <1>10
  <2> QED
    BY <1>0, <1>3, <1>9, <2>5, <2>6, <2>7, Moved
<1> QED
  BY <1>8, <1>11

\* A deferred tag that cannot be released goes to the pending ones.
LEMMA SortPendingLists ==
  ASSUME ControlInv, PlaceInv, NEW t \in Threads, SortDeferred(t), ~canBeReleased(Head(thread[t].detached))
  PROVE  Lists' /\ OnceInv'
<1>0. TypeOK /\ OnceInv /\ Lists
  BY DEF ControlInv, PlaceInv, Lists
<1> DEFINE n == Head(thread[t].detached)
<1>1. /\ Others(t) /\ Control(t, thread[t].pc, thread[t].cmd, thread[t].toResolve, thread[t].toDrop)
      /\ Has(t, thread[t].node, Tail(thread[t].detached), thread[t].ready, <<n>> \o thread[t].pending)
      /\ UNCHANGED <<freeTags, deferredTags, usedTags, populated>> /\ thread[t].detached # <<>>
  BY SortDeferredEffect
<1>2. /\ thread'[t].detached = Tail(thread[t].detached) /\ thread'[t].pending = <<n>> \o thread[t].pending
      /\ \A u \in Threads : /\ thread'[u].cmd = thread[u].cmd /\ thread'[u].node = thread[u].node
                            /\ thread'[u].ready = thread[u].ready
      /\ \A u \in Threads \ {t} : thread'[u].detached = thread[u].detached /\ thread'[u].pending = thread[u].pending
  BY <1>1 DEF Others, Control, Has
<1> DEFINE p == <<"detached", t>>
           q == <<"pending", t>>
<1>3. /\ p \in Places /\ q \in Places /\ p # q /\ content[p] = Range(thread[t].detached) /\ content[q] = Range(thread[t].pending)
      /\ content'[p] = Range(thread'[t].detached) /\ content'[q] = Range(thread'[t].pending) /\ Home(p) = Home(q)
  BY ContentFacts, ContentPrimed
<1>4. /\ thread[t].detached \in Seq(Tags) /\ IsInjective(thread[t].detached)
      /\ thread[t].pending \in Seq(Tags) /\ IsInjective(thread[t].pending)
  BY <1>0, ListFacts
<1>5. /\ IsInjective(thread'[t].detached) /\ Range(thread'[t].detached) = Range(thread[t].detached) \ {n}
      /\ n \in Range(thread[t].detached) /\ n \in Tags
  BY <1>1, <1>2, <1>4, TailOnce
<1>6. n \notin Range(thread[t].pending)
  BY <1>0, <1>3, <1>5, Apart
<1>7. IsInjective(thread'[t].pending) /\ Range(thread'[t].pending) = Range(thread[t].pending) \cup {n}
  <2> HIDE DEF n
  <2> QED
    BY <1>2, <1>4, <1>5, <1>6, ConsOnce
<1> HIDE DEF n
<1>8. OnceInv'
  BY <1>0, <1>1, <1>2, <1>5, <1>7 DEF OnceInv
<1>9. {n} \subseteq content[p] /\ content'[p] = content[p] \ {n} /\ content'[q] = content[q] \cup {n}
  BY <1>3, <1>5, <1>7
<1>10. \A u \in Threads : /\ <<"detached", u>> \in {p, q} \/ thread'[u].detached = thread[u].detached
                          /\ <<"pending", u>> \in {p, q} \/ thread'[u].pending = thread[u].pending
  BY <1>2
<1>11. Lists'
  <2> HIDE DEF p, q
  <2>5. /\ UNCHANGED populated /\ \A u \in Threads : thread'[u].cmd = thread[u].cmd
    BY <1>0, <1>1, <1>2, <1>3, <1>9, <1>10
  <2>6. \A x \in Csrs : /\ <<"free", x>> \in {p, q} \/ freeTags'[x] = freeTags[x]
                        /\ <<"deferred", x>> \in {p, q} \/ deferredTags'[x] = deferredTags[x]
                        /\ <<"used", x>> \in {p, q} \/ usedTags'[x] = usedTags[x]
    BY <1>0, <1>1, <1>2, <1>3, <1>9, <1>10
  <2>7. \A u \in Threads : /\ <<"detached", u>> \in {p, q} \/ thread'[u].detached = thread[u].detached
                           /\ <<"ready", u>> \in {p, q} \/ thread'[u].ready = thread[u].ready
                           /\ <<"pending", u>> \in {p, q} \/ thread'[u].pending = thread[u].pending
                           /\ <<"node", u>> \in {p, q} \/ thread'[u].node = thread[u].node
    BY <1>0, <1>1, <1>2, <1>3, <1>9, <1>10
  <2> QED
    BY <1>0, <1>3, <1>9, <2>5, <2>6, <2>7, Moved
<1> QED
  BY <1>8, <1>11

\* The ready tags are spliced to the free tags.
LEMMA SpliceReadyLists ==
  ASSUME ControlInv, PlaceInv, NEW t \in Threads, SpliceReady(t)
  PROVE  Lists' /\ OnceInv'
<1>0. TypeOK /\ OnceInv /\ Lists
  BY DEF ControlInv, PlaceInv, Lists
<1>1. PICK r \in Csrs : r = Csr(thread[t].cmd)
  BY SpliceReadyEffect DEF allocatorOf
<1>2. /\ freeTags' = [freeTags EXCEPT ![r] = @ \o thread[t].ready] /\ UNCHANGED <<deferredTags, usedTags, populated>>
      /\ thread'[t].ready = <<>>
      /\ \A u \in Threads : /\ thread'[u].cmd = thread[u].cmd /\ thread'[u].node = thread[u].node
                            /\ thread'[u].detached = thread[u].detached /\ thread'[u].pending = thread[u].pending
      /\ \A u \in Threads \ {t} : thread'[u].ready = thread[u].ready
  <2>1. /\ Others(t) /\ Control(t, "splice", thread[t].cmd, thread[t].toResolve, thread[t].toDrop)
        /\ Has(t, thread[t].node, thread[t].detached, <<>>, thread[t].pending)
        /\ freeTags' = [freeTags EXCEPT ![r] = @ \o thread[t].ready] /\ UNCHANGED <<deferredTags, usedTags, populated>>
    BY <1>1, SpliceReadyEffect DEF allocatorOf
  <2> QED
    BY <2>1 DEF Others, Control, Has
<1>3. freeTags'[r] = freeTags[r] \o thread[t].ready /\ \A x \in Csrs \ {r} : freeTags'[x] = freeTags[x]
  BY <1>0, <1>2 DEF TypeOK
<1> DEFINE p == <<"ready", t>>
           q == <<"free", r>>
<1>4. /\ p \in Places /\ q \in Places /\ p # q /\ content[p] = Range(thread[t].ready) /\ content[q] = Range(freeTags[r])
      /\ content'[p] = Range(thread'[t].ready) /\ content'[q] = Range(freeTags'[r]) /\ Home(p) = Home(q)
  BY <1>1, ContentFacts, ContentPrimed
<1>5. /\ freeTags[r] \in Seq(Tags) /\ IsInjective(freeTags[r])
      /\ thread[t].ready \in Seq(Tags) /\ IsInjective(thread[t].ready)
  BY <1>0, ListFacts
<1>6. Range(freeTags[r]) \cap Range(thread[t].ready) = {}
  BY <1>0, <1>4, Apart
<1>7. IsInjective(freeTags'[r]) /\ Range(freeTags'[r]) = Range(freeTags[r]) \cup Range(thread[t].ready)
  BY <1>3, <1>5, <1>6, ConcatOnce
<1>8. IsInjective(<<>>)
  BY DEF IsInjective
<1>9. OnceInv'
  BY <1>0, <1>2, <1>3, <1>7, <1>8 DEF OnceInv
<1>10. content'[p] = content[p] \ content[p] /\ content'[q] = content[q] \cup content[p]
  BY <1>2, <1>4, <1>7, EmptyRange
<1>11. \A x \in Csrs : <<"free", x>> \in {p, q} \/ freeTags'[x] = freeTags[x]
  BY <1>3
<1>12. \A u \in Threads : <<"ready", u>> \in {p, q} \/ thread'[u].ready = thread[u].ready
  BY <1>2
<1>13. Lists'
  <2> HIDE DEF p, q
  <2> DEFINE M == content[p]
  <2>1. M \subseteq content[p] /\ content'[p] = content[p] \ M /\ content'[q] = content[q] \cup M
    BY <1>10
  <2> HIDE DEF M
  <2>5. /\ UNCHANGED populated /\ \A u \in Threads : thread'[u].cmd = thread[u].cmd
    BY <1>0, <1>2, <1>4, <1>11, <1>12, <2>1
  <2>6. \A x \in Csrs : /\ <<"free", x>> \in {p, q} \/ freeTags'[x] = freeTags[x]
                        /\ <<"deferred", x>> \in {p, q} \/ deferredTags'[x] = deferredTags[x]
                        /\ <<"used", x>> \in {p, q} \/ usedTags'[x] = usedTags[x]
    BY <1>0, <1>2, <1>4, <1>11, <1>12, <2>1
  <2>7. \A u \in Threads : /\ <<"detached", u>> \in {p, q} \/ thread'[u].detached = thread[u].detached
                           /\ <<"ready", u>> \in {p, q} \/ thread'[u].ready = thread[u].ready
                           /\ <<"pending", u>> \in {p, q} \/ thread'[u].pending = thread[u].pending
                           /\ <<"node", u>> \in {p, q} \/ thread'[u].node = thread[u].node
    BY <1>0, <1>2, <1>4, <1>11, <1>12, <2>1
  <2> QED
    BY <1>0, <1>4, <2>1, <2>5, <2>6, <2>7, Moved
<1> QED
  BY <1>9, <1>13

\* The pending tags are spliced to what other threads have deferred since.
LEMMA SplicePendingLists ==
  ASSUME ControlInv, PlaceInv, NEW t \in Threads, SplicePending(t)
  PROVE  Lists' /\ OnceInv'
<1>0. TypeOK /\ OnceInv /\ Lists
  BY DEF ControlInv, PlaceInv, Lists
<1>1. PICK r \in Csrs : r = Csr(thread[t].cmd)
  BY SplicePendingEffect DEF allocatorOf
<1>2. /\ deferredTags' = [deferredTags EXCEPT ![r] = @ \o thread[t].pending] /\ UNCHANGED <<freeTags, usedTags, populated>>
      /\ thread'[t].pending = <<>>
      /\ \A u \in Threads : /\ thread'[u].cmd = thread[u].cmd /\ thread'[u].node = thread[u].node
                            /\ thread'[u].detached = thread[u].detached /\ thread'[u].ready = thread[u].ready
      /\ \A u \in Threads \ {t} : thread'[u].pending = thread[u].pending
  <2>1. /\ Others(t) /\ Control(t, "remove", thread[t].cmd, thread[t].toResolve, thread[t].toDrop)
        /\ Has(t, thread[t].node, thread[t].detached, thread[t].ready, <<>>)
        /\ deferredTags' = [deferredTags EXCEPT ![r] = @ \o thread[t].pending] /\ UNCHANGED <<freeTags, usedTags, populated>>
    BY <1>1, SplicePendingEffect DEF allocatorOf
  <2> QED
    BY <2>1 DEF Others, Control, Has
<1>3. deferredTags'[r] = deferredTags[r] \o thread[t].pending /\ \A x \in Csrs \ {r} : deferredTags'[x] = deferredTags[x]
  BY <1>0, <1>2 DEF TypeOK
<1> DEFINE p == <<"pending", t>>
           q == <<"deferred", r>>
<1>4. /\ p \in Places /\ q \in Places /\ p # q /\ content[p] = Range(thread[t].pending) /\ content[q] = Range(deferredTags[r])
      /\ content'[p] = Range(thread'[t].pending) /\ content'[q] = Range(deferredTags'[r]) /\ Home(p) = Home(q)
  BY <1>1, ContentFacts, ContentPrimed
<1>5. /\ deferredTags[r] \in Seq(Tags) /\ IsInjective(deferredTags[r])
      /\ thread[t].pending \in Seq(Tags) /\ IsInjective(thread[t].pending)
  BY <1>0, ListFacts
<1>6. Range(deferredTags[r]) \cap Range(thread[t].pending) = {}
  BY <1>0, <1>4, Apart
<1>7. IsInjective(deferredTags'[r]) /\ Range(deferredTags'[r]) = Range(deferredTags[r]) \cup Range(thread[t].pending)
  BY <1>3, <1>5, <1>6, ConcatOnce
<1>8. IsInjective(<<>>)
  BY DEF IsInjective
<1>9. OnceInv'
  BY <1>0, <1>2, <1>3, <1>7, <1>8 DEF OnceInv
<1>10. content'[p] = content[p] \ content[p] /\ content'[q] = content[q] \cup content[p]
  BY <1>2, <1>4, <1>7, EmptyRange
<1>11. \A x \in Csrs : <<"deferred", x>> \in {p, q} \/ deferredTags'[x] = deferredTags[x]
  BY <1>3
<1>12. \A u \in Threads : <<"pending", u>> \in {p, q} \/ thread'[u].pending = thread[u].pending
  BY <1>2
<1>13. Lists'
  <2> HIDE DEF p, q
  <2> DEFINE M == content[p]
  <2>1. M \subseteq content[p] /\ content'[p] = content[p] \ M /\ content'[q] = content[q] \cup M
    BY <1>10
  <2> HIDE DEF M
  <2>5. /\ UNCHANGED populated /\ \A u \in Threads : thread'[u].cmd = thread[u].cmd
    BY <1>0, <1>2, <1>4, <1>11, <1>12, <2>1
  <2>6. \A x \in Csrs : /\ <<"free", x>> \in {p, q} \/ freeTags'[x] = freeTags[x]
                        /\ <<"deferred", x>> \in {p, q} \/ deferredTags'[x] = deferredTags[x]
                        /\ <<"used", x>> \in {p, q} \/ usedTags'[x] = usedTags[x]
    BY <1>0, <1>2, <1>4, <1>11, <1>12, <2>1
  <2>7. \A u \in Threads : /\ <<"detached", u>> \in {p, q} \/ thread'[u].detached = thread[u].detached
                           /\ <<"ready", u>> \in {p, q} \/ thread'[u].ready = thread[u].ready
                           /\ <<"pending", u>> \in {p, q} \/ thread'[u].pending = thread[u].pending
                           /\ <<"node", u>> \in {p, q} \/ thread'[u].node = thread[u].node
    BY <1>0, <1>2, <1>4, <1>11, <1>12, <2>1
  <2> QED
    BY <1>0, <1>4, <2>1, <2>5, <2>6, <2>7, Moved
<1> QED
  BY <1>9, <1>13

\* getTag takes the first free tag into the thread's hands.
LEMMA RemoveLists ==
  ASSUME ControlInv, PlaceInv, NEW t \in Threads, RemoveFree(t)
  PROVE  Lists' /\ OnceInv'
<1>0. TypeOK /\ OnceInv /\ Lists
  BY DEF ControlInv, PlaceInv, Lists
<1>1. PICK r \in Csrs : r = Csr(thread[t].cmd)
  BY RemoveFreeEffect DEF allocatorOf
<1> DEFINE n == Head(freeTags[r])
<1>2. /\ freeTags' = [freeTags EXCEPT ![r] = Tail(@)] /\ UNCHANGED <<deferredTags, usedTags, populated>>
      /\ freeTags[r] # <<>> /\ thread[t].pc = "remove" /\ thread'[t].node = n
      /\ \A u \in Threads : /\ thread'[u].cmd = thread[u].cmd /\ thread'[u].pending = thread[u].pending
                            /\ thread'[u].detached = thread[u].detached /\ thread'[u].ready = thread[u].ready
      /\ \A u \in Threads \ {t} : thread'[u].node = thread[u].node
  <2>1. /\ Others(t) /\ Control(t, "use", thread[t].cmd, thread[t].toResolve, thread[t].toDrop)
        /\ Has(t, n, thread[t].detached, thread[t].ready, thread[t].pending)
        /\ freeTags' = [freeTags EXCEPT ![r] = Tail(@)] /\ UNCHANGED <<deferredTags, usedTags, populated>>
        /\ freeTags[r] # <<>> /\ thread[t].pc = "remove"
    BY <1>1, RemoveFreeEffect DEF allocatorOf, At
  <2> QED
    BY <2>1 DEF Others, Control, Has
<1>3. thread[t].node = None
  BY <1>2 DEF ControlInv, ThreadInv, ThreadOK
<1>4. freeTags'[r] = Tail(freeTags[r]) /\ \A x \in Csrs \ {r} : freeTags'[x] = freeTags[x]
  BY <1>0, <1>2 DEF TypeOK
<1> DEFINE p == <<"free", r>>
           q == <<"node", t>>
<1>5. /\ p \in Places /\ q \in Places /\ p # q /\ content[p] = Range(freeTags[r]) /\ content[q] = {thread[t].node} \ {None}
      /\ content'[p] = Range(freeTags'[r]) /\ content'[q] = {thread'[t].node} \ {None} /\ Home(p) = Home(q)
  BY <1>1, ContentFacts, ContentPrimed
<1>6. freeTags[r] \in Seq(Tags) /\ IsInjective(freeTags[r])
  BY <1>0, ListFacts
<1>7. /\ IsInjective(freeTags'[r]) /\ Range(freeTags'[r]) = Range(freeTags[r]) \ {n}
      /\ n \in Range(freeTags[r]) /\ n \in Tags
  BY <1>2, <1>4, <1>6, TailOnce
<1>8. n # None
  BY <1>7, PacketsAssumption
<1> HIDE DEF n
<1>9. OnceInv'
  BY <1>0, <1>2, <1>4, <1>7 DEF OnceInv
<1>10. {n} \subseteq content[p] /\ content'[p] = content[p] \ {n} /\ content'[q] = content[q] \cup {n}
  BY <1>2, <1>3, <1>5, <1>7, <1>8
<1>11. \A x \in Csrs : <<"free", x>> \in {p, q} \/ freeTags'[x] = freeTags[x]
  BY <1>4
<1>12. \A u \in Threads : <<"node", u>> \in {p, q} \/ thread'[u].node = thread[u].node
  BY <1>2
<1>13. Lists'
  <2> HIDE DEF p, q
  <2>5. /\ UNCHANGED populated /\ \A u \in Threads : thread'[u].cmd = thread[u].cmd
    BY <1>0, <1>2, <1>5, <1>10, <1>11, <1>12
  <2>6. \A x \in Csrs : /\ <<"free", x>> \in {p, q} \/ freeTags'[x] = freeTags[x]
                        /\ <<"deferred", x>> \in {p, q} \/ deferredTags'[x] = deferredTags[x]
                        /\ <<"used", x>> \in {p, q} \/ usedTags'[x] = usedTags[x]
    BY <1>0, <1>2, <1>5, <1>10, <1>11, <1>12
  <2>7. \A u \in Threads : /\ <<"detached", u>> \in {p, q} \/ thread'[u].detached = thread[u].detached
                           /\ <<"ready", u>> \in {p, q} \/ thread'[u].ready = thread[u].ready
                           /\ <<"pending", u>> \in {p, q} \/ thread'[u].pending = thread[u].pending
                           /\ <<"node", u>> \in {p, q} \/ thread'[u].node = thread[u].node
    BY <1>0, <1>2, <1>5, <1>10, <1>11, <1>12
  <2> QED
    BY <1>0, <1>5, <1>10, <2>5, <2>6, <2>7, Moved
<1> QED
  BY <1>9, <1>13

\* getTag puts the tag among the used ones.
LEMMA UseLists ==
  ASSUME ControlInv, PlaceInv, NEW t \in Threads, UseTag(t)
  PROVE  Lists' /\ OnceInv'
<1>0. TypeOK /\ OnceInv /\ Lists
  BY DEF ControlInv, PlaceInv, Lists
<1>1. PICK r \in Csrs : r = Csr(thread[t].cmd)
  BY UseTagEffect
<1>2. PICK n \in Tags : n = thread[t].node
  BY UseTagEffect
<1>3. /\ usedTags' = [usedTags EXCEPT ![r] = @ \cup {n}] /\ UNCHANGED <<freeTags, deferredTags, populated>>
      /\ thread'[t].node = None
      /\ \A u \in Threads : /\ thread'[u].cmd = thread[u].cmd /\ thread'[u].pending = thread[u].pending
                            /\ thread'[u].detached = thread[u].detached /\ thread'[u].ready = thread[u].ready
      /\ \A u \in Threads \ {t} : thread'[u].node = thread[u].node
  <2>1. /\ Others(t) /\ Control(t, "dispatch", thread[t].cmd, thread[t].toResolve, thread[t].toDrop)
        /\ Has(t, None, thread[t].detached, thread[t].ready, thread[t].pending)
        /\ usedTags' = [usedTags EXCEPT ![r] = @ \cup {n}] /\ UNCHANGED <<freeTags, deferredTags, populated>>
    BY <1>1, <1>2, UseTagEffect
  <2> QED
    BY <2>1 DEF Others, Control, Has
<1>4. usedTags'[r] = usedTags[r] \cup {n} /\ \A x \in Csrs \ {r} : usedTags'[x] = usedTags[x]
  BY <1>0, <1>3 DEF TypeOK
<1> DEFINE p == <<"node", t>>
           q == <<"used", r>>
<1>5. /\ p \in Places /\ q \in Places /\ p # q /\ content[q] = usedTags[r] /\ content[p] = {thread[t].node} \ {None}
      /\ content'[q] = usedTags'[r] /\ content'[p] = {thread'[t].node} \ {None} /\ Home(p) = Home(q)
  BY <1>1, ContentFacts, ContentPrimed
<1>6. n # None
  BY PacketsAssumption
<1>7. OnceInv'
  BY <1>0, <1>3 DEF OnceInv
<1>8. {n} \subseteq content[p] /\ content'[p] = content[p] \ {n} /\ content'[q] = content[q] \cup {n}
  BY <1>2, <1>3, <1>4, <1>5, <1>6
<1>9. \A x \in Csrs : <<"used", x>> \in {p, q} \/ usedTags'[x] = usedTags[x]
  BY <1>4
<1>10. \A u \in Threads : <<"node", u>> \in {p, q} \/ thread'[u].node = thread[u].node
  BY <1>3
<1>11. Lists'
  <2> HIDE DEF p, q
  <2>5. /\ UNCHANGED populated /\ \A u \in Threads : thread'[u].cmd = thread[u].cmd
    BY <1>0, <1>3, <1>5, <1>8, <1>9, <1>10
  <2>6. \A x \in Csrs : /\ <<"free", x>> \in {p, q} \/ freeTags'[x] = freeTags[x]
                        /\ <<"deferred", x>> \in {p, q} \/ deferredTags'[x] = deferredTags[x]
                        /\ <<"used", x>> \in {p, q} \/ usedTags'[x] = usedTags[x]
    BY <1>0, <1>3, <1>5, <1>8, <1>9, <1>10
  <2>7. \A u \in Threads : /\ <<"detached", u>> \in {p, q} \/ thread'[u].detached = thread[u].detached
                           /\ <<"ready", u>> \in {p, q} \/ thread'[u].ready = thread[u].ready
                           /\ <<"pending", u>> \in {p, q} \/ thread'[u].pending = thread[u].pending
                           /\ <<"node", u>> \in {p, q} \/ thread'[u].node = thread[u].node
    BY <1>0, <1>3, <1>5, <1>8, <1>9, <1>10
  <2> QED
    BY <1>0, <1>5, <1>8, <2>5, <2>6, <2>7, Moved
<1> QED
  BY <1>7, <1>11

\* New tags are added to one place.
LEMMA PartitionAdd ==
  ASSUME NEW P, NEW f, NEW g, DOMAIN f = P, DOMAIN g = P, NEW U, Partition(f, U),
         NEW p \in P, NEW M, M \cap U = {}, g[p] = f[p] \cup M, \A x \in P : x # p => g[x] = f[x]
  PROVE  Partition(g, U \cup M)
<1>1. \A x, y \in P : x # y => f[x] \cap f[y] = {}
  BY DEF Partition
<1>2. \A n : n \in U <=> \E x \in P : n \in f[x]
  BY DEF Partition
<1>3. ASSUME NEW x \in P, NEW y \in P, x # y PROVE g[x] \cap g[y] = {}
  <2>1. f[x] \cap M = {} /\ f[y] \cap M = {} /\ f[x] \cap f[y] = {}
    BY <1>1, <1>2, <1>3
  <2> QED
    BY <1>3, <2>1
<1>4. ASSUME NEW n PROVE n \in U \cup M <=> \E x \in P : n \in g[x]
  <2>1. ASSUME NEW x \in P, n \in f[x] PROVE \E y \in P : n \in g[y]
    BY <2>1
  <2>2. ASSUME NEW x \in P, n \in g[x] PROVE n \in M \/ \E y \in P : n \in f[y]
    BY <2>2
  <2> QED
    BY <1>2, <2>1, <2>2
<1>5. UNION {g[x] : x \in P} = U \cup M
  BY <1>4
<1> QED
  BY <1>3, <1>5 DEF Partition

\* The next tags of the memory of a receiver.
LEMMA NextTags ==
  ASSUME NEW r \in Csrs, NEW a \in Nat, a + TagCount <= Len(TagMemory[r])
  PROVE  LET s == SubSeq(TagMemory[r], a + 1, a + TagCount) IN
         /\ s \in Seq(Tags) /\ IsInjective(s) /\ Range(s) = {TagMemory[r][i] : i \in a + 1 .. a + TagCount}
<1> DEFINE m == TagMemory[r]
           s == SubSeq(m, a + 1, a + TagCount)
<1>1. TagCount \in Nat \ {0} /\ m \in Seq(Tags) /\ IsInjective(m)
  BY PacketsAssumption
<1>2. Len(m) \in Nat /\ DOMAIN m = 1..Len(m) /\ \A i \in 1..Len(m) : m[i] \in Tags
  BY <1>1, LenProperties, ElementOfSeq
<1>3. a + TagCount <= Len(m)
  OBVIOUS
<1> HIDE DEF m
<1>4. s = [i \in 1 .. TagCount |-> m[a + i]]
  <2>1. (a + TagCount) - (a + 1) + 1 = TagCount
    BY <1>1
  <2>2. \A i \in 1..TagCount : (a + 1) + i - 1 = a + i
    BY <1>1
  <2>3. s = [i \in 1 .. ((a + TagCount) - (a + 1) + 1) |-> m[(a + 1) + i - 1]]
    BY <1>1, <1>2, <1>3
  <2> QED
    BY <2>1, <2>2, <2>3
<1>5. \A i \in 1..TagCount : a + i \in 1..Len(m)
  BY <1>1, <1>2, <1>3
<1> HIDE DEF s
<1>6. s \in Seq(Tags) /\ DOMAIN s = 1..TagCount
  BY <1>1, <1>2, <1>4, <1>5
<1>7. ASSUME NEW i \in 1..TagCount, NEW j \in 1..TagCount, s[i] = s[j] PROVE i = j
  <2>1. m[a + i] = m[a + j] /\ a + i \in DOMAIN m /\ a + j \in DOMAIN m
    BY <1>2, <1>4, <1>5, <1>7
  <2>2. a + i = a + j
    BY <1>1, <2>1 DEF IsInjective
  <2> QED
    BY <1>1, <2>2
<1>8. IsInjective(s)
  BY <1>6, <1>7 DEF IsInjective
<1>9. ASSUME NEW x PROVE x \in Range(s) <=> x \in {m[i] : i \in a + 1 .. a + TagCount}
  <2>1. ASSUME NEW i \in 1..TagCount, x = s[i] PROVE \E j \in a + 1 .. a + TagCount : x = m[j]
    <3>1. a + i \in a + 1 .. a + TagCount /\ x = m[a + i]
      BY <1>1, <1>4, <2>1
    <3> QED
      BY <3>1
  <2>2. ASSUME NEW j \in a + 1 .. a + TagCount, x = m[j] PROVE \E i \in 1..TagCount : x = s[i]
    <3>1. j - a \in 1..TagCount /\ a + (j - a) = j
      BY <1>1
    <3>2. s[j - a] = m[j]
      BY <1>4, <3>1
    <3> QED
      BY <2>2, <3>1, <3>2
  <2> QED
    BY <1>6, <2>1, <2>2 DEF Range
<1> QED
  BY <1>6, <1>8, <1>9 DEF s, m

\* The tags that a receiver has created are of its memory.
LEMMA CreatedTags ==
  ASSUME TypeOK, HomeInv, NEW r \in Csrs
  PROVE  Created(r) \subseteq Range(TagMemory[r])
<1>1. TagMemory[r] \in Seq(Tags) /\ populated[r] \in Nat /\ populated[r] <= Len(TagMemory[r])
  BY PacketsAssumption DEF TypeOK, HomeInv
<1>2. DOMAIN TagMemory[r] = 1..Len(TagMemory[r]) /\ Len(TagMemory[r]) \in Nat
  BY <1>1, LenProperties
<1>3. 1..populated[r] \subseteq DOMAIN TagMemory[r]
  BY <1>1, <1>2
<1> QED
  BY <1>3 DEF Created, Range

\* A thread has tags in its hands only while it is in getTag.
LEMMA Handful ==
  ASSUME ControlInv, NEW t \in Threads, NEW x \in {<<"detached", t>>, <<"ready", t>>, <<"pending", t>>, <<"node", t>>},
         content[x] # {}
  PROVE  thread[t].pc \in {"use", "sort", "splice"}
<1>1. ThreadOK(thread[t])
  BY DEF ControlInv, ThreadInv
<1>2. CASE x = <<"detached", t>>
  <2>1. thread[t].detached # <<>>
    BY <1>2, ContentFacts, EmptyRange
  <2> QED
    BY <1>1, <2>1 DEF ThreadOK
<1>3. CASE x = <<"ready", t>>
  <2>1. thread[t].ready # <<>>
    BY <1>3, ContentFacts, EmptyRange
  <2> QED
    BY <1>1, <2>1 DEF ThreadOK
<1>4. CASE x = <<"pending", t>>
  <2>1. thread[t].pending # <<>>
    BY <1>4, ContentFacts, EmptyRange
  <2> QED
    BY <1>1, <2>1 DEF ThreadOK
<1>5. CASE x = <<"node", t>>
  <2>1. thread[t].node # None
    BY <1>5, ContentFacts
  <2> QED
    BY <1>1, <2>1 DEF ThreadOK
<1> QED
  BY <1>2, <1>3, <1>4, <1>5

\* A place with tags belongs to a receiver.
LEMMA HomeType ==
  ASSUME ControlInv, NEW x \in Places, content[x] # {}
  PROVE  Home(x) \in Csrs
<1>1. ASSUME NEW r \in Csrs, x \in {<<"free", r>>, <<"deferred", r>>, <<"used", r>>} PROVE Home(x) \in Csrs
  BY <1>1, ContentFacts
<1>2. ASSUME NEW t \in Threads, x \in {<<"detached", t>>, <<"ready", t>>, <<"pending", t>>, <<"node", t>>}
      PROVE  Home(x) \in Csrs
  <2>1. thread[t].pc \in {"use", "sort", "splice"}
    BY <1>2, Handful
  <2>2. thread[t].cmd \in Commands
    BY <2>1, Fields DEF ControlInv, ThreadInv, ThreadOK, TypeOK
  <2>3. Home(x) = Csr(thread[t].cmd)
    BY <1>2, ContentFacts
  <2> QED
    BY <2>2, <2>3, ConstantFacts
<1> QED
  BY <1>1, <1>2, PlacesAre

\* populateFreeTags creates the next tags of the memory, and only them.
LEMMA PopulateLists ==
  ASSUME ControlInv, PlaceInv, NEW t \in Threads, populateFreeTags(t)
  PROVE  Lists' /\ OnceInv'
<1>0. TypeOK /\ OnceInv /\ Lists /\ HomeInv
  BY DEF ControlInv, PlaceInv, Lists
<1>1. PICK r \in Csrs : r = Csr(thread[t].cmd)
  BY PopulateEffect DEF allocatorOf
<1> DEFINE a == populated[r]
           s == SubSeq(TagMemory[r], a + 1, a + TagCount)
           N == Range(s)
<1>2. /\ freeTags[r] = <<>> /\ a + TagCount <= Len(TagMemory[r])
      /\ freeTags' = [freeTags EXCEPT ![r] = s] /\ populated' = [populated EXCEPT ![r] = @ + TagCount]
      /\ UNCHANGED <<thread, usedTags, deferredTags>>
  BY <1>1, PopulateEffect DEF allocatorOf
<1>3. a \in Nat /\ TagCount \in Nat /\ populated \in [Csrs -> Nat]
  BY <1>0, PacketsAssumption DEF TypeOK
<1>4. s \in Seq(Tags) /\ IsInjective(s) /\ N = {TagMemory[r][i] : i \in a + 1 .. a + TagCount}
  <2> HIDE DEF a
  <2> QED
    BY <1>2, <1>3, NextTags
<1> HIDE DEF s
<1>5. /\ freeTags'[r] = s /\ populated'[r] = a + TagCount
      /\ \A x \in Csrs \ {r} : freeTags'[x] = freeTags[x] /\ populated'[x] = populated[x]
  BY <1>0, <1>2, <1>3 DEF TypeOK
<1>6. Created(r)' = Created(r) \cup N /\ \A x \in Csrs \ {r} : Created(x)' = Created(x)
  <2>1. 1 .. a + TagCount = (1..a) \cup (a + 1 .. a + TagCount)
    <3> HIDE DEF a
    <3> QED
      BY <1>3
  <2>2. Created(r)' = {TagMemory[r][i] : i \in 1 .. a + TagCount} /\ Created(r) = {TagMemory[r][i] : i \in 1..a}
    BY <1>5 DEF Created
  <2>3. \A x \in Csrs \ {r} : Created(x)' = Created(x)
    BY <1>5 DEF Created
  <2> HIDE DEF a
  <2>4. {TagMemory[r][i] : i \in 1 .. a + TagCount}
          = {TagMemory[r][i] : i \in 1..a} \cup {TagMemory[r][i] : i \in a + 1 .. a + TagCount}
    BY <2>1
  <2> QED
    BY <1>4, <2>2, <2>3, <2>4
<1>7. N \cap AllCreated = {}
  <2> SUFFICES ASSUME NEW n \in N, NEW x \in Csrs, n \in Created(x) PROVE FALSE
    BY DEF AllCreated
  <2>1. PICK i \in a + 1 .. a + TagCount : n = TagMemory[r][i]
    BY <1>4
  <2>2. TagMemory[r] \in Seq(Tags) /\ IsInjective(TagMemory[r])
    BY PacketsAssumption
  <2>3. Len(TagMemory[r]) \in Nat /\ DOMAIN TagMemory[r] = 1..Len(TagMemory[r])
    BY <2>2, LenProperties
  <2>4. i \in DOMAIN TagMemory[r] /\ i \in Int /\ i > a
    <3> HIDE DEF a
    <3> QED
      BY <1>2, <1>3, <2>3
  <2>5. n \in Range(TagMemory[r])
    BY <2>1, <2>4 DEF Range
  <2>6. n \in Range(TagMemory[x])
    BY <1>0, CreatedTags
  <2>7. x = r
    BY <2>5, <2>6, PacketsAssumption
  <2>8. PICK j \in 1..a : n = TagMemory[r][j]
    BY <2>7 DEF Created
  <2>9. j \in DOMAIN TagMemory[r] /\ j # i
    <3> HIDE DEF a
    <3> QED
      BY <1>2, <1>3, <2>3, <2>4
  <2> QED
    BY <2>1, <2>2, <2>4, <2>8, <2>9 DEF IsInjective
<1> DEFINE p == <<"free", r>>
<1>8. p \in Places /\ content[p] = {} /\ content'[p] = N
  <2>1. p \in Places /\ content[p] = Range(freeTags[r]) /\ content'[p] = Range(freeTags'[r])
    BY ContentFacts, ContentPrimed
  <2> QED
    BY <1>2, <1>5, <2>1, EmptyRange
<1>9. \A x \in Places : x \notin {p} => content'[x] = content[x]
  <2>1. \A x \in Csrs : <<"free", x>> \in {p} \/ freeTags'[x] = freeTags[x]
    BY <1>5
  <2> HIDE DEF p
  <2> QED
    BY <1>2, <2>1, SamePlaces
<1>10. AllCreated' = AllCreated \cup N
  BY <1>6 DEF AllCreated
<1>11. Partition(content', AllCreated \cup N)
  <2>1. DOMAIN content = Places /\ DOMAIN content' = Places
    BY DEF content
  <2> HIDE DEF p, N
  <2>2. content'[p] = content[p] \cup N /\ \A x \in Places : x # p => content'[x] = content[x]
    BY <1>8, <1>9
  <2>3. Partition(content, AllCreated)
    BY <1>0 DEF Lists
  <2> QED
    BY <1>7, <1>8, <2>1, <2>2, <2>3, PartitionAdd
<1>12. Partition(content, AllCreated)'
  BY <1>10, <1>11 DEF Partition
<1>13. \A x \in Csrs : populated'[x] <= Len(TagMemory[x])
  BY <1>0, <1>2, <1>5 DEF HomeInv
<1>14. ASSUME NEW x \in Places, content'[x] # {} PROVE content'[x] \subseteq Created(Home(x))'
  <2>1. Home(x)' = Home(x)
    BY <1>2, SameHomes
  <2>2. CASE x = p
    <3>1. Home(x) = r
      BY <2>2, ContentFacts
    <3>2. Created(Home(x))' = Created(r)'
      BY <2>1, <3>1 DEF Created
    <3> QED
      BY <1>6, <1>8, <2>2, <3>2
  <2>3. CASE x # p
    <3>1. content'[x] = content[x] /\ content[x] # {}
      BY <1>9, <1>14, <2>3
    <3>2. PICK y \in Csrs : y = Home(x)
      BY <3>1, HomeType
    <3>3. content[x] \subseteq Created(y)
      BY <1>0, <3>1, <3>2 DEF HomeInv
    <3>4. Created(y) \subseteq Created(y)'
      BY <1>6
    <3>5. Created(Home(x))' = Created(y)'
      BY <2>1, <3>2 DEF Created
    <3> QED
      BY <3>1, <3>3, <3>4, <3>5
  <2> QED
    BY <2>2, <2>3
<1>15. HomeInv'
  BY <1>13, <1>14 DEF HomeInv
<1>16. IsInjective(freeTags'[r])
  BY <1>4, <1>5
<1>17. OnceInv'
  BY <1>0, <1>2, <1>5, <1>16 DEF OnceInv
<1> QED
  BY <1>12, <1>15, <1>17 DEF Lists

-----------------------------------------------------------------------------
(* Steps that move no tag *)

\* A step that touches no list, and no hands that hold a tag.
LEMMA QuietLists ==
  ASSUME ControlInv, PlaceInv, NEW t \in Threads, Others(t), UNCHANGED <<freeTags, usedTags, deferredTags, populated>>,
         Has(t, thread[t].node, thread[t].detached, thread[t].ready, thread[t].pending),
         thread'[t].cmd = thread[t].cmd \/ thread[t].pc \notin {"use", "sort", "splice"}
  PROVE  Lists' /\ OnceInv'
<1>0. TypeOK /\ OnceInv /\ Lists
  BY DEF ControlInv, PlaceInv, Lists
<1>1. \A u \in Threads : /\ thread'[u].node = thread[u].node /\ thread'[u].detached = thread[u].detached
                         /\ thread'[u].ready = thread[u].ready /\ thread'[u].pending = thread[u].pending
  BY DEF Others, Has
<1>2. OnceInv'
  BY <1>0, <1>1 DEF OnceInv
<1>3. \A x \in Places : content'[x] = content[x]
  <2> DEFINE F == {}
  <2>1. \A x \in Places : x \notin F => content'[x] = content[x]
    <3> HIDE DEF F
    <3> QED
      BY <1>1, SamePlaces
  <2> QED
    BY <2>1
<1>4. ASSUME NEW x \in Places, content[x] # {} PROVE Home(x)' = Home(x)
  <2>1. CASE \E r \in Csrs : x \in {<<"free", r>>, <<"deferred", r>>, <<"used", r>>}
    BY <2>1 DEF Home
  <2>2. ASSUME NEW u \in Threads, x \in {<<"detached", u>>, <<"ready", u>>, <<"pending", u>>, <<"node", u>>}
        PROVE  Home(x)' = Home(x)
    <3>1. thread[u].pc \in {"use", "sort", "splice"}
      BY <1>4, <2>2, Handful
    <3>2. thread'[u].cmd = thread[u].cmd
      BY <3>1 DEF Others
    <3>3. x[2] = u /\ x[1] \notin {"free", "deferred", "used"}
      BY <2>2
    <3> QED
      BY <3>2, <3>3 DEF Home, Csr
  <2> QED
    BY <2>1, <2>2, PlacesAre
<1>5. Lists'
  BY <1>0, <1>3, <1>4, Stay
<1> QED
  BY <1>2, <1>5

-----------------------------------------------------------------------------
(* Used tags *)

\* A tag that a container or a pending return refers to has a positive count; no
\* count is negative.
LEMMA Counted ==
  ASSUME ControlInv, RefInv, NEW n \in Tags
  PROVE  /\ refCount[n] \in Nat
         /\ \A h \in Holders : n \in Range(nodes[h]) => refCount[n] > 0
         /\ \A t \in Threads : n \in Range(toBeReturned[t]) => refCount[n] > 0
<1> DEFINE a == Cardinality(Sites({n}, nodes))
           b == Cardinality(Sites({n}, toBeReturned))
<1>1. nodes \in [Holders -> Seq(Tags)] /\ toBeReturned \in [Threads -> Seq(Tags)]
  BY ReturnsType DEF ControlInv, TypeOK
<1>2. /\ a \in Nat /\ (a = 0 => \A h \in Holders : \A i \in 1..Len(nodes[h]) : nodes[h][i] \notin {n})
  BY <1>1, SitesType, ConstantFacts
<1>3. /\ b \in Nat /\ (b = 0 => \A h \in Threads : \A i \in 1..Len(toBeReturned[h]) : toBeReturned[h][i] \notin {n})
  BY <1>1, SitesType, ConstantFacts
<1>4. refCount[n] = a + b
  BY DEF RefInv
<1>5. ASSUME NEW h \in Holders, n \in Range(nodes[h]) PROVE a # 0
  <2>1. nodes[h] \in Seq(Tags)
    BY <1>1
  <2>2. \E i \in 1..Len(nodes[h]) : nodes[h][i] = n
    BY <1>5, <2>1, LenProperties DEF Range
  <2> QED
    BY <1>2, <2>2
<1>6. ASSUME NEW t \in Threads, n \in Range(toBeReturned[t]) PROVE b # 0
  <2>1. toBeReturned[t] \in Seq(Tags)
    BY <1>1
  <2>2. \E i \in 1..Len(toBeReturned[t]) : toBeReturned[t][i] = n
    BY <1>6, <2>1, LenProperties DEF Range
  <2> QED
    BY <1>3, <2>2
<1> HIDE DEF a, b
<1>7. refCount[n] \in Nat /\ (a # 0 => refCount[n] > 0) /\ (b # 0 => refCount[n] > 0)
  BY <1>2, <1>3, <1>4
<1> QED
  BY <1>5, <1>6, <1>7

\* Adding references to tags that are already counted.
LEMMA CountedMore ==
  ASSUME ControlInv, RefInv, NEW s \in Seq(Tags), AddRefs(s),
         \A n \in Range(s) : \E h \in Holders : n \in Range(nodes[h])
  PROVE  \A n \in Tags : refCount'[n] = refCount[n] \/ (refCount[n] > 0 /\ refCount'[n] > 0)
<1> SUFFICES ASSUME NEW n \in Tags PROVE refCount'[n] = refCount[n] \/ (refCount[n] > 0 /\ refCount'[n] > 0)
  OBVIOUS
<1>1. refCount'[n] = refCount[n] + Occ({n}, s)
  BY AddRefsType DEF ControlInv
<1>2. Occ({n}, s) \in Nat /\ (Occ({n}, s) # 0 => \E i \in 1..Len(s) : s[i] = n)
  <2>1. Occ({n}, s) \in Nat /\ (Occ({n}, s) # 0 => \E i \in 1..Len(s) : s[i] \in {n})
    BY OccType
  <2> QED
    BY <2>1
<1>3. refCount[n] \in Nat
  BY Counted
<1>4. CASE Occ({n}, s) = 0
  <2>1. refCount[n] + 0 = refCount[n]
    BY <1>3
  <2> QED
    BY <1>1, <1>4, <2>1
<1>5. CASE Occ({n}, s) # 0
  <2>1. n \in Range(s)
    BY <1>2, <1>5, LenProperties DEF Range
  <2>2. refCount[n] > 0
    BY <2>1, Counted
  <2> QED
    BY <1>1, <1>2, <1>3, <2>2
<1> QED
  BY <1>4, <1>5

\* A step that takes no tag into or out of use: counts change only between positive values.
LEMMA UsedQuiet ==
  ASSUME ControlInv, UsedInv, UNCHANGED usedTags, NEW t \in Threads, Others(t),
         thread'[t].place = thread[t].place, thread[t].place # "none" => thread'[t].toReturn = thread[t].toReturn,
         \A n \in Tags : refCount'[n] = refCount[n] \/ (refCount[n] > 0 /\ refCount'[n] > 0)
  PROVE  UsedInv'
<1>1. \A u \in Threads : \A n : Placed(u, n)' <=> Placed(u, n)
  BY DEF Placed, Others
<1>2. \A n \in Tags : (refCount'[n] > 0 <=> refCount[n] > 0) /\ (refCount[n] = 0 => refCount'[n] = 0)
  OBVIOUS
<1>3. \A r \in Csrs : \A n \in Range(TagMemory[r]) : n \in Tags
  BY DEF Tags
<1>4. ASSUME NEW r \in Csrs, NEW n \in Range(TagMemory[r])
      PROVE  n \in usedTags'[r] <=> refCount'[n] > 0 \/ \E u \in Threads : Placed(u, n)'
  BY <1>1, <1>2, <1>3 DEF UsedInv
<1>5. ASSUME NEW u \in Threads, NEW n \in Tags, Placed(u, n)' PROVE refCount'[n] = 0
  BY <1>1, <1>2, <1>5 DEF UsedInv
<1>6. ASSUME NEW u \in Threads, NEW v \in Threads, NEW n \in Tags, Placed(u, n)', Placed(v, n)' PROVE u = v
  BY <1>1, <1>6 DEF UsedInv
<1> QED
  BY <1>4, <1>5, <1>6 DEF UsedInv

\* returnTag announces the tag whose count it brings to zero; no other thread can.
LEMMA ReturnTagUsed ==
  ASSUME ControlInv, RefInv, PlaceInv, NEW t \in Threads, returnTag(t)
  PROVE  UsedInv'
<1>1. PICK n \in Tags : n = Head(thread[t].toReturn)
  BY ReturnTagEffect
<1>2. /\ thread[t].place = "none" /\ thread[t].toReturn # <<>> /\ refCount' = [refCount EXCEPT ![n] = @ - 1]
      /\ UNCHANGED usedTags /\ Others(t)
      /\ refCount[n] # 1 => thread'[t].place = "none"
      /\ refCount[n] = 1 => thread'[t].place # "none" /\ thread'[t].toReturn = thread[t].toReturn
  BY <1>1, ReturnTagEffect DEF Returns
<1>3. refCount[n] \in Nat /\ refCount[n] > 0
  <2>1. toBeReturned[t] = thread[t].toReturn /\ thread[t].toReturn \in Seq(Tags)
    BY <1>2, ReturnsType, Fields DEF ControlInv, TypeOK
  <2>2. n \in Range(toBeReturned[t])
    BY <1>1, <1>2, <2>1, LenProperties, EmptySeq, HeadTailProperties DEF Range
  <2> QED
    BY <2>2, Counted
<1>4. refCount'[n] = refCount[n] - 1 /\ \A m \in Tags \ {n} : refCount'[m] = refCount[m]
  BY <1>2 DEF ControlInv, TypeOK
<1>5. UsedInv
  BY DEF PlaceInv
<1>6. CASE refCount[n] # 1
  <2>1. refCount'[n] > 0
    BY <1>3, <1>4, <1>6
  <2>2. \A m \in Tags : refCount'[m] = refCount[m] \/ (refCount[m] > 0 /\ refCount'[m] > 0)
    <3> TAKE m \in Tags
    <3>1. CASE m = n
      BY <1>3, <2>1, <3>1
    <3>2. CASE m # n
      BY <1>4, <3>2
    <3> QED
      BY <3>1, <3>2
  <2> QED
    BY <1>2, <1>5, <1>6, <2>2, UsedQuiet
<1>7. CASE refCount[n] = 1
  <2>1. refCount'[n] = 0
    BY <1>4, <1>7
  <2>2. Placed(t, n)' /\ \A m : Placed(t, m)' => m = n
    BY <1>1, <1>2, <1>7 DEF Placed
  <2>3. \A u \in Threads \ {t} : \A m : Placed(u, m)' <=> Placed(u, m)
    BY <1>2 DEF Placed, Others
  <2>4. \A u \in Threads : ~Placed(u, n)
    BY <1>5, <1>7 DEF UsedInv
  <2>5. \A m : ~Placed(t, m)
    BY <1>2 DEF Placed
  <2>6. \A r \in Csrs : \A m \in Range(TagMemory[r]) : m \in Tags
    BY DEF Tags
  <2>7. ASSUME NEW r \in Csrs, NEW m \in Range(TagMemory[r])
        PROVE  m \in usedTags'[r] <=> refCount'[m] > 0 \/ \E u \in Threads : Placed(u, m)'
    <3>1. m \in usedTags[r] <=> refCount[m] > 0 \/ \E u \in Threads : Placed(u, m)
      BY <1>5 DEF UsedInv
    <3>2. CASE m = n
      BY <1>2, <1>3, <2>2, <3>1, <3>2
    <3>3. CASE m # n
      <4>1. refCount'[m] = refCount[m]
        BY <1>4, <2>6, <3>3
      <4>2. \A u \in Threads : Placed(u, m)' <=> Placed(u, m)
        BY <2>2, <2>3, <2>5, <3>3
      <4> QED
        BY <1>2, <3>1, <4>1, <4>2
    <3> QED
      BY <3>2, <3>3
  <2>8. ASSUME NEW u \in Threads, NEW m \in Tags, Placed(u, m)' PROVE refCount'[m] = 0
    <3>1. CASE m = n
      BY <2>1, <3>1
    <3>2. CASE m # n
      BY <1>4, <1>5, <2>2, <2>3, <2>8, <3>2 DEF UsedInv
    <3> QED
      BY <3>1, <3>2
  <2>9. ASSUME NEW u \in Threads, NEW v \in Threads, NEW m \in Tags, Placed(u, m)', Placed(v, m)' PROVE u = v
    BY <1>5, <2>2, <2>3, <2>4, <2>9 DEF UsedInv
  <2> QED
    BY <2>7, <2>8, <2>9 DEF UsedInv
<1> QED
  BY <1>6, <1>7

\* The tag leaves the used list.
LEMMA ReturnedUsed ==
  ASSUME ControlInv, PlaceInv, NEW t \in Threads, returnTagToFreePool(t) \/ returnTagToDeferredPool(t)
  PROVE  UsedInv'
<1>1. PICK n \in Tags : n = Head(thread[t].toReturn)
  BY ReturnToFreeEffect, ReturnToDeferredEffect
<1>2. PICK r \in Csrs : r = TagCsr(n) /\ n \in Range(TagMemory[r])
  BY TagHome
<1>3. /\ usedTags' = [usedTags EXCEPT ![r] = @ \ {n}] /\ UNCHANGED refCount /\ Others(t)
      /\ thread[t].place # "none" /\ thread'[t].place = "none"
  <2>1. CASE returnTagToFreePool(t)
    BY <1>1, <1>2, <2>1, ReturnToFreeEffect DEF Returns
  <2>2. CASE returnTagToDeferredPool(t)
    BY <1>1, <1>2, <2>2, ReturnToDeferredEffect DEF Returns
  <2> QED
    BY <2>1, <2>2
<1>4. usedTags'[r] = usedTags[r] \ {n} /\ \A x \in Csrs \ {r} : usedTags'[x] = usedTags[x]
  BY <1>3 DEF ControlInv, TypeOK
<1>5. UsedInv
  BY DEF PlaceInv
<1>6. Placed(t, n) /\ \A m : Placed(t, m) => m = n
  BY <1>1, <1>3 DEF Placed
<1>7. refCount[n] = 0 /\ \A u \in Threads \ {t} : ~Placed(u, n)
  BY <1>5, <1>6 DEF UsedInv
<1>8. (\A m : ~Placed(t, m)') /\ \A u \in Threads \ {t} : \A m : Placed(u, m)' <=> Placed(u, m)
  BY <1>3 DEF Placed, Others
<1>9. ASSUME NEW x \in Csrs, NEW m \in Range(TagMemory[x])
      PROVE  m \in usedTags'[x] <=> refCount'[m] > 0 \/ \E u \in Threads : Placed(u, m)'
  <2>1. m \in usedTags[x] <=> refCount[m] > 0 \/ \E u \in Threads : Placed(u, m)
    BY <1>5 DEF UsedInv
  <2>2. CASE m = n
    <3>1. x = r
      BY <1>2, <2>2, PacketsAssumption
    <3>2. ~(refCount[n] > 0)
      BY <1>7
    <3> QED
      BY <1>3, <1>4, <1>7, <1>8, <2>2, <3>1, <3>2
  <2>3. CASE m # n
    <3>1. \A u \in Threads : Placed(u, m)' <=> Placed(u, m)
      BY <1>6, <1>8, <2>3
    <3>2. m \in usedTags'[x] <=> m \in usedTags[x]
      BY <1>4, <2>3
    <3> QED
      BY <1>3, <2>1, <3>1, <3>2
  <2> QED
    BY <2>2, <2>3
<1>10. ASSUME NEW u \in Threads, NEW m \in Tags, Placed(u, m)' PROVE refCount'[m] = 0
  BY <1>3, <1>5, <1>8, <1>10 DEF UsedInv
<1>11. ASSUME NEW u \in Threads, NEW v \in Threads, NEW m \in Tags, Placed(u, m)', Placed(v, m)' PROVE u = v
  BY <1>5, <1>8, <1>11 DEF UsedInv
<1> QED
  BY <1>9, <1>10, <1>11 DEF UsedInv

\* The tag that a thread has removed from the free tags is not in use.
LEMMA NodeUnused ==
  ASSUME ControlInv, RefInv, PlaceInv, NEW t \in Threads, NEW n \in Tags, n = thread[t].node
  PROVE  /\ refCount[n] = 0 /\ \A u \in Threads : ~Placed(u, n)
         /\ thread[t].cmd \in Commands /\ n \in Range(TagMemory[Csr(thread[t].cmd)])
<1>0. TypeOK /\ Lists /\ UsedInv /\ HomeInv
  BY DEF ControlInv, PlaceInv, Lists
<1>1. n # None
  BY PacketsAssumption
<1>2. <<"node", t>> \in Places /\ n \in content[<<"node", t>>] /\ Home(<<"node", t>>) = Csr(thread[t].cmd)
  <2>1. /\ <<"node", t>> \in Places /\ content[<<"node", t>>] = {thread[t].node} \ {None}
        /\ Home(<<"node", t>>) = Csr(thread[t].cmd)
    BY ContentFacts
  <2> QED
    BY <1>1, <2>1
<1>3. thread[t].pc = "use"
  BY <1>1 DEF ControlInv, ThreadInv, ThreadOK
<1>4. thread[t].cmd \in Commands
  BY <1>3, Fields DEF ControlInv, ThreadInv, ThreadOK, TypeOK
<1>5. PICK r \in Csrs : r = Csr(thread[t].cmd)
  BY <1>4, ConstantFacts
<1>6. n \in Created(r)
  BY <1>0, <1>2, <1>5 DEF HomeInv
<1>7. n \in Range(TagMemory[r])
  BY <1>0, <1>6, CreatedTags
<1>8. n \notin usedTags[r]
  <2>1. <<"used", r>> \in Places /\ content[<<"used", r>>] = usedTags[r]
    BY ContentFacts
  <2>2. <<"used", r>> # <<"node", t>>
    OBVIOUS
  <2> QED
    BY <1>0, <1>2, <2>1, <2>2, Apart
<1>9. ~(refCount[n] > 0) /\ \A u \in Threads : ~Placed(u, n)
  BY <1>0, <1>7, <1>8 DEF UsedInv
<1>10. refCount[n] = 0
  <2>1. refCount[n] \in Nat
    BY Counted
  <2> QED
    BY <1>9, <2>1
<1> QED
  BY <1>4, <1>5, <1>7, <1>9, <1>10

\* getTag counts the tag and puts it among the used ones at once.
LEMMA UseTagUsed ==
  ASSUME ControlInv, RefInv, PlaceInv, NEW t \in Threads, UseTag(t)
  PROVE  UsedInv'
<1>1. PICK n \in Tags : n = thread[t].node
  BY UseTagEffect
<1>2. PICK r \in Csrs : r = Csr(thread[t].cmd)
  BY UseTagEffect
<1>3. /\ usedTags' = [usedTags EXCEPT ![r] = @ \cup {n}] /\ refCount' = [refCount EXCEPT ![n] = @ + 1] /\ Others(t)
      /\ thread'[t].place = thread[t].place /\ thread'[t].toReturn = thread[t].toReturn
  BY <1>1, <1>2, UseTagEffect DEF Returns
<1>4. usedTags'[r] = usedTags[r] \cup {n} /\ \A x \in Csrs \ {r} : usedTags'[x] = usedTags[x]
  BY <1>3 DEF ControlInv, TypeOK
<1>5. UsedInv
  BY DEF PlaceInv
<1>6. refCount[n] = 0 /\ (\A u \in Threads : ~Placed(u, n)) /\ n \in Range(TagMemory[r])
  BY <1>1, <1>2, NodeUnused
<1>7. refCount'[n] = 1 /\ \A m \in Tags \ {n} : refCount'[m] = refCount[m]
  BY <1>3, <1>6 DEF ControlInv, TypeOK
<1>8. \A u \in Threads : \A m : Placed(u, m)' <=> Placed(u, m)
  BY <1>3 DEF Placed, Others
<1>9. ASSUME NEW x \in Csrs, NEW m \in Range(TagMemory[x])
      PROVE  m \in usedTags'[x] <=> refCount'[m] > 0 \/ \E u \in Threads : Placed(u, m)'
  <2>1. m \in usedTags[x] <=> refCount[m] > 0 \/ \E u \in Threads : Placed(u, m)
    BY <1>5 DEF UsedInv
  <2>2. CASE m = n
    <3>1. x = r
      BY <1>6, <2>2, PacketsAssumption
    <3> QED
      BY <1>4, <1>7, <2>2, <3>1
  <2>3. CASE m # n
    <3>1. m \in usedTags'[x] <=> m \in usedTags[x]
      BY <1>4, <2>3
    <3>2. refCount'[m] = refCount[m]
      BY <1>7, <2>3 DEF Tags
    <3> QED
      BY <1>8, <2>1, <3>1, <3>2
  <2> QED
    BY <2>2, <2>3
<1>10. ASSUME NEW u \in Threads, NEW m \in Tags, Placed(u, m)' PROVE refCount'[m] = 0
  BY <1>5, <1>6, <1>7, <1>8, <1>10 DEF UsedInv
<1>11. ASSUME NEW u \in Threads, NEW v \in Threads, NEW m \in Tags, Placed(u, m)', Placed(v, m)' PROVE u = v
  BY <1>5, <1>8, <1>11 DEF UsedInv
<1> QED
  BY <1>9, <1>10, <1>11 DEF UsedInv

\* Steps that leave the allocator's lists alone keep the tags accounted for.
LEMMA QuietPlaces ==
  ASSUME ControlInv, PlaceInv, NEW t \in Threads, Others(t), UNCHANGED <<freeTags, usedTags, deferredTags, populated>>,
         Has(t, thread[t].node, thread[t].detached, thread[t].ready, thread[t].pending),
         thread'[t].cmd = thread[t].cmd \/ thread[t].pc \notin {"use", "sort", "splice"},
         thread'[t].place = thread[t].place, thread[t].place # "none" => thread'[t].toReturn = thread[t].toReturn,
         \A n \in Tags : refCount'[n] = refCount[n] \/ (refCount[n] > 0 /\ refCount'[n] > 0)
  PROVE  PlaceInv'
<1>1. Lists' /\ OnceInv'
  BY QuietLists
<1>2. UsedInv'
  BY UsedQuiet DEF PlaceInv
<1> QED
  BY <1>1, <1>2 DEF PlaceInv, Lists

\* A thread that is not in getTag has no tag in its hands.
LEMMA EmptyHands ==
  ASSUME ControlInv, NEW t \in Threads, thread[t].pc \notin {"use", "sort", "splice"}
  PROVE  thread[t].node = None /\ thread[t].detached = <<>> /\ thread[t].ready = <<>> /\ thread[t].pending = <<>>
  BY DEF ControlInv, ThreadInv, ThreadOK

\* A thread with nothing to return is not about to put a tag back.
LEMMA NothingPlaced ==
  ASSUME ControlInv, NEW t \in Threads, thread[t].toReturn = <<>>
  PROVE  thread[t].place = "none"
  BY DEF ControlInv, ThreadInv, ThreadOK

\* A call ends, or begins, with empty hands.
LEMMA EmptyPlaces ==
  ASSUME ControlInv, PlaceInv, NEW t \in Threads, Others(t), UNCHANGED <<freeTags, usedTags, deferredTags, populated>>,
         thread[t].pc \in {"idle", "flush", "block", "wait"}, thread[t].toReturn = <<>>,
         Has(t, None, <<>>, <<>>, <<>>), thread'[t].place = "none",
         \A n \in Tags : refCount'[n] = refCount[n] \/ (refCount[n] > 0 /\ refCount'[n] > 0)
  PROVE  PlaceInv'
<1>1. thread[t].node = None /\ thread[t].detached = <<>> /\ thread[t].ready = <<>> /\ thread[t].pending = <<>>
  BY EmptyHands
<1>2. thread[t].place = "none"
  BY NothingPlaced
<1>3. Has(t, thread[t].node, thread[t].detached, thread[t].ready, thread[t].pending)
  BY <1>1 DEF Has
<1> QED
  BY <1>2, <1>3, QuietPlaces

\* The tags of a marker, of the event of a kernel, of a blocked command.
LEMMA MarkerCounts ==
  ASSUME ControlInv, RefInv, NEW t \in Threads, NEW c \in Commands,
         EnqueueMarker(t, c) \/ EnqueueBlockedMarker(t, c)
  PROVE  \A n \in Tags : refCount'[n] = refCount[n] \/ (refCount[n] > 0 /\ refCount'[n] > 0)
<1> DEFINE q == QueueOf[c]
           e == EventNodes(WaitList[c])
<1>1. nodes[q] \in Seq(Tags) /\ WaitList[c] \in SUBSET Commands /\ TypeOK /\ q \in Holders
      /\ \A w \in Commands : <<"event", w>> \in Holders
  BY ConstantFacts DEF ControlInv, TypeOK
<1>2. e \in Seq(Tags) /\ \A i \in 1..Len(e) : \E w \in WaitList[c] : e[i] \in Range(nodes[<<"event", w>>])
  BY <1>1, EventNodesType
<1> HIDE DEF e
<1>3. nodes[q] \o e \in Seq(Tags) /\ Range(nodes[q] \o e) = Range(nodes[q]) \cup Range(e)
  BY <1>1, <1>2, ConcatProperties, RangeConcatenation
<1>4. ASSUME NEW n \in Range(nodes[q] \o e) PROVE \E h \in Holders : n \in Range(nodes[h])
  <2>1. CASE n \in Range(nodes[q])
    BY <1>1, <2>1
  <2>2. CASE n \in Range(e)
    <3>1. PICK i \in 1..Len(e) : n = e[i]
      BY <1>2, <2>2, LenProperties DEF Range
    <3>2. PICK w \in WaitList[c] : n \in Range(nodes[<<"event", w>>])
      BY <1>2, <3>1
    <3> QED
      BY <1>1, <3>2
  <2> QED
    BY <1>3, <2>1, <2>2
<1>5. AddRefs(nodes[q] \o e) \/ UNCHANGED refCount
  BY EnqueueMarkerEffect DEF e
<1> DEFINE s == nodes[q] \o e
<1>6. s \in Seq(Tags) /\ (AddRefs(s) \/ UNCHANGED refCount) /\ \A n \in Range(s) : \E h \in Holders : n \in Range(nodes[h])
  BY <1>3, <1>4, <1>5
<1> HIDE DEF s
<1> QED
  BY <1>6, CountedMore

\* The event of a kernel shares tags that the queue holds already.
LEMMA DispatchCounts ==
  ASSUME ControlInv, RefInv, NEW t \in Threads, Dispatch(t)
  PROVE  \A n \in Tags : refCount'[n] = refCount[n] \/ (refCount[n] > 0 /\ refCount'[n] > 0)
<1>0. PICK c \in Commands : c = thread[t].cmd
  BY DispatchEffect
<1> DEFINE s == nodes[QueueOf[c]]
<1>1. AddRefs(s) \/ UNCHANGED refCount
  BY <1>0, DispatchEffect
<1>2. s \in Seq(Tags) /\ \A n \in Range(s) : \E h \in Holders : n \in Range(nodes[h])
  BY ConstantFacts DEF ControlInv, TypeOK
<1> HIDE DEF s
<1> QED
  BY <1>1, <1>2, CountedMore

\* A blocked command shares tags that the queue and the stack hold already.
LEMMA BlockedCounts ==
  ASSUME ControlInv, RefInv, NEW t \in Threads, EnqueueBlocked(t)
  PROVE  \A n \in Tags : refCount'[n] = refCount[n] \/ (refCount[n] > 0 /\ refCount'[n] > 0)
<1>0. PICK c \in Commands : c = thread[t].cmd
  BY BlockedEffect
<1> DEFINE a == nodes[QueueOf[c]]
           b == nodes[<<"stack", c>>]
           s == a \o b
<1>1. AddRefs(s)
  BY <1>0, BlockedEffect
<1>2. a \in Seq(Tags) /\ b \in Seq(Tags) /\ QueueOf[c] \in Holders /\ <<"stack", c>> \in Holders
  BY ConstantFacts DEF ControlInv, TypeOK
<1>3. s \in Seq(Tags) /\ Range(s) = Range(a) \cup Range(b)
  BY <1>2, ConcatProperties, RangeConcatenation
<1>4. \A n \in Range(s) : \E h \in Holders : n \in Range(nodes[h])
  BY <1>2, <1>3
<1> HIDE DEF s
<1> QED
  BY <1>1, <1>3, <1>4, CountedMore

\* Every step keeps the tags accounted for.
LEMMA PlaceStep ==
  ASSUME ControlInv, RefInv, PlaceInv, [Next]_vars
  PROVE  PlaceInv'
<1>0. /\ UsedInv /\ OnceInv /\ Lists
      /\ (Lists' /\ OnceInv' /\ UsedInv' => PlaceInv')
  BY DEF PlaceInv, Lists
<1>1. ASSUME NEW t \in Threads, Allocator(t) PROVE PlaceInv'
  <2>1. CASE returnTag(t)
    <3>1. /\ Others(t) /\ Control(t, thread[t].pc, thread[t].cmd, thread[t].toResolve, thread[t].toDrop)
          /\ Has(t, thread[t].node, thread[t].detached, thread[t].ready, thread[t].pending)
          /\ UNCHANGED <<freeTags, usedTags, deferredTags, populated>>
      BY <2>1, ReturnTagEffect
    <3>2. Lists' /\ OnceInv'
      BY <3>1, QuietLists DEF Control
    <3> QED
      BY <1>0, <2>1, <3>2, ReturnTagUsed
  <2>2. CASE returnTagToFreePool(t)
    BY <1>0, <2>2, ReturnToFreeLists, ReturnedUsed
  <2>3. CASE returnTagToDeferredPool(t)
    BY <1>0, <2>3, ReturnToDeferredLists, ReturnedUsed
  <2>4. CASE GetTag(t)
    <3>1. /\ Others(t) /\ thread'[t].cmd = thread[t].cmd
          /\ Has(t, thread[t].node, thread[t].detached, thread[t].ready, thread[t].pending)
          /\ thread'[t].place = thread[t].place /\ thread'[t].toReturn = thread[t].toReturn
          /\ UNCHANGED <<freeTags, usedTags, deferredTags, populated, refCount>>
      BY <2>4, GetTagEffect DEF Control, Returns
    <3> QED
      BY <3>1, QuietPlaces
  <2>5. ASSUME \/ DetachDeferred(t) \/ SortDeferred(t) \/ SpliceReady(t) \/ SplicePending(t) \/ RemoveFree(t)
        PROVE  UsedInv'
    <3>1. Others(t) /\ Returns(t, thread[t].toReturn, thread[t].place) /\ UNCHANGED <<usedTags, refCount>>
      BY <2>5, DetachDeferredEffect, SortDeferredEffect, SpliceReadyEffect, SplicePendingEffect, RemoveFreeEffect
    <3> QED
      BY <1>0, <3>1, UsedQuiet DEF Returns
  <2>6. CASE DetachDeferred(t)
    BY <1>0, <2>5, <2>6, DetachLists
  <2>7. CASE SortDeferred(t)
    BY <1>0, <2>5, <2>7, SortReadyLists, SortPendingLists
  <2>8. CASE SpliceReady(t)
    BY <1>0, <2>5, <2>8, SpliceReadyLists
  <2>9. CASE SplicePending(t)
    BY <1>0, <2>5, <2>9, SplicePendingLists
  <2>10. CASE RemoveFree(t)
    BY <1>0, <2>5, <2>10, RemoveLists
  <2>11. CASE populateFreeTags(t)
    <3>1. Others(t) /\ UNCHANGED <<thread, usedTags, refCount>>
      BY <2>11, PopulateEffect DEF Others
    <3>2. UsedInv'
      BY <1>0, <3>1, UsedQuiet
    <3> QED
      BY <1>0, <2>11, <3>2, PopulateLists
  <2>12. CASE UseTag(t)
    BY <1>0, <2>12, UseLists, UseTagUsed
  <2> QED
    BY <1>1, <2>1, <2>2, <2>3, <2>4, <2>6, <2>7, <2>8, <2>9, <2>10, <2>11, <2>12 DEF Allocator
<1>2. ASSUME NEW t \in Threads, Enqueue(t) PROVE PlaceInv'
  <2>1. CASE ResolveDependency(t)
    <3>1. /\ Others(t) /\ thread'[t].cmd = thread[t].cmd /\ thread[t].toReturn = <<>>
          /\ Has(t, thread[t].node, thread[t].detached, thread[t].ready, thread[t].pending)
          /\ thread'[t].place = thread[t].place
          /\ UNCHANGED <<freeTags, usedTags, deferredTags, populated, refCount>>
      BY <2>1, ResolveDependencyEffect DEF Control, Returns, At
    <3>2. thread[t].place = "none"
      BY <3>1, NothingPlaced
    <3> QED
      BY <3>1, <3>2, QuietPlaces
  <2>2. CASE DependenciesResolved(t)
    <3>1. /\ Others(t) /\ thread'[t].cmd = thread[t].cmd
          /\ Has(t, thread[t].node, thread[t].detached, thread[t].ready, thread[t].pending)
          /\ thread'[t].place = thread[t].place /\ thread'[t].toReturn = thread[t].toReturn
          /\ UNCHANGED <<freeTags, usedTags, deferredTags, populated, refCount>>
      BY <2>2, DependenciesResolvedEffect DEF Control, Returns
    <3> QED
      BY <3>1, QuietPlaces
  <2>3. CASE Dispatch(t)
    <3>1. /\ Others(t) /\ thread'[t].cmd = thread[t].cmd
          /\ Has(t, thread[t].node, thread[t].detached, thread[t].ready, thread[t].pending)
          /\ thread'[t].place = thread[t].place /\ thread'[t].toReturn = thread[t].toReturn
          /\ UNCHANGED <<freeTags, usedTags, deferredTags, populated>>
      BY <2>3, DispatchEffect DEF Control, Returns
    <3>2. \A n \in Tags : refCount'[n] = refCount[n] \/ (refCount[n] > 0 /\ refCount'[n] > 0)
      BY <2>3, DispatchCounts
    <3> QED
      BY <3>1, <3>2, QuietPlaces
  <2>4. CASE EnqueueNonBlocked(t)
    <3>1. /\ Others(t) /\ thread[t].pc = "flush" /\ thread[t].toReturn = <<>> /\ thread'[t].place = "none"
          /\ Has(t, None, <<>>, <<>>, <<>>) /\ UNCHANGED <<freeTags, usedTags, deferredTags, populated, refCount>>
      BY <2>4, NonBlockedEffect DEF At, Returns
    <3> QED
      BY <3>1, EmptyPlaces
  <2>5. CASE EnqueueBlocked(t)
    <3>1. /\ Others(t) /\ thread[t].pc = "block" /\ thread[t].toReturn = <<>> /\ thread'[t].place = "none"
          /\ Has(t, None, <<>>, <<>>, <<>>) /\ UNCHANGED <<freeTags, usedTags, deferredTags, populated>>
      BY <2>5, BlockedEffect DEF At, Returns
    <3>2. \A n \in Tags : refCount'[n] = refCount[n] \/ (refCount[n] > 0 /\ refCount'[n] > 0)
      BY <2>5, BlockedCounts
    <3> QED
      BY <3>1, <3>2, EmptyPlaces
  <2>6. CASE Submitted(t)
    <3>1. /\ Others(t) /\ thread[t].pc = "wait" /\ thread[t].toReturn = <<>> /\ thread'[t].place = "none"
          /\ Has(t, None, <<>>, <<>>, <<>>) /\ UNCHANGED <<freeTags, usedTags, deferredTags, populated, refCount>>
      BY <2>6, SubmittedEffect DEF At, Returns
    <3> QED
      BY <3>1, EmptyPlaces
  <2>7. CASE DropEvent(t)
    <3>1. /\ Others(t) /\ thread'[t].cmd = thread[t].cmd /\ thread[t].place = "none"
          /\ Has(t, thread[t].node, thread[t].detached, thread[t].ready, thread[t].pending)
          /\ thread'[t].place = thread[t].place
          /\ UNCHANGED <<freeTags, usedTags, deferredTags, populated, refCount>>
      BY <2>7, DropEventEffect DEF Control, Returns
    <3> QED
      BY <3>1, QuietPlaces
  <2> QED
    BY <1>2, <2>1, <2>2, <2>3, <2>4, <2>5, <2>6, <2>7 DEF Enqueue
<1>3. ASSUME NEW t \in Threads, Begin(t) PROVE PlaceInv'
  <2>0. ASSUME thread[t] = Idle, Others(t), Has(t, None, <<>>, <<>>, <<>>), thread'[t].place = "none",
               UNCHANGED <<freeTags, usedTags, deferredTags, populated>>,
               \A n \in Tags : refCount'[n] = refCount[n] \/ (refCount[n] > 0 /\ refCount'[n] > 0)
        PROVE  PlaceInv'
    <3>1. thread[t].pc = "idle" /\ thread[t].toReturn = <<>>
      BY <2>0 DEF Idle
    <3> QED
      BY <2>0, <3>1, EmptyPlaces
  <2>1. ASSUME NEW c \in Commands, EnqueueKernel(t, c) PROVE PlaceInv'
    BY <2>0, <2>1, EnqueueKernelEffect DEF Returns
  <2>2. ASSUME NEW c \in Commands, EnqueueMarker(t, c) \/ EnqueueBlockedMarker(t, c) PROVE PlaceInv'
    <3>1. \A n \in Tags : refCount'[n] = refCount[n] \/ (refCount[n] > 0 /\ refCount'[n] > 0)
      BY <2>2, MarkerCounts
    <3> QED
      BY <2>0, <2>2, <3>1, EnqueueMarkerEffect DEF Returns
  <2>3. ASSUME NEW c \in Commands, Submit(t, c) PROVE PlaceInv'
    BY <2>0, <2>3, SubmitEffect DEF Returns
  <2>4. ASSUME NEW c \in Commands, Abort(t, c) PROVE PlaceInv'
    BY <2>0, <2>4, AbortEffect DEF Returns
  <2>5. ASSUME NEW c \in Commands, ReleaseEvent(t, c) PROVE PlaceInv'
    BY <2>0, <2>5, ReleaseEventEffect DEF Returns
  <2>6. ASSUME NEW q \in Queues, ReleaseQueue(t, q) PROVE PlaceInv'
    BY <2>0, <2>6, ReleaseQueueEffect DEF Returns
  <2>7. ASSUME NEW c \in Commands, SubmitMarker(t, c) PROVE PlaceInv'
    BY <2>0, <2>7, SubmitMarkerEffect DEF Returns
  <2> QED
    BY <1>3, <2>1, <2>2, <2>3, <2>4, <2>5, <2>6, <2>7 DEF Begin
<1>4. ASSUME UNCHANGED <<freeTags, usedTags, deferredTags, populated, refCount, thread>> PROVE PlaceInv'
  <2>1. \A x \in Places : x \notin {} => content'[x] = content[x]
    <3> DEFINE F == {}
    <3> HIDE DEF F
    <3>1. \A x \in Places : x \notin F => content'[x] = content[x]
      BY <1>4, SamePlaces
    <3> QED
      BY <3>1 DEF F
  <2>2. \A x \in Places : Home(x)' = Home(x)
    BY <1>4, SameHomes
  <2>3. Lists'
    BY <1>0, <1>4, <2>1, <2>2, Stay
  <2>4. OnceInv'
    BY <1>0, <1>4 DEF OnceInv
  <2>5. UsedInv'
    BY <1>0, <1>4 DEF UsedInv, Placed
  <2> QED
    BY <1>0, <2>3, <2>4, <2>5
<1>5. ASSUME NEW r \in Csrs, Gpu(r) PROVE PlaceInv'
  BY <1>4, <1>5 DEF Gpu
<1>6. ASSUME UNCHANGED vars PROVE PlaceInv'
  BY <1>4, <1>6 DEF vars, tagVars
<1> QED
  BY <1>1, <1>2, <1>3, <1>5, <1>6 DEF Next, Step, GpuPoll, Done

-----------------------------------------------------------------------------
(* Every tag is accounted for *)

\* The inductive invariant behind TagsAccountedFor.
AccountInv == ControlInv /\ StreamInv /\ RefInv /\ PlaceInv

\* The control invariant holds when the allocators have been created.
LEMMA InitControl ==
  ASSUME Init PROVE ControlInv
<1>1. \A r \in Csrs : freeTags[r] \in Seq(Tags)
  <2> TAKE r \in Csrs
  <2>1. TagCount \in Nat /\ 0 + TagCount <= Len(TagMemory[r])
    BY PacketsAssumption
  <2>2. SubSeq(TagMemory[r], 0 + 1, 0 + TagCount) \in Seq(Tags)
    BY <2>1, NextTags
  <2>3. 0 + 1 = 1 /\ 0 + TagCount = TagCount
    BY <2>1
  <2> QED
    BY <2>2, <2>3 DEF Init
<1>2. Idle \in ThreadState /\ Idle.cmd = None /\ Idle.pc = "idle"
  BY IdleType DEF Idle
<1>3. calls \in [Threads -> Seq(Calls)] /\ EnqueuedOnce(calls)
  BY PacketsAssumption DEF Init
<1>4. TypeOK
  <2>1. freeTags \in [Csrs -> Seq(Tags)]
    BY <1>1 DEF Init
  <2>2. /\ deferredTags \in [Csrs -> Seq(Tags)] /\ nodes \in [Holders -> Seq(Tags)]
        /\ stream \in [Csrs -> Seq(Instructions)] /\ dispatched \in [Commands -> Seq(Instructions)]
    BY DEF Init
  <2>3. /\ usedTags \in [Csrs -> SUBSET Tags] /\ populated \in [Csrs -> Nat] /\ refCount \in [Tags -> Int]
        /\ tagOf \in [Tags -> Commands \cup {None}]
        /\ status \in [Commands -> Statuses] /\ virtualEvent \in [Queues -> Commands \cup {None}]
        /\ csrOwner \in [Csrs -> Threads \cup {None}] /\ thread \in [Threads -> ThreadState]
    BY <1>2, PacketsAssumption DEF Init, Statuses
  <2>4. packet \in [Tags -> [ended : BOOLEAN, implicitDependenciesCount : Int]]
    BY DEF Init
  <2> QED
    BY <1>3, <2>1, <2>2, <2>3, <2>4 DEF TypeOK
<1>5. CallInv
  <2>1. \A c \in Commands : /\ status[c] = "new" /\ \A t \in Threads : thread[t].cmd # c
                            /\ \A k \in {"event", "current", "previous", "stack"} : nodes[<<k, c>>] = <<>>
    BY <1>2, ConstantFacts DEF Init
  <2> QED
    BY <1>3, <2>1 DEF CallInv
<1>6. ThreadInv
  <2>1. ThreadOK(Idle)
    BY DEF ThreadOK, Idle
  <2>2. \A t \in Threads : OwnerOK(t)
    BY DEF Init, OwnerOK, Idle, Enqueuing, Early
  <2> QED
    BY <2>1, <2>2 DEF ThreadInv, Init
<1>7. SizeInv
  <2>1. \A h \in Holders : nodes[h] = <<>>
    BY DEF Init
  <2>2. \A h \in Holders : Len(nodes[h]) = 0
    BY <2>1
  <2> QED
    BY <2>2, ConstantFacts DEF SizeInv
<1> QED
  BY <1>4, <1>5, <1>6, <1>7 DEF ControlInv

\* A family of empty lists.
LEMMA NoSites ==
  ASSUME NEW H, NEW f, DOMAIN f = H, \A h \in H : f[h] = <<>>, NEW S
  PROVE  Sites(S, f) = {} /\ Cardinality(Sites(S, f)) = 0
<1>1. \A h \in H : DOMAIN f[h] = {}
  OBVIOUS
<1>2. Sites(S, f) = {}
  BY <1>1 DEF Sites
<1> QED
  BY <1>2, FS_EmptySet

\* No tag is counted, and nothing is in a stream, before the first call.
LEMMA InitRefs ==
  ASSUME Init PROVE RefInv /\ StreamInv
<1>1. DOMAIN nodes = Holders /\ \A h \in Holders : nodes[h] = <<>>
  BY DEF Init
<1>2. DOMAIN toBeReturned = Threads /\ \A t \in Threads : toBeReturned[t] = <<>>
  BY DEF Init, toBeReturned, Idle
<1>3. \A n \in Tags : Cardinality(Sites({n}, nodes)) = 0
  BY <1>1, NoSites
<1>4. \A n \in Tags : Cardinality(Sites({n}, toBeReturned)) = 0
  BY <1>2, NoSites
<1>5. RefInv
  <2> SUFFICES ASSUME NEW n \in Tags
               PROVE  refCount[n] = Cardinality(Sites({n}, nodes)) + Cardinality(Sites({n}, toBeReturned))
    BY DEF RefInv
  <2>1. refCount[n] = 0
    BY DEF Init
  <2>2. Cardinality(Sites({n}, nodes)) = 0 /\ Cardinality(Sites({n}, toBeReturned)) = 0
    BY <1>3, <1>4
  <2> QED
    BY <2>1, <2>2
<1>6. StreamInv
  BY DEF StreamInv, PairInv, ByInv, Paired, Init
<1> QED
  BY <1>5, <1>6

\* Each allocator starts with one pool of free tags.
LEMMA InitPlaces ==
  ASSUME Init PROVE PlaceInv
<1>1. ASSUME NEW r \in Csrs
      PROVE  /\ IsInjective(freeTags[r]) /\ Range(freeTags[r]) = Created(r) /\ populated[r] <= Len(TagMemory[r])
             /\ usedTags[r] = {} /\ deferredTags[r] = <<>>
  <2>1. TagCount \in Nat /\ 0 + TagCount <= Len(TagMemory[r])
    BY PacketsAssumption
  <2> DEFINE s == SubSeq(TagMemory[r], 0 + 1, 0 + TagCount)
  <2>2. IsInjective(s) /\ Range(s) = {TagMemory[r][i] : i \in 0 + 1 .. 0 + TagCount}
    BY <2>1, NextTags
  <2>3. 0 + 1 = 1 /\ 0 + TagCount = TagCount
    BY <2>1
  <2>4. freeTags[r] = s /\ populated[r] = TagCount /\ usedTags[r] = {} /\ deferredTags[r] = <<>>
    BY <2>3 DEF Init
  <2> HIDE DEF s
  <2> QED
    BY <2>1, <2>2, <2>3, <2>4 DEF Created
<1>2. \A t \in Threads : /\ thread[t].detached = <<>> /\ thread[t].ready = <<>> /\ thread[t].pending = <<>>
                         /\ thread[t].node = None /\ thread[t].place = "none"
  BY DEF Init, Idle
<1>3. ASSUME NEW x \in Places PROVE content[x] = {} \/ \E r \in Csrs : x = <<"free", r>> /\ content[x] = Created(r)
  <2>1. ASSUME NEW r \in Csrs, x \in {<<"free", r>>, <<"deferred", r>>, <<"used", r>>}
        PROVE  content[x] = {} \/ (x = <<"free", r>> /\ content[x] = Created(r))
    <3>1. /\ content[<<"free", r>>] = Range(freeTags[r]) /\ content[<<"deferred", r>>] = Range(deferredTags[r])
          /\ content[<<"used", r>>] = usedTags[r]
      BY ContentFacts
    <3> QED
      BY <1>1, <2>1, <3>1, EmptyRange
  <2>2. ASSUME NEW t \in Threads, x \in {<<"detached", t>>, <<"ready", t>>, <<"pending", t>>, <<"node", t>>}
        PROVE  content[x] = {}
    <3>1. /\ content[<<"detached", t>>] = Range(thread[t].detached) /\ content[<<"ready", t>>] = Range(thread[t].ready)
          /\ content[<<"pending", t>>] = Range(thread[t].pending) /\ content[<<"node", t>>] = {thread[t].node} \ {None}
      BY ContentFacts
    <3> QED
      BY <1>2, <2>2, <3>1, EmptyRange
  <2> QED
    BY <2>1, <2>2, PlacesAre
<1>4. HomeInv
  <2>1. \A r \in Csrs : Home(<<"free", r>>) = r
    BY ContentFacts
  <2> QED
    BY <1>1, <1>3, <2>1 DEF HomeInv
<1>5. \A r, s \in Csrs : r # s => Created(r) \cap Created(s) = {}
  <2>1. TypeOK
    BY InitControl DEF ControlInv
  <2>2. \A r \in Csrs : Created(r) \subseteq Range(TagMemory[r])
    BY <1>4, <2>1, CreatedTags
  <2> QED
    BY <2>2, PacketsAssumption
<1>6. Partition(content, AllCreated)
  <2>0. DOMAIN content = Places
    BY DEF content
  <2>1. ASSUME NEW p \in Places, NEW q \in Places, p # q PROVE content[p] \cap content[q] = {}
    BY <1>3, <1>5, <2>1
  <2>2. ASSUME NEW n PROVE n \in AllCreated <=> \E p \in Places : n \in content[p]
    <3>1. ASSUME NEW p \in Places, n \in content[p] PROVE n \in AllCreated
      BY <1>3, <3>1 DEF AllCreated
    <3>2. ASSUME NEW r \in Csrs, n \in Created(r) PROVE \E p \in Places : n \in content[p]
      <4>1. <<"free", r>> \in Places /\ content[<<"free", r>>] = Range(freeTags[r])
        BY ContentFacts
      <4> QED
        BY <1>1, <3>2, <4>1
    <3> QED
      BY <3>1, <3>2 DEF AllCreated
  <2>3. UNION {content[p] : p \in Places} = AllCreated
    BY <2>2
  <2> QED
    BY <2>0, <2>1, <2>3 DEF Partition
<1>7. IsInjective(<<>>)
  BY DEF IsInjective
<1>8. OnceInv
  BY <1>1, <1>2, <1>7 DEF OnceInv
<1>9. UsedInv
  <2>1. \A n \in Tags : refCount[n] = 0
    BY DEF Init
  <2>2. \A r \in Csrs : \A n \in Range(TagMemory[r]) : n \in Tags
    BY DEF Tags
  <2> QED
    BY <1>1, <1>2, <2>1, <2>2 DEF UsedInv, Placed
<1> QED
  BY <1>4, <1>6, <1>8, <1>9 DEF PlaceInv

\* Every step of a thread or of the GPU keeps the invariant.
LEMMA AccountStep ==
  ASSUME AccountInv, [Next]_vars PROVE AccountInv'
<1>1. ControlInv /\ StreamInv /\ ByInv /\ RefInv /\ PlaceInv
  BY DEF AccountInv, StreamInv
<1>2. ControlInv'
  BY <1>1, ControlStep
<1>3. StreamInv'
  BY <1>1, StreamStep
<1>4. RefInv'
  BY <1>1, <1>2, RefStep
<1>5. PlaceInv'
  BY <1>1, PlaceStep
<1> QED
  BY <1>2, <1>3, <1>4, <1>5 DEF AccountInv

\* The invariant says that every tag is accounted for.
LEMMA AccountImplies ==
  ASSUME AccountInv PROVE TagsAccountedFor
<1>0. ControlInv /\ RefInv /\ PlaceInv /\ Lists /\ OnceInv /\ UsedInv
  BY DEF AccountInv, PlaceInv, Lists
<1>1. ASSUME NEW r \in Csrs, NEW i \in 1..populated[r]
      PROVE  \E p \in Places : {q \in Places : TagMemory[r][i] \in Content(q)} = {p}
  <2> DEFINE n == TagMemory[r][i]
  <2>1. n \in AllCreated
    BY DEF AllCreated, Created
  <2>2. DOMAIN content = Places /\ \A q \in Places : content[q] = Content(q)
    BY DEF content
  <2>3. PICK p \in Places : n \in content[p]
    BY <1>0, <2>1, <2>2 DEF Lists, Partition
  <2>4. \A q \in Places : n \in content[q] => q = p
    BY <1>0, <2>3, Apart
  <2>5. {q \in Places : n \in Content(q)} = {p}
    BY <2>2, <2>3, <2>4
  <2> QED
    BY <2>5
<1>2. ASSUME NEW n \in Tags
      PROVE  refCount[n] = Cardinality(Entries(nodes, n)) + Cardinality(Entries(toBeReturned, n))
  <2>1. \A f : Entries(f, n) = Sites({n}, f)
    BY DEF Entries, Sites
  <2> QED
    BY <1>0, <2>1 DEF RefInv
<1>3. \A r \in Csrs : \A n \in Range(TagMemory[r]) :
       n \in usedTags[r] <=> \/ refCount[n] > 0
                            \/ \E t \in Threads : thread[t].place # "none" /\ Head(thread[t].toReturn) = n
  BY <1>0 DEF UsedInv, Placed
<1> QED
  BY <1>0, <1>1, <1>2, <1>3 DEF TagsAccountedFor, OnceInv

\* Whatever the threads and the GPU do, and for all sizes of the pools, queues and
\* receivers, every tag is accounted for.
THEOREM TagsAlwaysAccountedFor == Spec => []TagsAccountedFor
<1>1. Init => AccountInv
  BY InitControl, InitRefs, InitPlaces DEF AccountInv
<1>2. AccountInv /\ [Next]_vars => AccountInv'
  BY AccountStep
<1>3. AccountInv => TagsAccountedFor
  BY AccountImplies
<1> QED
  BY <1>1, <1>2, <1>3, PTL DEF Spec

-----------------------------------------------------------------------------
(* What is in flight *)

\* What a stream and the commands that are not submitted hold, in any state.
Unsubmitted(d, st) == [c \in Commands |-> IF st[c] \in {"new", "blocked"} THEN d[c] ELSE <<>>]
Flight(s, d, st) ==
  (UNION {Range(s[r]) : r \in Csrs})
    \cup (UNION {Range(d[c]) : c \in {x \in Commands : st[x] \in {"new", "blocked"}}})

\* An instruction is in flight if it is in a stream or in a command that may be submitted.
LEMMA FlightIs ==
  ASSUME NEW s \in Families(Csrs, Instructions), NEW d \in Families(Commands, Instructions), NEW st, NEW i
  PROVE  i \in Flight(s, d, st) <=>
           \/ \E r \in Csrs : \E k \in 1..Len(s[r]) : i = s[r][k]
           \/ \E c \in Commands : \E k \in 1..Len(Unsubmitted(d, st)[c]) : i = Unsubmitted(d, st)[c][k]
<1> DEFINE D == {x \in Commands : st[x] \in {"new", "blocked"}}
           P == {Range(s[r]) : r \in Csrs}
           Q == {Range(d[c]) : c \in D}
           U == UNION P
           V == UNION Q
           w == Unsubmitted(d, st)
<1>1. Flight(s, d, st) = U \cup V
  BY DEF Flight
<1>2. \A T : T \in P <=> \E r \in Csrs : T = Range(s[r])
  OBVIOUS
<1>3. \A T : T \in Q <=> \E c \in D : T = Range(d[c])
  OBVIOUS
<1> HIDE DEF P, Q
<1>4. i \in U <=> \E r \in Csrs : i \in Range(s[r])
  BY <1>2
<1>5. i \in V <=> \E c \in D : i \in Range(d[c])
  BY <1>3
<1> HIDE DEF U, V
<1>6. \A r \in Csrs : i \in Range(s[r]) <=> \E k \in 1..Len(s[r]) : i = s[r][k]
  <2>1. \A r \in Csrs : DOMAIN s[r] = 1..Len(s[r])
    BY LenProperties DEF Families
  <2> QED
    BY <2>1 DEF Range
<1>7. ASSUME NEW c \in Commands
      PROVE  (c \in D /\ i \in Range(d[c])) <=> \E k \in 1..Len(w[c]) : i = w[c][k]
  <2>1. DOMAIN d[c] = 1..Len(d[c])
    BY LenProperties DEF Families
  <2>2. CASE c \in D
    <3>1. w[c] = d[c]
      BY <2>2 DEF Unsubmitted
    <3> HIDE DEF w
    <3> QED
      BY <2>1, <2>2, <3>1 DEF Range
  <2>3. CASE c \notin D
    <3>1. w[c] = <<>> /\ Len(<<>>) = 0
      BY <2>3 DEF Unsubmitted
    <3> HIDE DEF w
    <3> QED
      BY <2>3, <3>1
  <2> QED
    BY <2>2, <2>3
<1> HIDE DEF w
<1>8. (\E c \in D : i \in Range(d[c])) <=> \E c \in Commands : c \in D /\ i \in Range(d[c])
  OBVIOUS
<1> HIDE DEF D
<1>9. i \in Flight(s, d, st) <=> i \in U \/ i \in V
  BY <1>1
<1>10. i \in Flight(s, d, st) <=>
         \/ \E r \in Csrs : \E k \in 1..Len(s[r]) : i = s[r][k]
         \/ \E c \in Commands : \E k \in 1..Len(w[c]) : i = w[c][k]
  BY <1>4, <1>5, <1>6, <1>7, <1>8, <1>9
<1> QED
  BY <1>10 DEF w

\* The commands that may be submitted are lists of instructions.
LEMMA UnsubmittedType ==
  ASSUME NEW d \in [Commands -> Seq(Instructions)], NEW st
  PROVE  Unsubmitted(d, st) \in [Commands -> Seq(Instructions)]
<1>1. \A c \in Commands : Unsubmitted(d, st)[c] \in Seq(Instructions)
  BY DEF Unsubmitted
<1> QED
  BY <1>1 DEF Unsubmitted

\* The lists of instructions.
LEMMA Instructed ==
  ASSUME TypeOK
  PROVE  /\ stream \in Families(Csrs, Instructions) /\ written \in Families(Commands, Instructions)
         /\ IsFiniteSet(Csrs) /\ IsFiniteSet(Commands)
         /\ \A r \in Csrs : stream[r] \in Seq(Instructions)
         /\ \A c \in Commands : written[c] \in Seq(Instructions)
<1>1. written = Unsubmitted(dispatched, status)
  BY DEF written, Unsubmitted
<1>2. written \in [Commands -> Seq(Instructions)]
  BY <1>1, UnsubmittedType DEF TypeOK
<1> QED
  BY <1>2, ConstantFacts DEF Families, TypeOK

\* The same after a step.
LEMMA InstructedNext ==
  ASSUME TypeOK'
  PROVE  /\ stream' \in Families(Csrs, Instructions) /\ written' \in Families(Commands, Instructions)
         /\ \A r \in Csrs : stream'[r] \in Seq(Instructions)
         /\ \A c \in Commands : written'[c] \in Seq(Instructions)
<1>1. written' = Unsubmitted(dispatched', status')
  BY DEF written, Unsubmitted
<1>2. written' \in [Commands -> Seq(Instructions)]
  BY <1>1, UnsubmittedType DEF TypeOK
<1> QED
  BY <1>2 DEF Families, TypeOK

\* What is in flight.
LEMMA InFlightIs ==
  ASSUME TypeOK, NEW i
  PROVE  i \in InFlight <=> \/ \E r \in Csrs : \E k \in 1..Len(stream[r]) : i = stream[r][k]
                            \/ \E c \in Commands : \E k \in 1..Len(written[c]) : i = written[c][k]
<1>1. written = Unsubmitted(dispatched, status) /\ InFlight = Flight(stream, dispatched, status)
  BY DEF written, Unsubmitted, InFlight, Flight
<1>2. stream \in Families(Csrs, Instructions) /\ dispatched \in Families(Commands, Instructions)
  BY DEF TypeOK, Families
<1>3. i \in Flight(stream, dispatched, status) <=>
        \/ \E r \in Csrs : \E k \in 1..Len(stream[r]) : i = stream[r][k]
        \/ \E c \in Commands : \E k \in 1..Len(Unsubmitted(dispatched, status)[c]) :
             i = Unsubmitted(dispatched, status)[c][k]
  BY <1>2, FlightIs
<1> QED
  BY <1>1, <1>3

\* The same after a step.
LEMMA InFlightNext ==
  ASSUME TypeOK', NEW i
  PROVE  i \in InFlight' <=> \/ \E r \in Csrs : \E k \in 1..Len(stream'[r]) : i = stream'[r][k]
                             \/ \E c \in Commands : \E k \in 1..Len(written'[c]) : i = written'[c][k]
<1>1. PICK s \in Families(Csrs, Instructions), d \in Families(Commands, Instructions), st \in [Commands -> Statuses] :
        s = stream' /\ d = dispatched' /\ st = status'
  BY DEF TypeOK, Families
<1>2. written' = Unsubmitted(d, st) /\ InFlight' = Flight(s, d, st)
  BY <1>1 DEF written, Unsubmitted, InFlight, Flight
<1>3. i \in Flight(s, d, st) <=>
        \/ \E r \in Csrs : \E k \in 1..Len(s[r]) : i = s[r][k]
        \/ \E c \in Commands : \E k \in 1..Len(Unsubmitted(d, st)[c]) : i = Unsubmitted(d, st)[c][k]
  BY FlightIs
<1> QED
  BY <1>1, <1>2, <1>3

\* Nothing of S is outstanding if and only if no instruction in flight is in S.
LEMMA OutType ==
  ASSUME TypeOK, NEW S
  PROVE  /\ Cardinality(Sites(S, stream)) \in Nat /\ Cardinality(Sites(S, written)) \in Nat /\ Outstanding(S) \in Nat
         /\ Outstanding(S) = 0 <=> \A i \in InFlight : i \notin S
<1> DEFINE a == Cardinality(Sites(S, stream))
           b == Cardinality(Sites(S, written))
<1>0. /\ stream \in Families(Csrs, Instructions) /\ written \in Families(Commands, Instructions)
      /\ IsFiniteSet(Csrs) /\ IsFiniteSet(Commands)
  BY Instructed
<1>1. a \in Nat /\ (a = 0 <=> \A r \in Csrs : \A k \in 1..Len(stream[r]) : stream[r][k] \notin S)
  BY <1>0, FamilyTypes
<1>2. b \in Nat /\ (b = 0 <=> \A c \in Commands : \A k \in 1..Len(written[c]) : written[c][k] \notin S)
  BY <1>0, FamilyTypes
<1>3. Outstanding(S) = a + b
  BY DEF Outstanding
<1> HIDE DEF a, b
<1>4. Outstanding(S) \in Nat /\ (Outstanding(S) = 0 <=> a = 0 /\ b = 0)
  BY <1>1, <1>2, <1>3
<1>5. (a = 0 /\ b = 0) <=> \A i \in InFlight : i \notin S
  BY <1>1, <1>2, InFlightIs
<1> QED
  BY <1>1, <1>2, <1>4, <1>5 DEF a, b

\* The fields of an instruction in flight.
LEMMA FlightType ==
  ASSUME TypeOK, NEW i \in InFlight
  PROVE  /\ i \in Instructions /\ i.tag \in Tags /\ i.by \in Commands /\ i.for \in Commands \cup {None}
         /\ i.op \in {"wait", "decrement", "write"}
<1>1. i \in Instructions
  <2>1. /\ \A r \in Csrs : \A k \in 1..Len(stream[r]) : stream[r][k] \in Instructions
        /\ \A c \in Commands : \A k \in 1..Len(written[c]) : written[c][k] \in Instructions
    <3>1. /\ \A r \in Csrs : stream[r] \in Seq(Instructions)
          /\ \A c \in Commands : written[c] \in Seq(Instructions)
      BY Instructed
    <3> QED
      BY <3>1, ElementOfSeq
  <2> QED
    BY <2>1, InFlightIs
<1> QED
  BY <1>1 DEF Instructions

\* A tag that can be released is not in flight.
LEMMA Released ==
  ASSUME TypeOK, StreamInv, CountInv, NEW n \in Tags, canBeReleased(n), NEW i \in InFlight
  PROVE  i.tag # n
<1> SUFFICES ASSUME i.tag = n PROVE FALSE
  OBVIOUS
<1>1. packet[n].ended /\ packet[n].implicitDependenciesCount = 0
  BY DEF canBeReleased
<1>2. Outstanding(Decrements(n)) = 0 /\ Outstanding(Writes(n)) = 0
  <2>1. Outstanding(Decrements(n)) \in Nat /\ Outstanding(Writes(n)) \in Nat
    BY OutType
  <2>2. Outstanding(Decrements(n)) <= 0 /\ Outstanding(Writes(n)) <= 0
    BY <1>1 DEF CountInv
  <2> QED
    BY <2>1, <2>2
<1>3. /\ \A r \in Csrs : \A k \in 1..Len(stream[r]) : stream[r][k] \notin Decrements(n)
      /\ \A c \in Commands : \A k \in 1..Len(written[c]) : written[c][k] \notin Decrements(n)
  BY <1>2, OutType, InFlightIs
<1>4. /\ \A r \in Csrs : \A k \in 1..Len(stream[r]) : stream[r][k] \notin Writes(n)
      /\ \A c \in Commands : \A k \in 1..Len(written[c]) : written[c][k] \notin Writes(n)
  BY <1>2, OutType, InFlightIs
<1>5. ASSUME NEW s \in Seq(Instructions), Paired(s), NEW k \in 1..Len(s), i = s[k],
             \A j \in 1..Len(s) : s[j] \notin Decrements(n), \A j \in 1..Len(s) : s[j] \notin Writes(n)
      PROVE  FALSE
  <2>1. i \in Instructions /\ i.op \in {"wait", "decrement", "write"}
    BY FlightType
  <2>2. i.op = "wait"
    BY <1>5, <2>1 DEF Decrements, Writes
  <2>3. k + 1 \in 1..Len(s) /\ s[k + 1].op = "decrement" /\ s[k + 1].tag = n
    BY <1>5, <2>2, LenProperties DEF Paired
  <2>4. s[k + 1] \in Instructions
    BY <1>5, <2>3, ElementOfSeq
  <2> QED
    BY <1>5, <2>3, <2>4 DEF Decrements
<1>6. ASSUME NEW r \in Csrs, NEW k \in 1..Len(stream[r]), i = stream[r][k] PROVE FALSE
  <2>1. stream[r] \in Seq(Instructions) /\ Paired(stream[r])
    BY DEF TypeOK, StreamInv, PairInv
  <2> QED
    BY <1>3, <1>4, <1>5, <1>6, <2>1
<1>7. ASSUME NEW c \in Commands, NEW k \in 1..Len(written[c]), i = written[c][k] PROVE FALSE
  <2>1. written[c] \in Seq(Instructions) /\ Paired(written[c])
    <3>1. Paired(<<>>)
      BY DEF Paired
    <3> QED
      BY <3>1, Instructed DEF StreamInv, PairInv, written
  <2> QED
    BY <1>3, <1>4, <1>5, <1>7, <2>1
<1> QED
  BY <1>6, <1>7, InFlightIs

\* A tag in a container is used, and no thread is about to put it back.
LEMMA HeldBusy ==
  ASSUME ControlInv, RefInv, PlaceInv, NEW h \in Holders, NEW n \in Range(nodes[h])
  PROVE  n \in Tags /\ Busy(n)
<1>1. n \in Tags
  <2>1. nodes[h] \in Seq(Tags)
    BY DEF ControlInv, TypeOK
  <2> QED
    BY <2>1, RangeOfSeq
<1>2. refCount[n] > 0 /\ refCount[n] # 0
  <2>1. refCount[n] > 0 /\ refCount[n] \in Nat
    BY <1>1, Counted
  <2> QED
    BY <2>1
<1>3. n \in usedTags[TagCsr(n)] /\ TagCsr(n) \in Csrs
  BY <1>1, <1>2, TagHome DEF PlaceInv, UsedInv
<1>4. \A t \in Threads : ~Placed(t, n)
  BY <1>1, <1>2 DEF PlaceInv, UsedInv
<1> QED
  BY <1>1, <1>3, <1>4 DEF Busy, Placed

\* A busy tag is neither free nor in the hands of a thread that has taken it.
LEMMA NotBusy ==
  ASSUME PlaceInv, NEW n, Busy(n)
  PROVE  (\A r \in Csrs : n \notin Range(freeTags[r])) /\ (\A t \in Threads : n # None => thread[t].node # n)
<1>0. Lists
  BY DEF PlaceInv, Lists
<1>1. PICK p \in Places : n \in content[p] /\ p[1] \in {"used", "deferred", "detached", "pending"}
  <2>1. CASE \E r \in Csrs : n \in usedTags[r] \/ n \in Range(deferredTags[r])
    <3>1. PICK r \in Csrs : n \in usedTags[r] \/ n \in Range(deferredTags[r])
      BY <2>1
    <3>2. /\ <<"used", r>> \in Places /\ content[<<"used", r>>] = usedTags[r]
          /\ <<"deferred", r>> \in Places /\ content[<<"deferred", r>>] = Range(deferredTags[r])
      BY ContentFacts
    <3> QED
      BY <3>1, <3>2
  <2>2. CASE \E t \in Threads : n \in Range(thread[t].detached) \/ n \in Range(thread[t].pending)
    <3>1. PICK t \in Threads : n \in Range(thread[t].detached) \/ n \in Range(thread[t].pending)
      BY <2>2
    <3>2. /\ <<"detached", t>> \in Places /\ content[<<"detached", t>>] = Range(thread[t].detached)
          /\ <<"pending", t>> \in Places /\ content[<<"pending", t>>] = Range(thread[t].pending)
      BY ContentFacts
    <3> QED
      BY <3>1, <3>2
  <2> QED
    BY <2>1, <2>2 DEF Busy
<1>2. ASSUME NEW r \in Csrs, n \in Range(freeTags[r]) PROVE FALSE
  <2>1. <<"free", r>> \in Places /\ content[<<"free", r>>] = Range(freeTags[r])
    BY ContentFacts
  <2>2. p # <<"free", r>>
    BY <1>1
  <2> QED
    BY <1>0, <1>1, <1>2, <2>1, <2>2, Apart
<1>3. ASSUME NEW t \in Threads, n # None, thread[t].node = n PROVE FALSE
  <2>1. <<"node", t>> \in Places /\ content[<<"node", t>>] = {thread[t].node} \ {None}
    BY ContentFacts
  <2>2. p # <<"node", t>>
    BY <1>1
  <2> QED
    BY <1>0, <1>1, <1>3, <2>1, <2>2, Apart
<1> QED
  BY <1>2, <1>3

-----------------------------------------------------------------------------
(* Steps that write nothing *)

\* The command c is no longer among those that may be submitted.
Shrinks(c) == written'[c] = <<>> /\ \A d \in Commands \ {c} : written'[d] = written[d]

\* Nothing is added to what is in flight.
LEMMA OutstandingKept ==
  ASSUME TypeOK, TypeOK', UNCHANGED stream, written' = written \/ \E c \in Commands : Shrinks(c)
  PROVE  /\ \A S : Outstanding(S)' <= Outstanding(S) /\ Outstanding(S)' \in Nat /\ Outstanding(S) \in Nat
         /\ \A i \in InFlight' : i \in InFlight
<1>0. /\ stream \in Families(Csrs, Instructions) /\ written \in Families(Commands, Instructions)
      /\ written' \in Families(Commands, Instructions) /\ IsFiniteSet(Commands)
  BY Instructed, InstructedNext
<1>1. ASSUME NEW S PROVE Outstanding(S)' <= Outstanding(S) /\ Outstanding(S)' \in Nat /\ Outstanding(S) \in Nat
  <2> DEFINE a == Cardinality(Sites(S, stream))
             b == Cardinality(Sites(S, written))
             e == Cardinality(Sites(S, written'))
  <2>1. a \in Nat /\ b \in Nat
    BY OutType
  <2>2. e \in Nat
    BY <1>0, FamilyTypes
  <2>3. Outstanding(S) = a + b
    BY DEF Outstanding
  <2>4. Outstanding(S)' = a + e
    BY DEF Outstanding
  <2>5. e <= b
    <3>1. CASE written' = written
      BY <2>1, <3>1
    <3>2. ASSUME NEW c \in Commands, Shrinks(c) PROVE e <= b
      <4>1. \A d \in Commands \ {c} : written'[d] = written[d]
        BY <3>2 DEF Shrinks
      <4>2. e = b - Occ(S, written[c]) + Occ(S, written'[c])
        BY <1>0, <4>1, SitesOne
      <4>3. Occ(S, written[c]) \in Nat
        BY <1>0, FamilyTypes
      <4>4. Occ(S, written'[c]) = 0
        BY <3>2, OccEmpty DEF Shrinks
      <4> HIDE DEF b, e
      <4> QED
        BY <2>1, <2>2, <4>2, <4>3, <4>4
    <3> QED
      BY <3>1, <3>2
  <2> HIDE DEF a, b, e
  <2> QED
    BY <2>1, <2>2, <2>3, <2>4, <2>5
<1>2. ASSUME NEW i \in InFlight' PROVE i \in InFlight
  <2>1. \/ \E r \in Csrs : \E k \in 1..Len(stream[r]) : i = stream[r][k]
        \/ \E c \in Commands : \E k \in 1..Len(written'[c]) : i = written'[c][k]
    BY <1>2, InFlightNext
  <2>2. ASSUME NEW c \in Commands, NEW k \in 1..Len(written'[c]) PROVE written'[c] = written[c]
    <3>1. CASE written' = written
      BY <3>1
    <3>2. ASSUME NEW d \in Commands, Shrinks(d) PROVE written'[c] = written[c]
      <4>1. Len(<<>>) = 0
        OBVIOUS
      <4>2. c # d
        BY <2>2, <3>2, <4>1 DEF Shrinks
      <4> QED
        BY <3>2, <4>2 DEF Shrinks
    <3> QED
      BY <3>1, <3>2
  <2> QED
    BY <2>1, <2>2, InFlightIs
<1> QED
  BY <1>1, <1>2

\* A step that leaves the packets alone.
LEMMA FlightQuiet ==
  ASSUME TypeOK, TypeOK', FlightInv, UNCHANGED <<stream, packet, tagOf>>,
         written' = written \/ \E c \in Commands : Shrinks(c),
         \A i \in InFlight : Busy(i.tag)',
         \A t \in Threads : thread'[t].pc = "dispatch" =>
           /\ thread[t].pc = "dispatch" /\ thread'[t].cmd = thread[t].cmd
           /\ nodes'[QueueOf[thread[t].cmd]] = nodes[QueueOf[thread[t].cmd]]
  PROVE  FlightInv'
<1>1. /\ \A S : Outstanding(S)' <= Outstanding(S) /\ Outstanding(S)' \in Nat /\ Outstanding(S) \in Nat
      /\ \A i \in InFlight' : i \in InFlight
  BY OutstandingKept
<1>2. CountInv'
  <2> SUFFICES ASSUME NEW n \in Tags
               PROVE  /\ Outstanding(Decrements(n))' <= packet[n].implicitDependenciesCount
                      /\ Outstanding(Writes(n))' <= IF packet[n].ended THEN 0 ELSE 1
    BY DEF CountInv, Decrements, Writes
  <2>1. /\ Outstanding(Decrements(n)) <= packet[n].implicitDependenciesCount
        /\ Outstanding(Writes(n)) <= IF packet[n].ended THEN 0 ELSE 1
    BY DEF FlightInv, CountInv
  <2>2. packet[n].implicitDependenciesCount \in Int
    BY DEF TypeOK
  <2>3. /\ Outstanding(Decrements(n))' \in Nat /\ Outstanding(Decrements(n)) \in Nat
        /\ Outstanding(Decrements(n))' <= Outstanding(Decrements(n))
    BY <1>1 DEF Decrements
  <2>4. /\ Outstanding(Writes(n))' \in Nat /\ Outstanding(Writes(n)) \in Nat
        /\ Outstanding(Writes(n))' <= Outstanding(Writes(n))
    BY <1>1 DEF Writes
  <2> QED
    BY <2>1, <2>2, <2>3, <2>4
<1>3. BusyInv'
  <2> SUFFICES ASSUME NEW i \in InFlight' PROVE tagOf[i.tag] = i.for /\ Busy(i.tag)'
    BY DEF BusyInv
  <2> QED
    BY <1>1 DEF FlightInv, BusyInv
<1>4. FreshInv'
  <2> SUFFICES ASSUME NEW t \in Threads, thread'[t].pc = "dispatch" PROVE \E n \in Tags : Fresh(t, n)'
    BY DEF FreshInv
  <2>1. PICK n \in Tags : Fresh(t, n)
    BY DEF FlightInv, FreshInv
  <2>2. Outstanding(Writes(n))' = 0
    <3>1. /\ Outstanding(Writes(n))' \in Nat /\ Outstanding(Writes(n)) \in Nat
          /\ Outstanding(Writes(n))' <= Outstanding(Writes(n)) /\ Outstanding(Writes(n)) = 0
      BY <1>1, <2>1 DEF Writes, Fresh
    <3> QED
      BY <3>1
  <2>3. Fresh(t, n)'
    BY <2>1, <2>2 DEF Fresh
  <2> QED
    BY <2>3
<1> QED
  BY <1>2, <1>3, <1>4 DEF FlightInv

\* A step that moves no tag keeps tags busy.
LEMMA BusyQuiet ==
  ASSUME NEW t \in Threads, Others(t), UNCHANGED <<usedTags, deferredTags>>,
         thread'[t].detached = thread[t].detached, thread'[t].pending = thread[t].pending,
         thread'[t].place = "free" => thread[t].place = "free" /\ thread'[t].toReturn = thread[t].toReturn
  PROVE  \A n : Busy(n) => Busy(n)'
<1>1. \A u \in Threads : /\ thread'[u].detached = thread[u].detached /\ thread'[u].pending = thread[u].pending
                         /\ thread'[u].place = "free" => thread[u].place = "free" /\ thread'[u].toReturn = thread[u].toReturn
  BY DEF Others
<1> QED
  BY <1>1 DEF Busy

\* The thread moves no tag; it does not come to the dispatch of a command, nor
\* does a step change the tags of a command that is about to be dispatched.
Still(t) ==
  /\ UNCHANGED <<usedTags, deferredTags>>
  /\ thread'[t].detached = thread[t].detached /\ thread'[t].pending = thread[t].pending
  /\ thread'[t].place = "free" => thread[t].place = "free" /\ thread'[t].toReturn = thread[t].toReturn
Onward(t) == thread'[t].pc = "dispatch" => thread[t].pc = "dispatch" /\ thread'[t].cmd = thread[t].cmd
SameTags ==
  \A u \in Threads : thread[u].pc = "dispatch" => nodes'[QueueOf[thread[u].cmd]] = nodes[QueueOf[thread[u].cmd]]
Unwritten == UNCHANGED <<stream, packet, tagOf>> /\ (written' = written \/ \E c \in Commands : Shrinks(c))

\* A step of t that writes no instruction and no packet: what is in flight stays within
\* bounds if its tags stay busy.
LEMMA FlightThread ==
  ASSUME ControlInv, ControlInv', FlightInv, NEW t \in Threads, Others(t), Unwritten, Onward(t), SameTags,
         \A i \in InFlight : Busy(i.tag)'
  PROVE  FlightInv'
<1>1. \A u \in Threads : thread'[u].pc = "dispatch" =>
        /\ thread[u].pc = "dispatch" /\ thread'[u].cmd = thread[u].cmd
        /\ nodes'[QueueOf[thread[u].cmd]] = nodes[QueueOf[thread[u].cmd]]
  BY DEF Others, Onward, SameTags
<1>2. TypeOK /\ TypeOK'
  BY DEF ControlInv
<1>3. UNCHANGED <<stream, packet, tagOf>> /\ (written' = written \/ \E c \in Commands : Shrinks(c))
  BY DEF Unwritten
<1> QED
  BY <1>1, <1>2, <1>3, FlightQuiet

\* The same for a step that moves no tag.
LEMMA FlightStill ==
  ASSUME ControlInv, ControlInv', FlightInv, NEW t \in Threads, Others(t), Unwritten, Onward(t), SameTags, Still(t)
  PROVE  FlightInv'
<1>1. \A n : Busy(n) => Busy(n)'
  BY BusyQuiet DEF Still
<1>2. \A i \in InFlight : Busy(i.tag)'
  BY <1>1 DEF FlightInv, BusyInv
<1> QED
  BY <1>2, FlightThread

\* The steps that neither write nor move tags that may be in flight.
LEMMA QuietFlight ==
  ASSUME ControlInv, ControlInv', FlightInv, NEW t \in Threads,
         \/ GetTag(t) \/ SpliceReady(t) \/ RemoveFree(t) \/ populateFreeTags(t)
         \/ ResolveDependency(t) \/ DependenciesResolved(t) \/ Submitted(t) \/ DropEvent(t)
         \/ \E c \in Commands : ReleaseEvent(t, c)
  PROVE  FlightInv'
<1> DEFINE s == thread[t]
           Goal == /\ Others(t) /\ UNCHANGED <<stream, packet, tagOf, dispatched, status>> /\ Onward(t) /\ Still(t)
                   /\ \A q \in Queues : nodes'[q] = nodes[q]
<1> SUFFICES Goal
  <2>1. ASSUME Goal PROVE FlightInv'
    <3>1. Unwritten
      BY <2>1 DEF Unwritten, written
    <3>2. SameTags
      <4>1. \A u \in Threads : thread[u].pc = "dispatch" => thread[u].cmd \in Commands
        BY OwnCommand
      <4> QED
        BY <2>1, <4>1, ConstantFacts DEF SameTags
    <3>3. Others(t) /\ Onward(t) /\ Still(t)
      BY <2>1
    <3> QED
      BY <3>1, <3>2, <3>3, FlightStill
  <2> QED
    BY <2>1
<1>1. CASE GetTag(t)
  BY <1>1, GetTagEffect DEF Control, Returns, Has, Onward, Still
<1>2. CASE SpliceReady(t)
  BY <1>2, SpliceReadyEffect DEF Control, Returns, Has, Onward, Still
<1>3. CASE RemoveFree(t)
  BY <1>3, RemoveFreeEffect DEF Control, Returns, Has, Onward, Still
<1>4. CASE populateFreeTags(t)
  BY <1>4, PopulateEffect DEF Others, Onward, Still
<1>5. CASE ResolveDependency(t)
  <2>1. /\ s.toReturn = <<>> /\ s.cmd \in Commands
        /\ Others(t) /\ Control(t, s.pc, s.cmd, Tail(s.toResolve), s.toDrop) /\ thread'[t].place = s.place
        /\ Has(t, s.node, s.detached, s.ready, s.pending)
        /\ UNCHANGED <<usedTags, deferredTags, packet, tagOf, stream, dispatched, status>>
        /\ \/ UNCHANGED nodes
           \/ nodes' = [nodes EXCEPT ![<<"stack", s.cmd>>] = RemoveAt(@, Len(@) - Len(s.toResolve) + 1)]
    BY <1>5, ResolveDependencyEffect DEF At, Returns
  <2>2. s.place = "none"
    BY <2>1, NothingPlaced
  <2>3. \A q \in Queues : nodes'[q] = nodes[q]
    <3>1. \A q \in Queues : q \in Holders /\ q # <<"stack", s.cmd>>
      BY <2>1, ConstantFacts
    <3>2. DOMAIN nodes = Holders
      BY DEF ControlInv, TypeOK
    <3> QED
      BY <2>1, <3>1, <3>2
  <2> QED
    BY <2>1, <2>2, <2>3 DEF Control, Has, Onward, Still
<1>6. CASE DependenciesResolved(t)
  BY <1>6, DependenciesResolvedEffect DEF Control, Returns, Has, Onward, Still
<1>7. CASE Submitted(t)
  <2>1. s.pc = "wait"
    BY <1>7, SubmittedEffect DEF At
  <2>2. s.detached = <<>> /\ s.pending = <<>>
    BY <2>1, EmptyHands
  <2> QED
    BY <1>7, <2>2, SubmittedEffect DEF Control, Returns, Has, Onward, Still
<1>8. CASE DropEvent(t)
  <2> DEFINE e == Head(s.toDrop)
  <2>1. /\ s.place = "none" /\ e \in Commands
        /\ Others(t) /\ (\E d : Control(t, s.pc, s.cmd, s.toResolve, d)) /\ thread'[t].place = s.place
        /\ Has(t, s.node, s.detached, s.ready, s.pending)
        /\ UNCHANGED <<usedTags, deferredTags, packet, tagOf, stream, dispatched, status>>
        /\ \/ UNCHANGED nodes
           \/ nodes' = [nodes EXCEPT ![<<"previous", e>>] = <<>>, ![<<"current", e>>] = <<>>, ![<<"event", e>>] = <<>>]
    BY <1>8, DropEventEffect DEF Returns
  <2> HIDE DEF e
  <2>2. \A q \in Queues : nodes'[q] = nodes[q]
    <3>1. \A q \in Queues : q \in Holders /\ q # <<"previous", e>> /\ q # <<"current", e>> /\ q # <<"event", e>>
      BY <2>1, ConstantFacts
    <3>2. DOMAIN nodes = Holders
      BY DEF ControlInv, TypeOK
    <3> QED
      BY <2>1, <3>1, <3>2
  <2> QED
    BY <2>1, <2>2 DEF Control, Has, Onward, Still
<1>9. ASSUME NEW c \in Commands, ReleaseEvent(t, c) PROVE Goal
  <2>1. /\ thread[t] = Idle /\ Others(t) /\ Control(t, "idle", None, <<>>, <<c>>)
        /\ Returns(t, <<>>, "none") /\ Has(t, None, <<>>, <<>>, <<>>)
        /\ UNCHANGED <<usedTags, deferredTags, packet, tagOf, nodes, stream, dispatched, status>>
    BY <1>9, ReleaseEventEffect
  <2> QED
    BY <2>1 DEF Control, Returns, Has, Onward, Still, Idle
<1> HIDE DEF Goal
<1> QED
  BY <1>1, <1>2, <1>3, <1>4, <1>5, <1>6, <1>7, <1>8, <1>9

-----------------------------------------------------------------------------
(* Tags are returned and deferred *)

\* A step of a thread that moves tags.
LEMMA FlightMoving ==
  ASSUME ControlInv, ControlInv', FlightInv, NEW t \in Threads, Others(t), Onward(t),
         UNCHANGED <<packet, tagOf, nodes, stream, dispatched, status>>, \A i \in InFlight : Busy(i.tag)'
  PROVE  FlightInv'
<1>1. Unwritten
  BY DEF Unwritten, written
<1>2. SameTags
  BY DEF SameTags
<1> QED
  BY <1>1, <1>2, FlightThread

\* A tag stays busy if it has a place that counts, and no thread is about to put it back.
LEMMA BusyNext ==
  ASSUME NEW n, NEW t \in Threads, Busy(n), Others(t),
         thread'[t].place = "free" => Head(thread'[t].toReturn) # n,
         \/ \E r \in Csrs : n \in usedTags'[r] \/ n \in Range(deferredTags'[r])
         \/ \E u \in Threads : n \in Range(thread'[u].detached) \/ n \in Range(thread'[u].pending)
  PROVE  Busy(n)'
<1>1. \A u \in Threads : thread'[u].place = "free" => Head(thread'[u].toReturn) # n
  BY DEF Busy, Others
<1> QED
  BY <1>1 DEF Busy

\* returnTag chooses the free pool only for a tag that is not in flight: canBeReleased says
\* that it is written and that no decrement is outstanding, and a semaphore has its
\* decrement behind it.
LEMMA ReturnTagFlight ==
  ASSUME ControlInv, ControlInv', StreamInv, FlightInv, NEW t \in Threads, returnTag(t)
  PROVE  FlightInv'
<1> DEFINE s == thread[t]
           n == Head(s.toReturn)
<1>1. /\ n \in Tags /\ Others(t) /\ Control(t, s.pc, s.cmd, s.toResolve, s.toDrop)
      /\ Has(t, s.node, s.detached, s.ready, s.pending)
      /\ thread'[t].place = "free" => thread'[t].toReturn = s.toReturn /\ canBeReleased(n)
      /\ UNCHANGED <<usedTags, deferredTags, packet, tagOf, nodes, stream, dispatched, status>>
  BY ReturnTagEffect DEF Returns
<1> HIDE DEF n
<1>2. Onward(t)
  BY <1>1 DEF Onward, Control
<1>3. ASSUME NEW i \in InFlight PROVE Busy(i.tag)'
  <2>1. Busy(i.tag)
    BY DEF FlightInv, BusyInv
  <2>2. thread'[t].place = "free" => Head(thread'[t].toReturn) # i.tag
    <3>1. ASSUME canBeReleased(n) PROVE i.tag # n
      BY <1>1, <3>1, Released DEF ControlInv, FlightInv
    <3> QED
      BY <1>1, <3>1 DEF n
  <2>3. \A u \in Threads : thread'[u].detached = thread[u].detached /\ thread'[u].pending = thread[u].pending
    BY <1>1 DEF Others, Has
  <2>4. \/ \E r \in Csrs : i.tag \in usedTags'[r] \/ i.tag \in Range(deferredTags'[r])
        \/ \E u \in Threads : i.tag \in Range(thread'[u].detached) \/ i.tag \in Range(thread'[u].pending)
    BY <1>1, <2>1, <2>3 DEF Busy
  <2> QED
    BY <1>1, <2>1, <2>2, <2>4, BusyNext
<1> QED
  BY <1>1, <1>2, <1>3, FlightMoving

\* returnTagToFreePool moves a tag that was announced as free.
LEMMA ReturnToFreeFlight ==
  ASSUME ControlInv, ControlInv', FlightInv, NEW t \in Threads, returnTagToFreePool(t)
  PROVE  FlightInv'
<1> DEFINE s == thread[t]
           n == Head(s.toReturn)
<1>1. /\ n \in Tags /\ s.place = "free" /\ Others(t) /\ Control(t, s.pc, s.cmd, s.toResolve, s.toDrop)
      /\ Has(t, s.node, s.detached, s.ready, s.pending) /\ thread'[t].place = "none"
      /\ usedTags' = [usedTags EXCEPT ![TagCsr(n)] = @ \ {n}]
      /\ UNCHANGED <<deferredTags, packet, tagOf, nodes, stream, dispatched, status>>
  BY ReturnToFreeEffect DEF Returns
<1> HIDE DEF n
<1>2. Onward(t)
  BY <1>1 DEF Onward, Control
<1>3. ASSUME NEW i \in InFlight PROVE Busy(i.tag)'
  <2>1. Busy(i.tag)
    BY DEF FlightInv, BusyInv
  <2>2. i.tag # n
    BY <1>1, <2>1 DEF Busy, n
  <2>3. \A u \in Threads : thread'[u].detached = thread[u].detached /\ thread'[u].pending = thread[u].pending
    BY <1>1 DEF Others, Has
  <2>4. \A r \in Csrs : i.tag \in usedTags[r] => i.tag \in usedTags'[r]
    <3>1. usedTags \in [Csrs -> SUBSET Tags]
      BY DEF ControlInv, TypeOK
    <3> QED
      BY <1>1, <2>2, <3>1
  <2>5. \/ \E r \in Csrs : i.tag \in usedTags'[r] \/ i.tag \in Range(deferredTags'[r])
        \/ \E u \in Threads : i.tag \in Range(thread'[u].detached) \/ i.tag \in Range(thread'[u].pending)
    BY <1>1, <2>1, <2>3, <2>4 DEF Busy
  <2> QED
    BY <1>1, <2>1, <2>5, BusyNext
<1> QED
  BY <1>1, <1>2, <1>3, FlightMoving

\* returnTagToDeferredPool keeps the tag busy.
LEMMA ReturnToDeferredFlight ==
  ASSUME ControlInv, ControlInv', PlaceInv, FlightInv, NEW t \in Threads, returnTagToDeferredPool(t)
  PROVE  FlightInv'
<1> DEFINE s == thread[t]
           n == Head(s.toReturn)
           h == TagCsr(n)
<1>1. /\ n \in Tags /\ Others(t) /\ Control(t, s.pc, s.cmd, s.toResolve, s.toDrop)
      /\ Has(t, s.node, s.detached, s.ready, s.pending) /\ thread'[t].place = "none"
      /\ usedTags' = [usedTags EXCEPT ![h] = @ \ {n}]
      /\ deferredTags' = [deferredTags EXCEPT ![h] = <<n>> \o @]
      /\ UNCHANGED <<packet, tagOf, nodes, stream, dispatched, status>>
  BY ReturnToDeferredEffect DEF Returns
<1> HIDE DEF n
<1>2. Onward(t)
  BY <1>1 DEF Onward, Control
<1>3. h \in Csrs
  BY <1>1, TagHome
<1> HIDE DEF h
<1>4. /\ \A r \in Csrs : \A m : m \in Range(deferredTags[r]) => m \in Range(deferredTags'[r])
      /\ n \in Range(deferredTags'[h])
  <2>1. /\ deferredTags[h] \in Seq(Tags) /\ deferredTags'[h] = <<n>> \o deferredTags[h]
        /\ \A r \in Csrs \ {h} : deferredTags'[r] = deferredTags[r]
    BY <1>1, <1>3 DEF ControlInv, TypeOK
  <2> DEFINE u == <<n>>
  <2>2. u \in Seq(Tags) /\ Range(u) = {n}
    BY <1>1 DEF Range
  <2> HIDE DEF u
  <2>3. Range(u \o deferredTags[h]) = Range(u) \cup Range(deferredTags[h])
    BY <2>1, <2>2, RangeConcatenation
  <2> QED
    BY <2>1, <2>2, <2>3 DEF u
<1>6. ASSUME NEW i \in InFlight PROVE Busy(i.tag)'
  <2>1. Busy(i.tag)
    BY DEF FlightInv, BusyInv
  <2>3. \A u \in Threads : thread'[u].detached = thread[u].detached /\ thread'[u].pending = thread[u].pending
    BY <1>1 DEF Others, Has
  <2>4. \A r \in Csrs : i.tag \in usedTags[r] => i.tag \in usedTags'[r] \/ i.tag = n
    <3>1. usedTags \in [Csrs -> SUBSET Tags]
      BY DEF ControlInv, TypeOK
    <3> QED
      BY <1>1, <3>1
  <2>5. \/ \E r \in Csrs : i.tag \in usedTags'[r] \/ i.tag \in Range(deferredTags'[r])
        \/ \E u \in Threads : i.tag \in Range(thread'[u].detached) \/ i.tag \in Range(thread'[u].pending)
    BY <1>3, <1>4, <2>1, <2>3, <2>4 DEF Busy
  <2> QED
    BY <1>1, <2>1, <2>5, BusyNext
<1> QED
  BY <1>1, <1>2, <1>6, FlightMoving

\* The deferred tags are busy wherever a thread that releases them has them.
LEMMA DetachFlight ==
  ASSUME ControlInv, ControlInv', FlightInv, NEW t \in Threads, DetachDeferred(t)
  PROVE  FlightInv'
<1> DEFINE s == thread[t]
           h == allocatorOf(t)
<1>1. /\ h \in Csrs /\ s.pc = "detach" /\ Others(t) /\ Control(t, "sort", s.cmd, s.toResolve, s.toDrop)
      /\ Returns(t, s.toReturn, s.place) /\ Has(t, s.node, deferredTags[h], s.ready, s.pending)
      /\ deferredTags' = [deferredTags EXCEPT ![h] = <<>>]
      /\ UNCHANGED <<usedTags, packet, tagOf, nodes, stream, dispatched, status>>
  BY DetachDeferredEffect DEF At
<1> HIDE DEF h
<1>2. Onward(t)
  BY <1>1 DEF Onward, Control
<1>3. s.detached = <<>> /\ s.pending = <<>>
  BY <1>1, EmptyHands
<1>4. ASSUME NEW i \in InFlight PROVE Busy(i.tag)'
  <2>1. Busy(i.tag)
    BY DEF FlightInv, BusyInv
  <2>2. thread'[t].place = "free" => Head(thread'[t].toReturn) # i.tag
    BY <1>1, <2>1 DEF Busy, Returns
  <2>3. \A u \in Threads : /\ i.tag \in Range(thread[u].detached) => i.tag \in Range(thread'[u].detached)
                           /\ i.tag \in Range(thread[u].pending) => i.tag \in Range(thread'[u].pending)
    <3>1. i.tag \notin Range(<<>>)
      BY EmptyRange
    <3> QED
      BY <1>1, <1>3, <3>1 DEF Others, Has
  <2>4. \A r \in Csrs : i.tag \in Range(deferredTags[r]) =>
          i.tag \in Range(deferredTags'[r]) \/ i.tag \in Range(thread'[t].detached)
    <3>1. \A r \in Csrs \ {h} : deferredTags'[r] = deferredTags[r]
      BY <1>1 DEF ControlInv, TypeOK
    <3> QED
      BY <1>1, <3>1 DEF Has
  <2>5. \/ \E r \in Csrs : i.tag \in usedTags'[r] \/ i.tag \in Range(deferredTags'[r])
        \/ \E u \in Threads : i.tag \in Range(thread'[u].detached) \/ i.tag \in Range(thread'[u].pending)
    BY <1>1, <2>1, <2>3, <2>4 DEF Busy
  <2> QED
    BY <1>1, <2>1, <2>2, <2>5, BusyNext
<1> QED
  BY <1>1, <1>2, <1>4, FlightMoving

\* releaseDeferredTags gives up only tags that are not in flight.
LEMMA SortFlight ==
  ASSUME ControlInv, ControlInv', StreamInv, FlightInv, NEW t \in Threads, SortDeferred(t)
  PROVE  FlightInv'
<1> DEFINE s == thread[t]
           n == Head(s.detached)
           u == <<n>>
<1>1. /\ s.detached # <<>> /\ Others(t) /\ Control(t, s.pc, s.cmd, s.toResolve, s.toDrop)
      /\ Returns(t, s.toReturn, s.place) /\ thread'[t].detached = Tail(s.detached)
      /\ \/ canBeReleased(n) /\ thread'[t].pending = s.pending
         \/ thread'[t].pending = u \o s.pending
      /\ UNCHANGED <<usedTags, deferredTags, packet, tagOf, nodes, stream, dispatched, status>>
  BY SortDeferredEffect DEF Has
<1>2. n \in Tags /\ s.pending \in Seq(Tags) /\ s.detached \in Seq(Tags)
  <2>1. s.pending \in Seq(Tags) /\ s.detached \in Seq(Tags)
    BY Fields DEF ControlInv, TypeOK
  <2> QED
    BY <1>1, <2>1, HeadTailProperties
<1>3. u \in Seq(Tags) /\ Range(u) = {n}
  BY <1>2 DEF Range
<1> HIDE DEF u, n
<1>4. Range(u \o s.pending) = Range(u) \cup Range(s.pending)
  BY <1>2, <1>3, RangeConcatenation
<1>5. \A m \in Range(s.detached) : m = n \/ m \in Range(Tail(s.detached))
  <2> TAKE m \in Range(s.detached)
  <2>1. PICK k \in 1..Len(s.detached) : m = s.detached[k]
    BY <1>2, LenProperties DEF Range
  <2>2. CASE k = 1
    BY <2>1, <2>2 DEF n
  <2>3. CASE k # 1
    <3>1. Tail(s.detached) \in Seq(Tags) /\ Len(Tail(s.detached)) = Len(s.detached) - 1 /\ Len(s.detached) \in Nat
      BY <1>1, <1>2, HeadTailProperties, LenProperties
    <3>2. k - 1 \in 1..Len(Tail(s.detached)) /\ Tail(s.detached)[k - 1] = m
      BY <1>1, <1>2, <2>1, <2>3, <3>1
    <3>3. DOMAIN Tail(s.detached) = 1..Len(Tail(s.detached))
      BY <3>1, LenProperties
    <3> QED
      BY <3>2, <3>3 DEF Range
  <2> QED
    BY <2>2, <2>3
<1>6. Onward(t)
  BY <1>1 DEF Onward, Control
<1>7. ASSUME NEW i \in InFlight PROVE Busy(i.tag)'
  <2>1. Busy(i.tag)
    BY DEF FlightInv, BusyInv
  <2>2. thread'[t].place = "free" => Head(thread'[t].toReturn) # i.tag
    BY <1>1, <2>1 DEF Busy, Returns
  <2>3. canBeReleased(n) => i.tag # n
    BY <1>2, Released DEF ControlInv, FlightInv
  <2>4. i.tag \in Range(s.detached) \/ i.tag \in Range(s.pending) =>
          i.tag \in Range(thread'[t].detached) \/ i.tag \in Range(thread'[t].pending)
    BY <1>1, <1>3, <1>4, <1>5, <2>3
  <2>5. \A v \in Threads \ {t} : thread'[v] = thread[v]
    BY <1>1 DEF Others
  <2>6. \/ \E r \in Csrs : i.tag \in usedTags'[r] \/ i.tag \in Range(deferredTags'[r])
        \/ \E v \in Threads : i.tag \in Range(thread'[v].detached) \/ i.tag \in Range(thread'[v].pending)
    BY <1>1, <2>1, <2>4, <2>5 DEF Busy
  <2> QED
    BY <1>1, <2>1, <2>2, <2>6, BusyNext
<1> QED
  BY <1>1, <1>6, <1>7, FlightMoving

\* The pending tags stay busy among the deferred ones.
LEMMA SplicePendingFlight ==
  ASSUME ControlInv, ControlInv', FlightInv, NEW t \in Threads, SplicePending(t)
  PROVE  FlightInv'
<1> DEFINE s == thread[t]
           h == allocatorOf(t)
<1>1. /\ h \in Csrs /\ Others(t) /\ Control(t, "remove", s.cmd, s.toResolve, s.toDrop)
      /\ Returns(t, s.toReturn, s.place) /\ Has(t, s.node, s.detached, s.ready, <<>>)
      /\ deferredTags' = [deferredTags EXCEPT ![h] = @ \o s.pending]
      /\ UNCHANGED <<usedTags, packet, tagOf, nodes, stream, dispatched, status>>
  BY SplicePendingEffect DEF At
<1> HIDE DEF h
<1>2. Onward(t)
  BY <1>1 DEF Onward, Control
<1>3. /\ s.pending \in Seq(Tags) /\ deferredTags[h] \in Seq(Tags)
      /\ deferredTags'[h] = deferredTags[h] \o s.pending /\ \A r \in Csrs \ {h} : deferredTags'[r] = deferredTags[r]
  <2>1. thread[t] \in ThreadState /\ deferredTags \in [Csrs -> Seq(Tags)]
    BY DEF ControlInv, TypeOK
  <2> QED
    BY <1>1, <2>1, Fields
<1>4. Range(deferredTags[h] \o s.pending) = Range(deferredTags[h]) \cup Range(s.pending)
  BY <1>3, RangeConcatenation
<1>5. ASSUME NEW i \in InFlight PROVE Busy(i.tag)'
  <2>1. Busy(i.tag)
    BY DEF FlightInv, BusyInv
  <2>2. thread'[t].place = "free" => Head(thread'[t].toReturn) # i.tag
    BY <1>1, <2>1 DEF Busy, Returns
  <2>3. \A u \in Threads : /\ i.tag \in Range(thread[u].detached) => i.tag \in Range(thread'[u].detached)
                           /\ i.tag \in Range(thread[u].pending) =>
                                i.tag \in Range(thread'[u].pending) \/ i.tag \in Range(deferredTags'[h])
    BY <1>1, <1>3, <1>4 DEF Others, Has
  <2>4. \A r \in Csrs : i.tag \in Range(deferredTags[r]) => i.tag \in Range(deferredTags'[r])
    BY <1>3, <1>4
  <2>5. \/ \E r \in Csrs : i.tag \in usedTags'[r] \/ i.tag \in Range(deferredTags'[r])
        \/ \E u \in Threads : i.tag \in Range(thread'[u].detached) \/ i.tag \in Range(thread'[u].pending)
    BY <1>1, <2>1, <2>3, <2>4 DEF Busy
  <2> QED
    BY <1>1, <2>1, <2>2, <2>5, BusyNext
<1> QED
  BY <1>1, <1>2, <1>5, FlightMoving

-----------------------------------------------------------------------------
(* Calls begin and end *)

\* A thread with empty hands before and after a step moves no tag.
LEMMA StillEmpty ==
  ASSUME ControlInv, NEW t \in Threads, thread[t].pc \notin {"use", "sort", "splice"},
         UNCHANGED <<usedTags, deferredTags>>, Has(t, None, <<>>, <<>>, <<>>), thread'[t].place = "none"
  PROVE  Still(t)
<1>1. thread[t].detached = <<>> /\ thread[t].pending = <<>>
  BY EmptyHands
<1> QED
  BY <1>1 DEF Still, Has

\* Containers other than those of queues.
LEMMA SameQueues ==
  ASSUME ControlInv, \A q \in Queues : nodes'[q] = nodes[q]
  PROVE  SameTags
<1>1. \A u \in Threads : thread[u].pc = "dispatch" => thread[u].cmd \in Commands
  BY OwnCommand
<1> QED
  BY <1>1, ConstantFacts DEF SameTags

\* enqueueBlocked keeps the command among those that may be submitted.
LEMMA BlockedFlight ==
  ASSUME ControlInv, ControlInv', FlightInv, NEW t \in Threads, EnqueueBlocked(t)
  PROVE  FlightInv'
<1>0. PICK c \in Commands : c = thread[t].cmd
  BY BlockedEffect
<1>1. /\ thread[t].pc = "block" /\ Others(t) /\ Control(t, "idle", None, <<>>, VirtualEventOf(QueueOf[c]))
      /\ Returns(t, nodes[<<"stack", c>>], "none") /\ Has(t, None, <<>>, <<>>, <<>>)
      /\ nodes' = [nodes EXCEPT ![<<"current", c>>] = nodes[QueueOf[c]], ![<<"previous", c>>] = nodes[<<"stack", c>>],
                                ![<<"stack", c>>] = <<>>]
      /\ status' = [status EXCEPT ![c] = "blocked"]
      /\ UNCHANGED <<usedTags, deferredTags, packet, tagOf, stream, dispatched>>
  BY <1>0, BlockedEffect DEF At
<1>2. status[c] = "new" /\ status \in [Commands -> Statuses] /\ nodes \in [Holders -> Seq(Tags)]
  BY <1>0, <1>1 DEF ControlInv, ThreadInv, OwnerOK, Enqueuing, TypeOK
<1>3. Unwritten
  <2>1. \A d \in Commands : status'[d] \in {"new", "blocked"} <=> status[d] \in {"new", "blocked"}
    BY <1>1, <1>2
  <2>2. written' = written
    BY <1>1, <2>1 DEF written
  <2> QED
    BY <1>1, <2>2 DEF Unwritten
<1>4. SameTags
  <2>1. \A q \in Queues : q \in Holders /\ q # <<"current", c>> /\ q # <<"previous", c>> /\ q # <<"stack", c>>
    BY ConstantFacts
  <2>2. \A q \in Queues : nodes'[q] = nodes[q]
    BY <1>1, <1>2, <2>1
  <2> QED
    BY <2>2, SameQueues
<1>5. Onward(t)
  BY <1>1 DEF Onward, Control
<1>6. Still(t)
  BY <1>1, StillEmpty DEF Returns
<1> QED
  BY <1>1, <1>3, <1>4, <1>5, <1>6, FlightStill

\* enqueueHandler starts with the tags of the queue, which belong to no command that another
\* thread is about to dispatch.
LEMMA KernelFlight ==
  ASSUME ControlInv, ControlInv', FlightInv, NEW t \in Threads, NEW c \in Commands, EnqueueKernel(t, c)
  PROVE  FlightInv'
<1>1. /\ thread[t] = Idle /\ Others(t) /\ Control(t, "resolve", c, nodes[QueueOf[c]], isQueueBlocked(QueueOf[c]))
      /\ Returns(t, <<>>, "none") /\ Has(t, None, <<>>, <<>>, <<>>) /\ csrOwner[Csr(c)] = None
      /\ nodes' = [nodes EXCEPT ![<<"stack", c>>] = nodes[QueueOf[c]], ![QueueOf[c]] = <<>>]
      /\ UNCHANGED <<usedTags, deferredTags, packet, tagOf, stream, dispatched, status>>
  BY EnqueueKernelEffect
<1>2. thread[t].pc = "idle" /\ nodes \in [Holders -> Seq(Tags)]
  BY <1>1 DEF Idle, ControlInv, TypeOK
<1>3. Unwritten
  BY <1>1 DEF Unwritten, written
<1>4. SameTags
  <2> SUFFICES ASSUME NEW u \in Threads, thread[u].pc = "dispatch"
               PROVE  nodes'[QueueOf[thread[u].cmd]] = nodes[QueueOf[thread[u].cmd]]
    BY DEF SameTags
  <2>1. u # t
    BY <1>2
  <2>2. thread[u].cmd \in Commands /\ QueueOf[thread[u].cmd] # QueueOf[c]
    BY <1>1, <2>1, OtherThreads
  <2>3. QueueOf[thread[u].cmd] \in Holders /\ QueueOf[thread[u].cmd] # <<"stack", c>>
    BY <2>2, ConstantFacts
  <2> QED
    BY <1>1, <1>2, <2>2, <2>3
<1>5. Onward(t)
  BY <1>1 DEF Onward, Control
<1>6. Still(t)
  BY <1>1, <1>2, StillEmpty DEF Returns
<1> QED
  BY <1>1, <1>3, <1>4, <1>5, <1>6, FlightStill

\* A marker writes no instruction.
LEMMA MarkerFlight ==
  ASSUME ControlInv, ControlInv', FlightInv, NEW t \in Threads, NEW c \in Commands,
         EnqueueMarker(t, c) \/ EnqueueBlockedMarker(t, c)
  PROVE  FlightInv'
<1>1. /\ thread[t] = Idle /\ Others(t) /\ \E d : Control(t, "idle", None, <<>>, d)
      /\ Returns(t, <<>>, "none") /\ Has(t, None, <<>>, <<>>, <<>>)
      /\ \/ UNCHANGED nodes
         \/ nodes' = [nodes EXCEPT ![<<"event", c>>] = nodes[QueueOf[c]] \o EventNodes(WaitList[c])]
      /\ \E v \in {"marked", "blocked"} : status' = [status EXCEPT ![c] = v]
      /\ UNCHANGED <<usedTags, deferredTags, packet, tagOf, stream, dispatched>>
  BY EnqueueMarkerEffect
<1>2. thread[t].pc = "idle" /\ nodes \in [Holders -> Seq(Tags)] /\ status \in [Commands -> Statuses]
  BY <1>1 DEF Idle, ControlInv, TypeOK
<1>3. Unwritten
  <2>1. status'[c] \in {"marked", "blocked"} /\ \A d \in Commands \ {c} : status'[d] = status[d]
    BY <1>1, <1>2
  <2>2. status[c] = "new"
    BY MarkerIsNew
  <2>3. Shrinks(c) \/ UNCHANGED written
    <3>1. CASE status'[c] = "marked"
      BY <1>1, <2>1, <3>1 DEF Shrinks, written
    <3>2. CASE status'[c] = "blocked"
      BY <1>1, <2>1, <2>2, <3>2 DEF written
    <3> QED
      BY <2>1, <3>1, <3>2
  <2> QED
    BY <1>1, <2>3 DEF Unwritten
<1>4. SameTags
  <2>1. \A q \in Queues : q \in Holders /\ q # <<"event", c>>
    BY ConstantFacts
  <2>2. \A q \in Queues : nodes'[q] = nodes[q]
    BY <1>1, <1>2, <2>1
  <2> QED
    BY <2>2, SameQueues
<1>5. Onward(t)
  BY <1>1 DEF Onward, Control
<1>6. Still(t)
  BY <1>1, <1>2, StillEmpty DEF Returns
<1> QED
  BY <1>1, <1>3, <1>4, <1>5, <1>6, FlightStill

\* The instructions of a terminated command are never executed.
LEMMA AbortFlight ==
  ASSUME ControlInv, ControlInv', FlightInv, NEW t \in Threads, NEW c \in Commands, Abort(t, c)
  PROVE  FlightInv'
<1>1. /\ thread[t] = Idle /\ Others(t) /\ Control(t, "idle", None, <<>>, <<c>>)
      /\ Returns(t, <<>>, "none") /\ Has(t, None, <<>>, <<>>, <<>>)
      /\ status' = [status EXCEPT ![c] = "aborted"]
      /\ UNCHANGED <<usedTags, deferredTags, packet, tagOf, nodes, stream, dispatched>>
  BY AbortEffect
<1>2. thread[t].pc = "idle" /\ status \in [Commands -> Statuses]
  BY <1>1 DEF Idle, ControlInv, TypeOK
<1>3. Unwritten
  <2>1. status'[c] = "aborted" /\ \A d \in Commands \ {c} : status'[d] = status[d]
    BY <1>1, <1>2
  <2>2. Shrinks(c)
    BY <1>1, <2>1 DEF Shrinks, written
  <2> QED
    BY <1>1, <2>2 DEF Unwritten
<1>4. SameTags
  BY <1>1 DEF SameTags
<1>5. Onward(t)
  BY <1>1 DEF Onward, Control
<1>6. Still(t)
  BY <1>1, <1>2, StillEmpty DEF Returns
<1> QED
  BY <1>1, <1>3, <1>4, <1>5, <1>6, FlightStill

\* A marker that is submitted has no instructions.
LEMMA SubmitMarkerFlight ==
  ASSUME ControlInv, ControlInv', FlightInv, NEW t \in Threads, NEW c \in Commands, SubmitMarker(t, c)
  PROVE  FlightInv'
<1>1. /\ thread[t] = Idle /\ Others(t) /\ Control(t, "wait", c, <<>>, <<>>)
      /\ Returns(t, <<>>, "none") /\ Has(t, None, <<>>, <<>>, <<>>)
      /\ status' = [status EXCEPT ![c] = "marked"]
      /\ UNCHANGED <<usedTags, deferredTags, packet, tagOf, nodes, stream, dispatched>>
  BY SubmitMarkerEffect
<1>2. thread[t].pc = "idle" /\ status \in [Commands -> Statuses]
  BY <1>1 DEF Idle, ControlInv, TypeOK
<1>3. Unwritten
  <2>1. status'[c] = "marked" /\ \A d \in Commands \ {c} : status'[d] = status[d]
    BY <1>1, <1>2
  <2>2. Shrinks(c)
    BY <1>1, <2>1 DEF Shrinks, written
  <2> QED
    BY <1>1, <2>2 DEF Unwritten
<1>4. SameTags
  BY <1>1 DEF SameTags
<1>5. Onward(t)
  BY <1>1 DEF Onward, Control
<1>6. Still(t)
  BY <1>1, <1>2, StillEmpty DEF Returns
<1> QED
  BY <1>1, <1>3, <1>4, <1>5, <1>6, FlightStill

\* No command of a deleted queue is about to be dispatched.
LEMMA ReleaseQueueFlight ==
  ASSUME ControlInv, ControlInv', FlightInv, NEW t \in Threads, NEW q \in Queues, ReleaseQueue(t, q)
  PROVE  FlightInv'
<1>1. /\ thread[t] = Idle /\ Others(t) /\ Control(t, "idle", None, <<>>, VirtualEventOf(q))
      /\ Returns(t, nodes[q], "none") /\ Has(t, None, <<>>, <<>>, <<>>)
      /\ \A c \in Commands : QueueOf[c] = q => \A u \in Threads : thread[u].cmd # c
      /\ nodes' = [nodes EXCEPT ![q] = <<>>]
      /\ UNCHANGED <<usedTags, deferredTags, packet, tagOf, stream, dispatched, status>>
  BY ReleaseQueueEffect
<1>2. thread[t].pc = "idle" /\ nodes \in [Holders -> Seq(Tags)]
  BY <1>1 DEF Idle, ControlInv, TypeOK
<1>3. Unwritten
  BY <1>1 DEF Unwritten, written
<1>4. SameTags
  <2> SUFFICES ASSUME NEW u \in Threads, thread[u].pc = "dispatch"
               PROVE  nodes'[QueueOf[thread[u].cmd]] = nodes[QueueOf[thread[u].cmd]]
    BY DEF SameTags
  <2>1. thread[u].cmd \in Commands
    BY OwnCommand
  <2>2. QueueOf[thread[u].cmd] # q /\ QueueOf[thread[u].cmd] \in Holders
    BY <1>1, <2>1, ConstantFacts
  <2> QED
    BY <1>1, <1>2, <2>2
<1>5. Onward(t)
  BY <1>1 DEF Onward, Control
<1>6. Still(t)
  BY <1>1, <1>2, StillEmpty DEF Returns
<1> QED
  BY <1>1, <1>3, <1>4, <1>5, <1>6, FlightStill

-----------------------------------------------------------------------------
(* A tag is taken *)

\* The tag that a thread has taken is not in flight.
LEMMA NodeNotInFlight ==
  ASSUME ControlInv, PlaceInv, FlightInv, NEW t \in Threads, NEW n \in Tags, n = thread[t].node
  PROVE  /\ \A i \in InFlight : i.tag # n
         /\ Outstanding(Decrements(n)) = 0 /\ Outstanding(Writes(n)) = 0
<1>1. \A i \in InFlight : i.tag # n
  <2>1. ~Busy(n)
    BY NotBusy, ConstantFacts
  <2> QED
    BY <2>1 DEF FlightInv, BusyInv
<1>2. (\A i \in InFlight : i \notin Decrements(n)) /\ (\A i \in InFlight : i \notin Writes(n))
  BY <1>1 DEF Decrements, Writes
<1> QED
  BY <1>1, <1>2, OutType DEF ControlInv

\* getTag initialises a tag that is not in flight, so that no counter or write is lost.
LEMMA UseTagFlight ==
  ASSUME ControlInv, ControlInv', RefInv, PlaceInv, FlightInv, NEW t \in Threads, UseTag(t)
  PROVE  FlightInv'
<1>0. PICK c \in Commands, n \in Tags : c = thread[t].cmd /\ n = thread[t].node
  BY UseTagEffect
<1> DEFINE s == thread[t]
<1>1. /\ s.pc = "use" /\ Csr(c) \in Csrs
      /\ usedTags' = [usedTags EXCEPT ![Csr(c)] = @ \cup {n}]
      /\ packet' = [packet EXCEPT ![n] = [ended |-> FALSE, implicitDependenciesCount |-> 0]]
      /\ tagOf' = [tagOf EXCEPT ![n] = c]
      /\ nodes' = [nodes EXCEPT ![QueueOf[c]] = Append(@, n)]
      /\ Others(t) /\ Control(t, "dispatch", c, s.toResolve, s.toDrop)
      /\ Returns(t, s.toReturn, s.place) /\ Has(t, None, s.detached, s.ready, s.pending)
      /\ UNCHANGED <<deferredTags, stream, dispatched, status>>
  BY <1>0, UseTagEffect DEF At
<1>2. /\ \A i \in InFlight : i.tag # n
      /\ Outstanding(Decrements(n)) = 0 /\ Outstanding(Writes(n)) = 0
  BY <1>0, NodeNotInFlight
<1>3. /\ packet'[n] = [ended |-> FALSE, implicitDependenciesCount |-> 0] /\ tagOf'[n] = c
      /\ \A m \in Tags \ {n} : packet'[m] = packet[m] /\ tagOf'[m] = tagOf[m]
      /\ \A r \in Csrs : usedTags[r] \subseteq usedTags'[r]
  BY <1>1 DEF ControlInv, TypeOK
<1>4. written' = written /\ InFlight' = InFlight
  BY <1>1 DEF written, InFlight
<1>5. \A S : Outstanding(S)' = Outstanding(S)
  BY <1>1, <1>4 DEF Outstanding
<1>6. nodes[QueueOf[c]] = <<>> /\ QueueOf[c] \in Holders /\ nodes'[QueueOf[c]] = <<n>>
  <2>1. nodes[QueueOf[c]] = <<>>
    BY <1>0, <1>1 DEF ControlInv, ThreadInv, OwnerOK, Early
  <2>2. QueueOf[c] \in Holders /\ nodes \in [Holders -> Seq(Tags)]
    BY ConstantFacts DEF ControlInv, TypeOK
  <2>3. nodes'[QueueOf[c]] = Append(<<>>, n)
    BY <1>1, <2>1, <2>2
  <2> QED
    BY <2>1, <2>2, <2>3
<1>7. CountInv'
  <2> SUFFICES ASSUME NEW m \in Tags
               PROVE  /\ Outstanding(Decrements(m))' <= packet'[m].implicitDependenciesCount
                      /\ Outstanding(Writes(m))' <= IF packet'[m].ended THEN 0 ELSE 1
    BY DEF CountInv, Decrements, Writes
  <2>1. /\ Outstanding(Decrements(m))' = Outstanding(Decrements(m))
        /\ Outstanding(Writes(m))' = Outstanding(Writes(m))
    BY <1>5 DEF Decrements, Writes
  <2>2. CASE m = n
    BY <1>2, <1>3, <2>1, <2>2
  <2>3. CASE m # n
    BY <1>3, <2>1, <2>3 DEF FlightInv, CountInv
  <2> QED
    BY <2>2, <2>3
<1>8. BusyInv'
  <2> SUFFICES ASSUME NEW i \in InFlight PROVE tagOf'[i.tag] = i.for /\ Busy(i.tag)'
    BY <1>4 DEF BusyInv
  <2>1. i.tag \in Tags \ {n} /\ tagOf[i.tag] = i.for /\ Busy(i.tag)
    BY <1>2, FlightType DEF ControlInv, FlightInv, BusyInv
  <2>2. \A u \in Threads : /\ thread'[u].detached = thread[u].detached /\ thread'[u].pending = thread[u].pending
                           /\ thread'[u].place = thread[u].place /\ thread'[u].toReturn = thread[u].toReturn
    BY <1>1 DEF Others, Has, Returns
  <2>3. Busy(i.tag)'
    BY <1>1, <1>3, <2>1, <2>2 DEF Busy
  <2> QED
    BY <1>3, <2>1, <2>3
<1>9. FreshInv'
  <2> SUFFICES ASSUME NEW u \in Threads, thread'[u].pc = "dispatch" PROVE \E m \in Tags : Fresh(u, m)'
    BY DEF FreshInv
  <2>1. CASE u = t
    <3>1. thread'[t].cmd = c /\ Outstanding(Writes(n))' = 0 /\ ~packet'[n].ended
      BY <1>1, <1>2, <1>3, <1>5 DEF Control, Writes
    <3>2. Fresh(t, n)'
      BY <1>3, <1>6, <3>1 DEF Fresh
    <3> QED
      BY <2>1, <3>2
  <2>2. CASE u # t
    <3>1. thread'[u] = thread[u] /\ thread[u].pc = "dispatch"
      BY <1>1, <2>2 DEF Others
    <3>2. PICK m \in Tags : Fresh(u, m)
      BY <3>1 DEF FlightInv, FreshInv
    <3>3. thread[u].cmd \in Commands /\ QueueOf[thread[u].cmd] # QueueOf[c]
      <4>1. s.pc # "idle" /\ thread[u].pc # "idle"
        BY <1>1, <3>1
      <4> QED
        BY <1>0, <2>2, <4>1, OwnCommand
    <3>4. QueueOf[thread[u].cmd] \in Holders
      BY <3>3, ConstantFacts
    <3>5. m # n
      <4>1. nodes[QueueOf[thread[u].cmd]] = <<m>>
        BY <3>2 DEF Fresh
      <4>2. m \in Range(nodes[QueueOf[thread[u].cmd]])
        BY <4>1 DEF Range
      <4>3. refCount[m] > 0 /\ refCount[m] \in Nat
        BY <3>4, <4>2, Counted
      <4>4. refCount[n] = 0
        BY <1>0, NodeUnused
      <4> QED
        BY <4>3, <4>4
    <3>6. nodes'[QueueOf[thread[u].cmd]] = nodes[QueueOf[thread[u].cmd]]
      <4>1. nodes \in [Holders -> Seq(Tags)]
        BY DEF ControlInv, TypeOK
      <4> QED
        BY <1>1, <3>3, <3>4, <4>1
    <3>7. Outstanding(Writes(m))' = Outstanding(Writes(m)) /\ packet'[m] = packet[m] /\ tagOf'[m] = tagOf[m]
      BY <1>3, <1>5, <3>5 DEF Writes
    <3>8. Fresh(u, m)'
      BY <3>1, <3>2, <3>6, <3>7 DEF Fresh
    <3> QED
      BY <3>8
  <2> QED
    BY <2>1, <2>2
<1> QED
  BY <1>7, <1>8, <1>9 DEF FlightInv

\* A command is added to what is in flight.
LEMMA FlightGrows ==
  ASSUME ControlInv, ControlInv', FlightInv, NEW t \in Threads, Others(t), Still(t), SameTags,
         thread'[t].pc # "dispatch", UNCHANGED tagOf,
         NEW waits \in Seq(Tags), incImplicitDependenciesCount(waits), NEW W \in SUBSET Tags,
         \A m \in Tags : Outstanding(Decrements(m))' <= Outstanding(Decrements(m)) + Occ({m}, waits),
         \A m \in Tags : Outstanding(Writes(m))' <= Outstanding(Writes(m)) + IF m \in W THEN 1 ELSE 0,
         \A m \in Tags : Outstanding(Decrements(m))' \in Nat /\ Outstanding(Writes(m))' \in Nat,
         \A m \in W : ~packet[m].ended /\ Outstanding(Writes(m)) = 0 /\ \A u \in Threads \ {t} : ~Fresh(u, m),
         \A i \in InFlight' : i \in InFlight \/ (tagOf[i.tag] = i.for /\ Busy(i.tag))
  PROVE  FlightInv'
<1>0. TypeOK
  BY DEF ControlInv
<1>1. \A m \in Tags : /\ packet'[m].ended = packet[m].ended
                      /\ packet'[m].implicitDependenciesCount = packet[m].implicitDependenciesCount + Occ({m}, waits)
  BY <1>0, IncrementType
<1>2. CountInv'
  <2> SUFFICES ASSUME NEW m \in Tags
               PROVE  /\ Outstanding(Decrements(m))' <= packet'[m].implicitDependenciesCount
                      /\ Outstanding(Writes(m))' <= IF packet'[m].ended THEN 0 ELSE 1
    BY DEF CountInv, Decrements, Writes
  <2>1. /\ Outstanding(Decrements(m)) <= packet[m].implicitDependenciesCount
        /\ Outstanding(Writes(m)) <= IF packet[m].ended THEN 0 ELSE 1
    BY DEF FlightInv, CountInv
  <2>2. packet[m].implicitDependenciesCount \in Int /\ Occ({m}, waits) \in Nat
    BY <1>0, OccType DEF TypeOK
  <2>3. /\ Outstanding(Decrements(m))' \in Nat /\ Outstanding(Decrements(m)) \in Nat
        /\ Outstanding(Writes(m))' \in Nat /\ Outstanding(Writes(m)) \in Nat
    BY <1>0, OutType
  <2>4. Outstanding(Decrements(m))' <= Outstanding(Decrements(m)) + Occ({m}, waits)
    OBVIOUS
  <2>5. Outstanding(Writes(m))' <= Outstanding(Writes(m)) + IF m \in W THEN 1 ELSE 0
    OBVIOUS
  <2>6. Outstanding(Decrements(m))' <= packet'[m].implicitDependenciesCount
    <3>1. packet'[m].implicitDependenciesCount = packet[m].implicitDependenciesCount + Occ({m}, waits)
      BY <1>1
    <3>2. \A a, b, d \in Nat, e \in Int : a <= b + d /\ b <= e => a <= e + d
      OBVIOUS
    <3>3. Outstanding(Decrements(m))' <= packet[m].implicitDependenciesCount + Occ({m}, waits)
      BY <2>1, <2>2, <2>3, <2>4, <3>2
    <3> QED
      BY <3>1, <3>3
  <2>7. Outstanding(Writes(m))' <= IF packet[m].ended THEN 0 ELSE 1
    <3>1. CASE m \in W
      BY <2>3, <2>5, <3>1
    <3>2. CASE m \notin W
      BY <2>1, <2>3, <2>5, <3>2
    <3> QED
      BY <3>1, <3>2
  <2> QED
    BY <1>1, <2>6, <2>7
<1>3. BusyInv'
  <2> SUFFICES ASSUME NEW i \in InFlight' PROVE tagOf[i.tag] = i.for /\ Busy(i.tag)'
    BY DEF BusyInv
  <2>1. \A n : Busy(n) => Busy(n)'
    BY BusyQuiet DEF Still
  <2> QED
    BY <2>1 DEF FlightInv, BusyInv
<1>4. FreshInv'
  <2> SUFFICES ASSUME NEW u \in Threads, thread'[u].pc = "dispatch" PROVE \E m \in Tags : Fresh(u, m)'
    BY DEF FreshInv
  <2>1. u # t /\ thread'[u] = thread[u] /\ thread[u].pc = "dispatch"
    BY DEF Others
  <2>2. PICK m \in Tags : Fresh(u, m)
    BY <2>1 DEF FlightInv, FreshInv
  <2>3. m \notin W
    BY <2>1, <2>2
  <2>4. Outstanding(Writes(m))' = 0
    <3>1. /\ Outstanding(Writes(m))' \in Nat /\ Outstanding(Writes(m)) = 0
          /\ Outstanding(Writes(m))' <= Outstanding(Writes(m)) + 0
      BY <2>2, <2>3 DEF Fresh
    <3> QED
      BY <3>1
  <2>5. nodes'[QueueOf[thread[u].cmd]] = nodes[QueueOf[thread[u].cmd]]
    BY <2>1 DEF SameTags
  <2>6. Fresh(u, m)'
    BY <1>1, <2>1, <2>2, <2>4, <2>5 DEF Fresh
  <2> QED
    BY <2>6
<1> QED
  BY <1>2, <1>3, <1>4 DEF FlightInv

-----------------------------------------------------------------------------
(* Commands are written and submitted *)

\* The tags that a command waits for are busy: an event holds them.
LEMMA WaitsBusy ==
  ASSUME ControlInv, RefInv, PlaceInv, NEW cs \in SUBSET Commands
  PROVE  \A n \in Range(EventNodes(cs)) : Busy(n)
<1>1. /\ EventNodes(cs) \in Seq(Tags)
      /\ \A i \in 1..Len(EventNodes(cs)) : \E w \in cs : EventNodes(cs)[i] \in Range(nodes[<<"event", w>>])
  BY EventNodesType DEF ControlInv
<1> TAKE n \in Range(EventNodes(cs))
<1>2. PICK k \in 1..Len(EventNodes(cs)) : n = EventNodes(cs)[k]
  BY <1>1, LenProperties DEF Range
<1>3. PICK w \in cs : n \in Range(nodes[<<"event", w>>])
  BY <1>1, <1>2
<1>4. <<"event", w>> \in Holders
  BY ConstantFacts
<1> QED
  BY <1>3, <1>4, HeldBusy

\* An entry of a concatenation is one of the first or of the second list.
LEMMA ConcatMembers ==
  ASSUME NEW X, NEW s \in Seq(X), NEW u \in Seq(X), NEW k \in 1..Len(s \o u)
  PROVE  (\E j \in 1..Len(s) : (s \o u)[k] = s[j]) \/ (\E j \in 1..Len(u) : (s \o u)[k] = u[j])
<1>1. /\ Len(s) \in Nat /\ Len(u) \in Nat /\ Len(s \o u) = Len(s) + Len(u)
      /\ (s \o u)[k] = IF k <= Len(s) THEN s[k] ELSE u[k - Len(s)]
  BY ConcatProperties, LenProperties
<1>2. CASE k <= Len(s)
  BY <1>1, <1>2
<1>3. CASE k > Len(s)
  <2>1. k - Len(s) \in 1..Len(u)
    BY <1>1, <1>3
  <2> QED
    BY <1>1, <1>3, <2>1
<1> QED
  BY <1>1, <1>2, <1>3

\* A command is replaced in what is not submitted, or moved to a stream.
LEMMA OutstandingDispatch ==
  ASSUME TypeOK, TypeOK', NEW c \in Commands, UNCHANGED stream, \A d \in Commands \ {c} : written'[d] = written[d], NEW S
  PROVE  Outstanding(S)' <= Outstanding(S) + Occ(S, written'[c]) /\ Outstanding(S)' \in Nat /\ Occ(S, written'[c]) \in Nat
<1> DEFINE a == Cardinality(Sites(S, stream))
           b == Cardinality(Sites(S, written))
           e == Cardinality(Sites(S, written'))
<1>1. a \in Nat /\ b \in Nat
  BY OutType
<1>2. /\ written \in Families(Commands, Instructions) /\ written' \in Families(Commands, Instructions)
      /\ IsFiniteSet(Commands)
  BY Instructed, InstructedNext
<1>3. e \in Nat /\ Occ(S, written[c]) \in Nat /\ Occ(S, written'[c]) \in Nat
  BY <1>2, FamilyTypes
<1>4. e = b - Occ(S, written[c]) + Occ(S, written'[c])
  BY <1>2, SitesOne
<1>5. Outstanding(S) = a + b /\ Outstanding(S)' = a + e
  BY DEF Outstanding
<1> HIDE DEF a, b, e
<1> QED
  BY <1>1, <1>3, <1>4, <1>5

\* flushTask has appended u and the command c to the stream of r.
Flushed(r, u, c) == (\A x \in Csrs \ {r} : stream'[x] = stream[x]) /\ stream'[r] = (stream[r] \o u) \o written[c]

\* flushTask moves the command to its stream and adds u to it.
LEMMA OutstandingFlush ==
  ASSUME TypeOK, TypeOK', NEW c \in Commands, NEW r \in Csrs, NEW u \in Seq(Instructions), NEW S,
         Flushed(r, u, c), Shrinks(c)
  PROVE  Outstanding(S)' = Outstanding(S) + Occ(S, u) /\ Outstanding(S)' \in Nat /\ Occ(S, u) \in Nat
<1> DEFINE a == Cardinality(Sites(S, stream))
           b == Cardinality(Sites(S, written))
           d == Cardinality(Sites(S, stream'))
           e == Cardinality(Sites(S, written'))
<1>1. a \in Nat /\ b \in Nat
  BY OutType
<1>2. /\ written \in Families(Commands, Instructions) /\ written' \in Families(Commands, Instructions)
      /\ stream \in Families(Csrs, Instructions) /\ stream' \in Families(Csrs, Instructions)
      /\ IsFiniteSet(Commands) /\ IsFiniteSet(Csrs)
  BY Instructed, InstructedNext
<1>3. /\ d \in Nat /\ e \in Nat /\ Occ(S, written[c]) \in Nat /\ Occ(S, written'[c]) = 0
      /\ Occ(S, stream[r]) \in Nat /\ Occ(S, stream'[r]) \in Nat /\ Occ(S, u) \in Nat
  <2>1. Occ(S, written'[c]) = 0
    BY OccEmpty DEF Shrinks
  <2>2. Occ(S, u) \in Nat
    BY OccType
  <2> QED
    BY <1>2, <2>1, <2>2, FamilyTypes
<1>4. \A x \in Commands \ {c} : written'[x] = written[x]
  BY DEF Shrinks
<1>5. e = b - Occ(S, written[c]) + Occ(S, written'[c])
  BY <1>2, <1>4, SitesOne
<1>6. \A x \in Csrs \ {r} : stream'[x] = stream[x]
  BY DEF Flushed
<1>7. d = a - Occ(S, stream[r]) + Occ(S, stream'[r])
  BY <1>2, <1>6, SitesOne
<1>8. Occ(S, stream'[r]) = Occ(S, stream[r]) + Occ(S, u) + Occ(S, written[c])
  <2>1. stream[r] \in Seq(Instructions) /\ written[c] \in Seq(Instructions)
    BY Instructed
  <2>2. stream[r] \o u \in Seq(Instructions) /\ Occ(S, stream[r] \o u) = Occ(S, stream[r]) + Occ(S, u)
    BY <2>1, OccConcat, ConcatProperties
  <2>3. Occ(S, (stream[r] \o u) \o written[c]) = Occ(S, stream[r] \o u) + Occ(S, written[c])
    BY <2>1, <2>2, OccConcat
  <2> QED
    BY <2>2, <2>3 DEF Flushed
<1>9. Outstanding(S) = a + b /\ Outstanding(S)' = d + e
  BY DEF Outstanding
<1> HIDE DEF a, b, d, e
<1>10. \A x, y, v, w \in Nat : /\ d = a - x + y /\ e = b - w + 0 /\ y = x + v + w => d + e = (a + b) + v
  BY <1>1, <1>3
<1>11. d + e = (a + b) + Occ(S, u)
  BY <1>3, <1>5, <1>7, <1>8, <1>10
<1>12. d + e \in Nat
  BY <1>3
<1> QED
  BY <1>3, <1>9, <1>11, <1>12

\* flushTask moves a command to the stream, behind the semaphores for other receivers.
LEMMA FlushFlight ==
  ASSUME ControlInv, ControlInv', RefInv, PlaceInv, FlightInv, NEW t \in Threads, NEW c \in Commands,
         flushTask(c), status[c] \in {"new", "blocked"}, UNCHANGED <<tagOf, dispatched>>,
         Others(t), Still(t), SameTags, thread'[t].pc # "dispatch"
  PROVE  FlightInv'
<1> DEFINE waits == OutOfCsr(c)
           u == programCsrDependencies(c, waits)
           r == Csr(c)
           W == {}
<1>0. TypeOK /\ TypeOK' /\ r \in Csrs
  BY ConstantFacts DEF ControlInv
<1>1. waits \in Seq(Tags)
  BY <1>0, WaitsType
<1>2. /\ u \in Seq(Instructions)
      /\ \A k \in 1..Len(u) : u[k].for = tagOf[u[k].tag] /\ u[k].tag \in Range(waits)
      /\ \A n \in Tags : Occ(Decrements(n), u) = Occ({n}, waits) /\ Occ(Writes(n), u) = 0
  <2> HIDE DEF waits
  <2> QED
    BY <1>0, <1>1, DependenciesType
<1>3. /\ stream' = [stream EXCEPT ![r] = @ \o u \o dispatched[c]]
      /\ incImplicitDependenciesCount(waits) /\ status' = [status EXCEPT ![c] = "submitted"]
  BY DEF flushTask
<1>4. \A n \in Range(waits) : Busy(n)
  <2> DEFINE cs == {w \in WaitList[c] : Csr(w) # Csr(c)}
  <2>1. cs \in SUBSET Commands /\ waits = EventNodes(cs)
    BY ConstantFacts DEF OutOfCsr
  <2> HIDE DEF cs
  <2> QED
    BY <2>1, WaitsBusy
<1> HIDE DEF waits, u, r
<1>5. written[c] = dispatched[c] /\ Shrinks(c)
  <2>1. status'[c] = "submitted" /\ \A d \in Commands \ {c} : status'[d] = status[d]
    BY <1>0, <1>3 DEF TypeOK
  <2> QED
    BY <2>1 DEF Shrinks, written
<1>6. Flushed(r, u, c)
  BY <1>0, <1>3, <1>5 DEF TypeOK, Flushed
<1>7. ASSUME NEW m \in Tags
      PROVE  /\ Outstanding(Decrements(m))' <= Outstanding(Decrements(m)) + Occ({m}, waits)
             /\ Outstanding(Writes(m))' <= Outstanding(Writes(m)) + IF m \in W THEN 1 ELSE 0
             /\ Outstanding(Decrements(m))' \in Nat /\ Outstanding(Writes(m))' \in Nat
  <2>1. PICK S : S = Decrements(m)
    OBVIOUS
  <2>2. PICK T : T = Writes(m)
    OBVIOUS
  <2>3. /\ Outstanding(S)' = Outstanding(S) + Occ(S, u) /\ Outstanding(S)' \in Nat /\ Outstanding(S) \in Nat
        /\ Outstanding(T)' = Outstanding(T) + Occ(T, u) /\ Outstanding(T)' \in Nat /\ Outstanding(T) \in Nat
    BY <1>0, <1>2, <1>5, <1>6, OutstandingFlush, OutType
  <2>4. Occ(S, u) = Occ({m}, waits) /\ Occ(T, u) = 0 /\ Occ({m}, waits) \in Nat
    BY <1>1, <1>2, <2>1, <2>2, OccType
  <2>5. Outstanding(Decrements(m))' = Outstanding(S)' /\ Outstanding(Writes(m))' = Outstanding(T)'
    BY <2>1, <2>2 DEF Decrements, Writes
  <2> QED
    BY <2>1, <2>2, <2>3, <2>4, <2>5
<1>8. ASSUME NEW i \in InFlight' PROVE i \in InFlight \/ (tagOf[i.tag] = i.for /\ Busy(i.tag))
  <2>1. CASE \E x \in Commands : \E k \in 1..Len(written'[x]) : i = written'[x][k]
    <3>1. PICK x \in Commands : \E k \in 1..Len(written'[x]) : i = written'[x][k]
      BY <2>1
    <3>2. Len(<<>>) = 0
      OBVIOUS
    <3>3. x # c
      BY <1>5, <3>1, <3>2 DEF Shrinks
    <3>4. written'[x] = written[x]
      BY <1>5, <3>3 DEF Shrinks
    <3> QED
      BY <1>0, <3>1, <3>4, InFlightIs
  <2>2. CASE \E x \in Csrs : \E k \in 1..Len(stream'[x]) : i = stream'[x][k]
    <3>1. PICK x \in Csrs : \E k \in 1..Len(stream'[x]) : i = stream'[x][k]
      BY <2>2
    <3>2. CASE x # r
      <4>1. stream'[x] = stream[x]
        BY <1>6, <3>2 DEF Flushed
      <4> QED
        BY <1>0, <3>1, <4>1, InFlightIs
    <3>3. CASE x = r
      <4>1. stream[r] \in Seq(Instructions) /\ written[c] \in Seq(Instructions)
        BY <1>0, Instructed
      <4>2. PICK v \in Seq(Instructions) : v = stream[r] \o u
        BY <1>2, <4>1, ConcatProperties
      <4>3. PICK y \in Seq(Instructions) : y = written[c]
        BY <4>1
      <4>4. PICK k \in 1..Len(v \o y) : i = (v \o y)[k]
        BY <1>6, <3>1, <3>3, <4>2, <4>3 DEF Flushed
      <4>5. (\E j \in 1..Len(v) : i = v[j]) \/ (\E j \in 1..Len(y) : i = y[j])
        BY <4>4, ConcatMembers
      <4>6. ASSUME NEW j \in 1..Len(v), i = v[j]
            PROVE  (\E l \in 1..Len(stream[r]) : i = stream[r][l]) \/ (\E l \in 1..Len(u) : i = u[l])
        BY <1>2, <4>1, <4>2, <4>6, ConcatMembers
      <4>7. ASSUME NEW l \in 1..Len(u), i = u[l] PROVE tagOf[i.tag] = i.for /\ Busy(i.tag)
        BY <1>2, <1>4, <4>7
      <4> QED
        BY <1>0, <4>3, <4>5, <4>6, <4>7, InFlightIs
    <3> QED
      BY <3>2, <3>3
  <2> QED
    BY <1>0, <1>8, <2>1, <2>2, InFlightNext
<1>9. \A m \in W : ~packet[m].ended /\ Outstanding(Writes(m)) = 0 /\ \A v \in Threads \ {t} : ~Fresh(v, m)
  OBVIOUS
<1>10. W \in SUBSET Tags
  OBVIOUS
<1> HIDE DEF W
<1> QED
  BY <1>1, <1>3, <1>7, <1>8, <1>9, <1>10, FlightGrows

\* enqueueNonBlocked submits its command.
LEMMA NonBlockedFlight ==
  ASSUME ControlInv, ControlInv', RefInv, PlaceInv, FlightInv, NEW t \in Threads, EnqueueNonBlocked(t)
  PROVE  FlightInv'
<1>0. PICK c \in Commands : c = thread[t].cmd
  BY NonBlockedEffect
<1>1. /\ thread[t].pc = "flush" /\ Others(t) /\ Control(t, "idle", None, <<>>, <<>>)
      /\ Returns(t, nodes[<<"stack", c>>], "none") /\ Has(t, None, <<>>, <<>>, <<>>)
      /\ flushTask(c) /\ nodes' = [nodes EXCEPT ![<<"stack", c>>] = <<>>]
      /\ UNCHANGED <<usedTags, deferredTags, tagOf, dispatched>>
  BY <1>0, NonBlockedEffect DEF At
<1>2. status[c] = "new" /\ nodes \in [Holders -> Seq(Tags)]
  BY <1>0, <1>1 DEF ControlInv, ThreadInv, OwnerOK, Enqueuing, TypeOK
<1>3. SameTags
  <2>1. \A q \in Queues : q \in Holders /\ q # <<"stack", c>>
    BY ConstantFacts
  <2>2. \A q \in Queues : nodes'[q] = nodes[q]
    BY <1>1, <1>2, <2>1
  <2> QED
    BY <2>2, SameQueues
<1>4. thread'[t].pc # "dispatch"
  BY <1>1 DEF Control
<1>5. Still(t)
  BY <1>1, StillEmpty DEF Returns
<1> QED
  BY <1>1, <1>2, <1>3, <1>4, <1>5, FlushFlight

\* submit submits a blocked command.
LEMMA SubmitFlight ==
  ASSUME ControlInv, ControlInv', RefInv, PlaceInv, FlightInv, NEW t \in Threads, NEW c \in Commands, Submit(t, c)
  PROVE  FlightInv'
<1>1. /\ thread[t] = Idle /\ Others(t) /\ Control(t, "wait", c, <<>>, <<>>)
      /\ Returns(t, <<>>, "none") /\ Has(t, None, <<>>, <<>>, <<>>)
      /\ flushTask(c) /\ status[c] = "blocked"
      /\ UNCHANGED <<usedTags, deferredTags, tagOf, nodes, dispatched>>
  BY SubmitEffect
<1>2. SameTags
  BY <1>1 DEF SameTags
<1>3. thread'[t].pc # "dispatch"
  BY <1>1 DEF Control
<1>4. Still(t)
  BY <1>1, StillEmpty DEF Returns, Idle
<1> QED
  BY <1>1, <1>2, <1>3, <1>4, FlushFlight

\* The command is written: its semaphores, and the walker that writes its tag.
LEMMA DispatchFlight ==
  ASSUME ControlInv, ControlInv', RefInv, PlaceInv, FlightInv, NEW t \in Threads, Dispatch(t)
  PROVE  FlightInv'
<1>0. PICK c \in Commands : c = thread[t].cmd
  BY DispatchEffect
<1> DEFINE s == thread[t]
           on == OnCsr(c)
           st == nodes[<<"stack", c>>]
           waits == on \o st
           a == programCsrDependencies(c, waits)
<1>1. /\ s.pc = "dispatch" /\ Others(t) /\ thread'[t].pc # "dispatch"
      /\ Returns(t, s.toReturn, s.place) /\ Has(t, s.node, s.detached, s.ready, s.pending)
      /\ UNCHANGED nodes \/ nodes' = [nodes EXCEPT ![<<"event", c>>] = nodes[QueueOf[c]]]
      /\ dispatched' = [dispatched EXCEPT ![c] = a \o setupTimestampPacket(c, nodes[QueueOf[c]])]
      /\ incImplicitDependenciesCount(waits)
      /\ UNCHANGED <<usedTags, deferredTags, tagOf, stream, status>>
  BY <1>0, DispatchEffect DEF At, Control
<1>2. TypeOK /\ TypeOK' /\ status[c] = "new" /\ nodes \in [Holders -> Seq(Tags)]
  BY <1>0, <1>1 DEF ControlInv, ThreadInv, OwnerOK, Enqueuing, Early, TypeOK
<1>3. PICK n \in Tags : Fresh(t, n)
  BY <1>1 DEF FlightInv, FreshInv
<1>4. /\ nodes[QueueOf[c]] = <<n>> /\ tagOf[n] = c /\ ~packet[n].ended /\ Outstanding(Writes(n)) = 0
      /\ QueueOf[c] \in Holders /\ n \in Range(nodes[QueueOf[c]])
  <2>1. nodes[QueueOf[c]] = <<n>>
    BY <1>0, <1>3 DEF Fresh
  <2> QED
    BY <1>0, <1>3, <2>1, ConstantFacts DEF Fresh, Range
<1> DEFINE w == setupTimestampPacket(c, nodes[QueueOf[c]])
           W == {n}
<1>5. on \in Seq(Tags) /\ st \in Seq(Tags) /\ waits \in Seq(Tags) /\ Range(waits) = Range(on) \cup Range(st)
  <2>1. on \in Seq(Tags) /\ st \in Seq(Tags)
    BY <1>2, WaitsType, ConstantFacts
  <2> HIDE DEF on, st
  <2> QED
    BY <2>1, ConcatProperties, RangeConcatenation
<1>6. \A m \in Range(waits) : Busy(m)
  <2> DEFINE cs == {x \in WaitList[c] : Csr(x) = Csr(c)}
  <2>1. cs \in SUBSET Commands /\ on = EventNodes(cs)
    BY ConstantFacts DEF OnCsr
  <2> HIDE DEF cs, on
  <2>2. \A m \in Range(on) : Busy(m)
    BY <2>1, WaitsBusy
  <2>3. \A m \in Range(st) : Busy(m)
    BY HeldBusy, ConstantFacts
  <2> QED
    BY <1>5, <2>2, <2>3
<1> HIDE DEF waits
<1>7. /\ a \in Seq(Instructions)
      /\ \A k \in 1..Len(a) : a[k].for = tagOf[a[k].tag] /\ a[k].tag \in Range(waits)
      /\ \A m \in Tags : Occ(Decrements(m), a) = Occ({m}, waits) /\ Occ(Writes(m), a) = 0
  <2>1. PICK y \in Seq(Tags) : y = waits
    BY <1>5
  <2>2. TypeOK
    BY <1>2
  <2> QED
    BY <2>1, <2>2, DependenciesType
<1>8. /\ w \in Seq(Instructions)
      /\ \A k \in 1..Len(w) : w[k].for = c /\ w[k].tag = n
      /\ \A m \in Tags : Occ(Decrements(m), w) = 0 /\ Occ(Writes(m), w) = IF m \in W THEN 1 ELSE 0
  <2>1. PICK own \in Seq(Tags) : own = nodes[QueueOf[c]]
    BY <1>2, <1>4
  <2>2. /\ w \in Seq(Instructions)
        /\ \A k \in 1..Len(w) : w[k].for = c /\ w[k].tag \in Range(own)
        /\ \A m \in Tags : Occ(Decrements(m), w) = 0 /\ Occ(Writes(m), w) = Occ({m}, own)
    BY <2>1, WritesType
  <2>3. Range(own) = {n}
    BY <1>4, <2>1 DEF Range
  <2>4. \A m \in Tags : Occ({m}, own) = IF n \in {m} THEN 1 ELSE 0
    BY <1>4, <2>1, OccOne
  <2> HIDE DEF w
  <2> QED
    BY <2>2, <2>3, <2>4
<1>9. /\ written'[c] = a \o w /\ \A d \in Commands \ {c} : written'[d] = written[d]
  <2>1. dispatched'[c] = a \o w /\ \A d \in Commands \ {c} : dispatched'[d] = dispatched[d]
    BY <1>1, <1>2 DEF TypeOK
  <2> QED
    BY <1>1, <1>2, <2>1 DEF written
<1> HIDE DEF a, w
<1>10. ASSUME NEW m \in Tags
       PROVE  /\ Outstanding(Decrements(m))' <= Outstanding(Decrements(m)) + Occ({m}, waits)
              /\ Outstanding(Writes(m))' <= Outstanding(Writes(m)) + IF m \in W THEN 1 ELSE 0
              /\ Outstanding(Decrements(m))' \in Nat /\ Outstanding(Writes(m))' \in Nat
  <2>1. PICK S : S = Decrements(m)
    OBVIOUS
  <2>2. PICK T : T = Writes(m)
    OBVIOUS
  <2>3. /\ Outstanding(S)' <= Outstanding(S) + Occ(S, written'[c]) /\ Outstanding(S)' \in Nat
        /\ Outstanding(T)' <= Outstanding(T) + Occ(T, written'[c]) /\ Outstanding(T)' \in Nat
    <3>1. UNCHANGED stream
      BY <1>1
    <3>2. \A d \in Commands \ {c} : written'[d] = written[d]
      BY <1>9
    <3> QED
      BY <1>2, <3>1, <3>2, OutstandingDispatch
  <2>4. Occ(S, a \o w) = Occ(S, a) + Occ(S, w) /\ Occ(T, a \o w) = Occ(T, a) + Occ(T, w)
    BY <1>7, <1>8, OccConcat
  <2>5. Occ(S, a) = Occ({m}, waits) /\ Occ(T, a) = 0 /\ Occ({m}, waits) \in Nat
    BY <1>5, <1>7, <2>1, <2>2, OccType
  <2>6. Occ(S, w) = 0 /\ Occ(T, w) = IF m \in W THEN 1 ELSE 0
    BY <1>8, <2>1, <2>2
  <2>7. Outstanding(Decrements(m))' = Outstanding(S)' /\ Outstanding(Writes(m))' = Outstanding(T)'
    BY <2>1, <2>2 DEF Decrements, Writes
  <2>8. Occ(S, written'[c]) = Occ({m}, waits) /\ Occ(T, written'[c]) = IF m \in W THEN 1 ELSE 0
    BY <1>9, <2>4, <2>5, <2>6
  <2> QED
    BY <2>1, <2>2, <2>3, <2>7, <2>8
<1>11. ASSUME NEW i \in InFlight' PROVE i \in InFlight \/ (tagOf[i.tag] = i.for /\ Busy(i.tag))
  <2>1. CASE \E x \in Csrs : \E k \in 1..Len(stream'[x]) : i = stream'[x][k]
    BY <1>1, <1>2, <2>1, InFlightIs
  <2>2. ASSUME NEW x \in Commands \ {c}, \E k \in 1..Len(written'[x]) : i = written'[x][k] PROVE i \in InFlight
    <3>1. written'[x] = written[x]
      BY <1>9
    <3> QED
      BY <1>2, <2>2, <3>1, InFlightIs
  <2>3. CASE \E k \in 1..Len(written'[c]) : i = written'[c][k]
    <3>1. PICK k \in 1..Len(a \o w) : i = (a \o w)[k]
      BY <1>9, <2>3
    <3>2. (\E j \in 1..Len(a) : i = a[j]) \/ (\E j \in 1..Len(w) : i = w[j])
      BY <1>7, <1>8, <3>1, ConcatMembers
    <3>3. CASE \E j \in 1..Len(a) : i = a[j]
      BY <1>6, <1>7, <3>3
    <3>4. CASE \E j \in 1..Len(w) : i = w[j]
      <4>1. Busy(n)
        BY <1>4, HeldBusy
      <4> QED
        BY <1>4, <1>8, <3>4, <4>1
    <3> QED
      BY <3>2, <3>3, <3>4
  <2> QED
    BY <1>2, <1>11, <2>1, <2>2, <2>3, InFlightNext
<1>12. \A m \in W : ~packet[m].ended /\ Outstanding(Writes(m)) = 0 /\ \A u \in Threads \ {t} : ~Fresh(u, m)
  <2>1. ASSUME NEW u \in Threads \ {t}, Fresh(u, n) PROVE FALSE
    <3>1. thread[u].cmd = c
      BY <1>4, <2>1 DEF Fresh
    <3>2. thread[u].cmd # c
      BY <1>0, <1>1, OwnCommand
    <3> QED
      BY <3>1, <3>2
  <2> QED
    BY <1>4, <2>1
<1>13. W \in SUBSET Tags
  OBVIOUS
<1> HIDE DEF W
<1>14. SameTags
  <2>1. \A q \in Queues : q \in Holders /\ q # <<"event", c>>
    BY ConstantFacts
  <2>2. \A q \in Queues : nodes'[q] = nodes[q]
    BY <1>1, <1>2, <2>1
  <2> QED
    BY <2>2, SameQueues
<1>15. Still(t)
  BY <1>1 DEF Still, Returns, Has
<1>16. Others(t) /\ thread'[t].pc # "dispatch" /\ UNCHANGED tagOf /\ incImplicitDependenciesCount(waits)
  BY <1>1
<1> QED
  BY <1>5, <1>10, <1>11, <1>12, <1>13, <1>14, <1>15, <1>16, FlightGrows

-----------------------------------------------------------------------------
(* The GPU *)

\* The GPU has executed one instruction.
LEMMA OutstandingGpu ==
  ASSUME TypeOK, TypeOK', NEW r \in Csrs, stream[r] # <<>>, \A x \in Csrs \ {r} : stream'[x] = stream[x],
         stream'[r] = Tail(stream[r]), written' = written, NEW S
  PROVE  /\ Outstanding(S) = Outstanding(S)' + IF Head(stream[r]) \in S THEN 1 ELSE 0
         /\ Outstanding(S) \in Nat /\ Outstanding(S)' \in Nat
<1> DEFINE a == Cardinality(Sites(S, stream))
           b == Cardinality(Sites(S, written))
           d == Cardinality(Sites(S, stream'))
           one == IF Head(stream[r]) \in S THEN 1 ELSE 0
<1>1. a \in Nat /\ b \in Nat
  BY OutType
<1>2. /\ stream \in Families(Csrs, Instructions) /\ stream' \in Families(Csrs, Instructions)
      /\ IsFiniteSet(Csrs)
  BY Instructed, InstructedNext
<1>3. d \in Nat /\ Occ(S, stream[r]) \in Nat /\ Occ(S, stream'[r]) \in Nat
  BY <1>2, FamilyTypes
<1>4. d = a - Occ(S, stream[r]) + Occ(S, stream'[r])
  <2>1. \A x \in Csrs \ {r} : stream'[x] = stream[x]
    OBVIOUS
  <2> QED
    BY <1>2, <2>1, SitesOne
<1>5. Occ(S, stream[r]) = Occ(S, stream'[r]) + one
  <2>1. stream[r] \in Seq(Instructions)
    BY Instructed
  <2> QED
    BY <2>1, OccTail
<1>6. Outstanding(S) = a + b /\ Outstanding(S)' = d + b
  BY DEF Outstanding
<1>7. one \in Nat
  OBVIOUS
<1> HIDE DEF a, b, d, one
<1>8. a + b = d + b + one /\ a + b \in Nat /\ d + b \in Nat
  BY <1>1, <1>3, <1>4, <1>5, <1>7
<1> QED
  BY <1>6, <1>8 DEF one

\* The GPU executes an instruction: the counter of its tag goes down with the outstanding
\* decrements, and the write is the only one of its tag.
LEMMA GpuFlight ==
  ASSUME ControlInv, ControlInv', StreamInv, FlightInv, NEW r \in Csrs, Gpu(r)
  PROVE  FlightInv'
<1>0. TypeOK /\ TypeOK' /\ stream[r] \in Seq(Instructions) /\ stream[r] # <<>>
  BY DEF Gpu, ControlInv, TypeOK
<1>1. PICK i : i = Head(stream[r])
  OBVIOUS
<1>2. Head(stream[r]) = stream[r][1] /\ 1 \in 1..Len(stream[r])
  BY <1>0, HeadTailProperties, EmptySeq
<1>3. /\ i \in Instructions /\ i.tag \in Tags /\ i.by \in Commands /\ i \in InFlight
      /\ i.op \in {"wait", "decrement", "write"} /\ status[i.by] \in {"submitted", "executed"}
  <2>1. i \in InFlight
    BY <1>0, <1>1, <1>2, InFlightIs
  <2>2. status[i.by] \in {"submitted", "executed"}
    BY <1>1, <1>2 DEF StreamInv, ByInv
  <2> QED
    BY <1>0, <2>1, <2>2, FlightType
<1>4. /\ stream'[r] = Tail(stream[r]) /\ \A x \in Csrs \ {r} : stream'[x] = stream[x]
      /\ UNCHANGED <<usedTags, deferredTags, tagOf, nodes, dispatched, thread>>
      /\ status' = status \/ status' = [status EXCEPT ![i.by] = "executed"]
      /\ \/ i.op = "wait" /\ packet' = packet
         \/ i.op = "decrement" /\ packet' = [packet EXCEPT ![i.tag].implicitDependenciesCount = @ - 1]
         \/ i.op = "write" /\ packet' = [packet EXCEPT ![i.tag].ended = TRUE]
  BY <1>0, <1>1 DEF Gpu, TypeOK
<1>5. written' = written
  <2>1. \A c \in Commands : status'[c] \in {"new", "blocked"} <=> status[c] \in {"new", "blocked"}
    BY <1>0, <1>3, <1>4 DEF TypeOK
  <2> QED
    BY <1>4, <2>1 DEF written
<1>6. ASSUME NEW S
      PROVE  /\ Outstanding(S) = Outstanding(S)' + IF i \in S THEN 1 ELSE 0
             /\ Outstanding(S) \in Nat /\ Outstanding(S)' \in Nat
  BY <1>0, <1>1, <1>4, <1>5, OutstandingGpu
<1>7. ASSUME NEW m \in Tags
      PROVE  /\ Outstanding(Decrements(m)) = Outstanding(Decrements(m))' + IF i.op = "decrement" /\ i.tag = m THEN 1 ELSE 0
             /\ Outstanding(Writes(m)) = Outstanding(Writes(m))' + IF i.op = "write" /\ i.tag = m THEN 1 ELSE 0
             /\ Outstanding(Decrements(m)) \in Nat /\ Outstanding(Decrements(m))' \in Nat
             /\ Outstanding(Writes(m)) \in Nat /\ Outstanding(Writes(m))' \in Nat
  <2>1. PICK S : S = Decrements(m)
    OBVIOUS
  <2>2. PICK T : T = Writes(m)
    OBVIOUS
  <2>3. Outstanding(Decrements(m))' = Outstanding(S)' /\ Outstanding(Writes(m))' = Outstanding(T)'
    BY <2>1, <2>2 DEF Decrements, Writes
  <2>4. (i \in S <=> i.op = "decrement" /\ i.tag = m) /\ (i \in T <=> i.op = "write" /\ i.tag = m)
    BY <1>3, <2>1, <2>2 DEF Decrements, Writes
  <2>5. /\ Outstanding(S) = Outstanding(S)' + (IF i \in S THEN 1 ELSE 0) /\ Outstanding(S) \in Nat /\ Outstanding(S)' \in Nat
        /\ Outstanding(T) = Outstanding(T)' + (IF i \in T THEN 1 ELSE 0) /\ Outstanding(T) \in Nat /\ Outstanding(T)' \in Nat
    BY <1>6
  <2> QED
    BY <2>1, <2>2, <2>3, <2>4, <2>5
<1>8. ASSUME NEW m \in Tags
      PROVE  /\ packet[m].implicitDependenciesCount \in Int
             /\ packet'[m].implicitDependenciesCount =
                  packet[m].implicitDependenciesCount - IF i.op = "decrement" /\ i.tag = m THEN 1 ELSE 0
             /\ packet'[m].ended <=> (packet[m].ended \/ (i.op = "write" /\ i.tag = m))
             /\ packet[m].ended \in BOOLEAN
  <2>1. packet \in [Tags -> [ended : BOOLEAN, implicitDependenciesCount : Int]]
    BY <1>0 DEF TypeOK
  <2>2. CASE i.op = "wait"
    BY <1>4, <2>1, <2>2
  <2>3. CASE i.op = "decrement"
    BY <1>3, <1>4, <2>1, <2>3
  <2>4. CASE i.op = "write"
    <3>1. packet' = [packet EXCEPT ![i.tag].ended = TRUE]
      BY <1>4, <2>4
    <3>2. /\ packet'[m].implicitDependenciesCount = packet[m].implicitDependenciesCount
          /\ packet[m].implicitDependenciesCount \in Int /\ packet[m].ended \in BOOLEAN
      BY <1>3, <2>1, <3>1
    <3>3. CASE m = i.tag
      <4>1. packet'[m].ended = TRUE
        BY <2>1, <3>1, <3>3
      <4> QED
        BY <2>4, <3>2, <3>3, <4>1
    <3>4. CASE m # i.tag
      <4>1. packet'[m].ended = packet[m].ended
        BY <1>3, <2>1, <3>1, <3>4
      <4> QED
        BY <2>4, <3>2, <3>4, <4>1
    <3> QED
      BY <3>3, <3>4
  <2> QED
    BY <1>3, <2>2, <2>3, <2>4
<1>9. CountInv'
  <2> SUFFICES ASSUME NEW m \in Tags
               PROVE  /\ Outstanding(Decrements(m))' <= packet'[m].implicitDependenciesCount
                      /\ Outstanding(Writes(m))' <= IF packet'[m].ended THEN 0 ELSE 1
    BY DEF CountInv, Decrements, Writes
  <2>1. /\ Outstanding(Decrements(m)) <= packet[m].implicitDependenciesCount
        /\ Outstanding(Writes(m)) <= IF packet[m].ended THEN 0 ELSE 1
    BY DEF FlightInv, CountInv
  <2>2. Outstanding(Decrements(m))' <= packet'[m].implicitDependenciesCount
    BY <1>7, <1>8, <2>1
  <2>3. Outstanding(Writes(m))' <= IF packet'[m].ended THEN 0 ELSE 1
    BY <1>7, <1>8, <2>1
  <2> QED
    BY <2>2, <2>3
<1>10. BusyInv'
  <2> SUFFICES ASSUME NEW j \in InFlight' PROVE tagOf[j.tag] = j.for /\ Busy(j.tag)'
    BY <1>4 DEF BusyInv
  <2>1. j \in InFlight
    <3>1. CASE \E x \in Csrs : \E k \in 1..Len(stream'[x]) : j = stream'[x][k]
      <4>1. PICK x \in Csrs : \E k \in 1..Len(stream'[x]) : j = stream'[x][k]
        BY <3>1
      <4>2. CASE x # r
        BY <1>0, <1>4, <4>1, <4>2, InFlightIs
      <4>3. CASE x = r
        <5>1. PICK k \in 1..Len(Tail(stream[r])) : j = Tail(stream[r])[k]
          BY <1>4, <4>1, <4>3
        <5>2. k + 1 \in 1..Len(stream[r]) /\ Tail(stream[r])[k] = stream[r][k + 1]
          <6>1. Len(Tail(stream[r])) = Len(stream[r]) - 1 /\ Len(stream[r]) \in Nat
            BY <1>0, HeadTailProperties, LenProperties
          <6> QED
            BY <1>0, <6>1, HeadTailProperties
        <5> QED
          BY <1>0, <5>1, <5>2, InFlightIs
      <4> QED
        BY <4>2, <4>3
    <3>2. CASE \E c \in Commands : \E k \in 1..Len(written'[c]) : j = written'[c][k]
      BY <1>0, <1>5, <3>2, InFlightIs
    <3> QED
      BY <1>0, <3>1, <3>2, InFlightNext
  <2>2. tagOf[j.tag] = j.for /\ Busy(j.tag)
    BY <2>1 DEF FlightInv, BusyInv
  <2> QED
    BY <1>4, <2>2 DEF Busy
<1>11. FreshInv'
  <2> SUFFICES ASSUME NEW u \in Threads, thread[u].pc = "dispatch" PROVE \E m \in Tags : Fresh(u, m)'
    BY <1>4 DEF FreshInv
  <2>1. PICK m \in Tags : Fresh(u, m)
    BY DEF FlightInv, FreshInv
  <2>2. Outstanding(Writes(m)) = 0 /\ ~packet[m].ended
    BY <2>1 DEF Fresh
  <2>3. Outstanding(Writes(m))' = 0 /\ ~(i.op = "write" /\ i.tag = m)
    BY <1>7, <2>2
  <2>4. ~packet'[m].ended
    BY <1>8, <2>2, <2>3
  <2>5. Fresh(u, m)'
    BY <1>4, <2>1, <2>3, <2>4 DEF Fresh
  <2> QED
    BY <2>5
<1> QED
  BY <1>9, <1>10, <1>11 DEF FlightInv

-----------------------------------------------------------------------------
(* No tag is reused in flight *)

\* Every step of a thread or of the GPU keeps the invariant of what is in flight.
LEMMA FlightStep ==
  ASSUME AccountInv, FlightInv, [Next]_vars
  PROVE  FlightInv'
<1>0. ControlInv /\ StreamInv /\ ByInv /\ RefInv /\ PlaceInv
  BY DEF AccountInv, StreamInv
<1>1. ControlInv'
  BY <1>0, ControlStep
<1>2. ASSUME NEW t \in Threads, Allocator(t) PROVE FlightInv'
  <2>1. CASE GetTag(t) \/ SpliceReady(t) \/ RemoveFree(t) \/ populateFreeTags(t)
    BY <1>0, <1>1, <2>1, QuietFlight
  <2>2. CASE returnTag(t)
    BY <1>0, <1>1, <2>2, ReturnTagFlight
  <2>3. CASE returnTagToFreePool(t)
    BY <1>0, <1>1, <2>3, ReturnToFreeFlight
  <2>4. CASE returnTagToDeferredPool(t)
    BY <1>0, <1>1, <2>4, ReturnToDeferredFlight
  <2>5. CASE DetachDeferred(t)
    BY <1>0, <1>1, <2>5, DetachFlight
  <2>6. CASE SortDeferred(t)
    BY <1>0, <1>1, <2>6, SortFlight
  <2>7. CASE SplicePending(t)
    BY <1>0, <1>1, <2>7, SplicePendingFlight
  <2>8. CASE UseTag(t)
    BY <1>0, <1>1, <2>8, UseTagFlight
  <2> QED
    BY <1>2, <2>1, <2>2, <2>3, <2>4, <2>5, <2>6, <2>7, <2>8 DEF Allocator
<1>3. ASSUME NEW t \in Threads, Enqueue(t) PROVE FlightInv'
  <2>1. CASE ResolveDependency(t) \/ DependenciesResolved(t) \/ Submitted(t) \/ DropEvent(t)
    BY <1>0, <1>1, <2>1, QuietFlight
  <2>2. CASE Dispatch(t)
    BY <1>0, <1>1, <2>2, DispatchFlight
  <2>3. CASE EnqueueNonBlocked(t)
    BY <1>0, <1>1, <2>3, NonBlockedFlight
  <2>4. CASE EnqueueBlocked(t)
    BY <1>0, <1>1, <2>4, BlockedFlight
  <2> QED
    BY <1>3, <2>1, <2>2, <2>3, <2>4 DEF Enqueue
<1>4. ASSUME NEW t \in Threads, Begin(t) PROVE FlightInv'
  <2>1. ASSUME NEW c \in Commands, EnqueueKernel(t, c) PROVE FlightInv'
    BY <1>0, <1>1, <2>1, KernelFlight
  <2>2. ASSUME NEW c \in Commands, EnqueueMarker(t, c) \/ EnqueueBlockedMarker(t, c) PROVE FlightInv'
    BY <1>0, <1>1, <2>2, MarkerFlight
  <2>3. ASSUME NEW c \in Commands, Submit(t, c) PROVE FlightInv'
    BY <1>0, <1>1, <2>3, SubmitFlight
  <2>4. ASSUME NEW c \in Commands, Abort(t, c) PROVE FlightInv'
    BY <1>0, <1>1, <2>4, AbortFlight
  <2>5. ASSUME NEW c \in Commands, ReleaseEvent(t, c) PROVE FlightInv'
    BY <1>0, <1>1, <2>5, QuietFlight
  <2>6. ASSUME NEW q \in Queues, ReleaseQueue(t, q) PROVE FlightInv'
    BY <1>0, <1>1, <2>6, ReleaseQueueFlight
  <2>7. ASSUME NEW c \in Commands, SubmitMarker(t, c) PROVE FlightInv'
    BY <1>0, <1>1, <2>7, SubmitMarkerFlight
  <2> QED
    BY <1>4, <2>1, <2>2, <2>3, <2>4, <2>5, <2>6, <2>7 DEF Begin
<1>5. ASSUME NEW r \in Csrs, Gpu(r) PROVE FlightInv'
  BY <1>0, <1>1, <1>5, GpuFlight
<1>6. CASE UNCHANGED vars
  <2>1. UNCHANGED <<usedTags, deferredTags, packet, tagOf, nodes, stream, dispatched, status, thread>>
    BY <1>6 DEF vars, tagVars, cmdVars
  <2>2. UNCHANGED <<written, InFlight>>
    BY <2>1 DEF written, InFlight
  <2>3. CountInv' = CountInv
    BY <2>1, <2>2 DEF CountInv, Outstanding, Decrements, Writes
  <2>4. BusyInv' = BusyInv
    BY <2>1, <2>2 DEF BusyInv, Busy
  <2>5. FreshInv' = FreshInv
    BY <2>1, <2>2 DEF FreshInv, Fresh, Outstanding, Writes
  <2> QED
    BY <2>3, <2>4, <2>5 DEF FlightInv
<1> QED
  BY <1>2, <1>3, <1>4, <1>5, <1>6 DEF Next, Step, GpuPoll, Done

\* Nothing is in flight before the first call.
LEMMA InitFlight ==
  ASSUME Init PROVE FlightInv
<1>1. TypeOK
  BY InitControl DEF ControlInv
<1>2. \A i : i \notin InFlight
  <2>1. /\ \A r \in Csrs : Len(stream[r]) = 0
        /\ \A c \in Commands : Len(written[c]) = 0
    BY DEF Init, written
  <2> QED
    BY <1>1, <2>1, InFlightIs
<1>3. \A S : Outstanding(S) = 0
  BY <1>1, <1>2, OutType
<1>4. \A n \in Tags : packet[n].implicitDependenciesCount = 0
  BY DEF Init
<1>5. CountInv
  BY <1>3, <1>4 DEF CountInv
<1>6. BusyInv
  BY <1>2 DEF BusyInv
<1>7. FreshInv
  BY DEF FreshInv, Init, Idle
<1> QED
  BY <1>5, <1>6, <1>7 DEF FlightInv

\* Whatever the threads and the GPU do, and for all sizes of the pools, queues and
\* receivers, no tag is taken for another command while the GPU has still to use it.
THEOREM NoTagEverReusedInFlight == Spec => []NoTagReusedInFlight
<1>1. Init => AccountInv /\ FlightInv
  BY InitControl, InitRefs, InitPlaces, InitFlight DEF AccountInv
<1>2. AccountInv /\ FlightInv /\ [Next]_vars => AccountInv' /\ FlightInv'
  BY AccountStep, FlightStep
<1>3. AccountInv /\ FlightInv => NoTagReusedInFlight
  <2> SUFFICES ASSUME AccountInv, FlightInv, NEW i \in InFlight
               PROVE  tagOf[i.tag] = i.for /\ \A r \in Csrs : i.tag \notin Range(freeTags[r])
    BY DEF NoTagReusedInFlight
  <2>1. tagOf[i.tag] = i.for /\ Busy(i.tag) /\ PlaceInv
    BY DEF FlightInv, BusyInv, AccountInv
  <2> QED
    BY <2>1, NotBusy
<1> QED
  BY <1>1, <1>2, <1>3, PTL DEF Spec
=============================================================================
