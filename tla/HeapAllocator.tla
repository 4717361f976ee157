---------------------------- MODULE HeapAllocator ----------------------------
(***************************************************************************)
(* The allocator of GPU address ranges                                     *)
(* (src/runtime/utilities/heap_allocator.h), on which the 32-bit, internal *)
(* and limited range allocators of the memory managers are built.          *)
(*                                                                         *)
(* Big requests are carved from the left end of the space, small ones from *)
(* its right end, and what is freed on a side is kept in that side's list, *)
(* from which later requests of the side are served by best fit.  Every    *)
(* call holds the allocator's mutex from its first read to its last write, *)
(* so a call is one step; the threads that call it only differ in the      *)
(* ranges they hold, which is the set allocations.                         *)
(*                                                                         *)
(* Addresses are 64-bit and unsigned in the code: sums and differences are *)
(* taken modulo AddressSpace.                                              *)
(***************************************************************************)
EXTENDS Integers, Sequences, FiniteSets, SequencesExt

CONSTANTS Base,                 \* address given to the constructor
          Size,                 \* size given to the constructor
          sizeThreshold,        \* a bigger request is served from the left
          allocationAlignment,  \* MemoryConstants::pageSize
          AddressSpace,         \* 2^64
          Requests              \* the sizes callers ask for

ASSUME HeapAssumption ==
    /\ {Base, Size, sizeThreshold, allocationAlignment} \subseteq Nat \ {0}
    /\ AddressSpace \in Nat /\ Base + 2 * Size < AddressSpace
    /\ Base % allocationAlignment = 0 /\ Size % allocationAlignment = 0
    /\ Requests \subseteq Nat \ {0}

VARIABLES heap,        \* the members of HeapAllocator
          allocations  \* the ranges callers hold, with the size they got back

vars == <<heap, allocations>>

alignUp(size) ==
    ((size + allocationAlignment - 1) \div allocationAlignment) * allocationAlignment

Plus(a, b) == (a + b) % AddressSpace
Minus(a, b) == (a - b) % AddressSpace

End(chunk) == Plus(chunk.ptr, chunk.size)

isBig(size) == size > sizeThreshold

Init ==
    /\ heap = [pLeftBound |-> Base, pRightBound |-> Base + Size, availableSize |-> Size,
               freedChunksSmall |-> <<>>, freedChunksBig |-> <<>>]
    /\ allocations = {}

-----------------------------------------------------------------------------
(* Taking a range out of a list of freed chunks *)

\* The chunk the search settles on: the first of the exact size, else the
\* first of the smallest that are too big; 0 when there is none.
BestFit(size, chunks) ==
    LET Fit == {i \in DOMAIN chunks : chunks[i].size >= size}
        Better(i, j) == \/ chunks[i].size < chunks[j].size
                        \/ chunks[i].size = chunks[j].size /\ i < j
    IN  IF Fit = {} THEN 0
        ELSE CHOOSE i \in Fit : \A j \in Fit \ {i} : Better(i, j)

\* A plausible slip: the lower end is handed out, but the chunk keeps it.
getFromFreedChunks_LowerEnd(size, chunks) ==
    LET i == BestFit(size, chunks)
    IN  IF i # 0 /\ chunks[i].size >= 2 * size
        THEN [ptr |-> chunks[i].ptr, size |-> size,
              chunks |-> [chunks EXCEPT ![i].size = @ - size]]
        ELSE [ptr |-> IF i = 0 THEN 0 ELSE chunks[i].ptr,
              size |-> IF i = 0 THEN size ELSE chunks[i].size,
              chunks |-> IF i = 0 THEN chunks ELSE RemoveAt(chunks, i)]

\* A chunk of less than twice the size is given away whole (the caller's size
\* grows to the chunk's); of a larger one the upper end is cut off.
getFromFreedChunks(size, chunks) ==
    LET i == BestFit(size, chunks)
        delta == chunks[i].size - size
    IN  CASE i = 0 ->
               [ptr |-> 0, size |-> size, chunks |-> chunks]
          [] i # 0 /\ chunks[i].size < 2 * size ->
               [ptr |-> chunks[i].ptr, size |-> chunks[i].size,
                chunks |-> RemoveAt(chunks, i)]
          [] OTHER ->
               [ptr |-> Plus(chunks[i].ptr, delta), size |-> size,
                chunks |-> [chunks EXCEPT ![i].size = delta]]

-----------------------------------------------------------------------------
(* Giving a range back *)

\* A chunk that touches the range on either side takes it in; only one does,
\* the first of the list, even when the range closes a hole between two.
storeInFreedChunks(range, chunks) ==
    LET Touching == {i \in DOMAIN chunks : \/ chunks[i].ptr = End(range)
                                           \/ End(chunks[i]) = range.ptr}
        i == CHOOSE j \in Touching : \A k \in Touching : j <= k
    IN  IF Touching = {} THEN Append(chunks, range)
        ELSE [chunks EXCEPT ![i] =
                [ptr |-> IF @.ptr = End(range) THEN range.ptr ELSE @.ptr,
                 size |-> @.size + range.size]]

\* When the chunk stored last touches the unused middle it joins it.
mergeLastFreedSmall(h) ==
    IF h.freedChunksSmall # <<>> /\ Last(h.freedChunksSmall).ptr = h.pRightBound
    THEN [h EXCEPT !.pRightBound = End(Last(h.freedChunksSmall)),
                   !.freedChunksSmall = Front(@)]
    ELSE h

mergeLastFreedBig(h) ==
    IF h.freedChunksBig # <<>> /\ End(Last(h.freedChunksBig)) = h.pLeftBound
    THEN [h EXCEPT !.pLeftBound = Last(h.freedChunksBig).ptr,
                   !.freedChunksBig = Front(@)]
    ELSE h

\* The loop over a sorted list, from the last chunk to the first: one that touches
\* the one before it is added to that one and erased.
JoinTouching(chunks) ==
    LET Touch(a, b) == End(a) = b.ptr \/ End(b) = a.ptr
        Join(a, b) == [ptr |-> IF a.ptr < b.ptr THEN a.ptr ELSE b.ptr,
                       size |-> a.size + b.size]
        Step(c, done) == IF done # <<>> /\ Touch(c, Head(done))
                         THEN <<Join(c, Head(done))>> \o Tail(done)
                         ELSE <<c>> \o done
    IN  FoldRight(Step, chunks, <<>>)

\* What the loop leaves of the chunks, whatever their number (LoopJoinsRuns of
\* MCHeapAllocator): those that touch become one, which begins where no other ends
\* and ends where no other begins.
Joined(S) ==
    LET Begins == {c.ptr : c \in S} \ {End(c) : c \in S}
        Ends == {End(c) : c \in S} \ {c.ptr : c \in S}
    IN  {[ptr |-> b, size |-> Min({e \in Ends : e > b}) - b] : b \in Begins}

\* std::sort by the address, which no two chunks share
Ascending(S) ==
    [i \in 1..Cardinality(S) |->
       CHOOSE c \in S : Cardinality({d \in S : d.ptr < c.ptr}) = i - 1]
Descending(S) == Reverse(Ascending(S))

\* A plausible slip: both lists are sorted the same way.
defragment_SameOrder(h) ==
    mergeLastFreedBig(mergeLastFreedSmall(
        [h EXCEPT !.freedChunksSmall = Ascending(Joined(ToSet(@))),
                  !.freedChunksBig = Ascending(Joined(ToSet(@)))]))

\* Small chunks are sorted downwards and big ones upwards, so that in both
\* lists the chunk next to the unused middle comes last.
defragment(h) ==
    mergeLastFreedBig(mergeLastFreedSmall(
        [h EXCEPT !.freedChunksSmall = Descending(Joined(ToSet(@))),
                  !.freedChunksBig = Ascending(Joined(ToSet(@)))]))

-----------------------------------------------------------------------------
(* The calls *)

\* One turn of the loop of allocate: the list of the side, then the middle.
\* The address 0 stands for failure.
Attempt(size, h) ==
    LET list == IF isBig(size) THEN h.freedChunksBig ELSE h.freedChunksSmall
        got == getFromFreedChunks(size, list)
    IN  IF got.ptr # 0
        THEN [ptr |-> got.ptr, size |-> got.size,
              heap |-> IF isBig(size) THEN [h EXCEPT !.freedChunksBig = got.chunks]
                                      ELSE [h EXCEPT !.freedChunksSmall = got.chunks]]
        ELSE CASE isBig(size) /\ Plus(h.pLeftBound, size) <= h.pRightBound ->
                    [ptr |-> h.pLeftBound, size |-> size,
                     heap |-> [h EXCEPT !.pLeftBound = Plus(@, size)]]
               [] ~isBig(size) /\ Minus(h.pRightBound, size) >= h.pLeftBound ->
                    [ptr |-> Minus(h.pRightBound, size), size |-> size,
                     heap |-> [h EXCEPT !.pRightBound = Minus(@, size)]]
               [] OTHER -> [ptr |-> 0, size |-> size, heap |-> h]

\* What allocate returns for a request, and the members it leaves behind: a
\* second attempt follows a failed one, after the lists are put in order.
allocate(request, h) ==
    LET size == alignUp(request)
        first == Attempt(size, h)
        last == IF first.ptr # 0 THEN first ELSE Attempt(size, defragment(first.heap))
    IN  CASE h.availableSize < size -> [ptr |-> 0, size |-> size, heap |-> h]
          [] h.availableSize >= size /\ last.ptr = 0 -> last
          [] OTHER -> [last EXCEPT !.heap.availableSize = @ - last.size]

Allocate(request) ==
    LET result == allocate(request, heap)
    IN  /\ heap' = result.heap
        /\ allocations' = IF result.ptr = 0 THEN allocations
                          ELSE allocations \cup {[ptr |-> result.ptr, size |-> result.size]}

\* A range that borders the unused middle joins it, with the last freed
\* chunk if that borders it now; any other goes to the list of its side.
free(range, h) ==
    CASE range.ptr = h.pRightBound ->
           mergeLastFreedSmall([h EXCEPT !.pRightBound = End(range)])
      [] range.ptr # h.pRightBound /\ range.ptr = Minus(h.pLeftBound, range.size) ->
           mergeLastFreedBig([h EXCEPT !.pLeftBound = range.ptr])
      [] range.ptr # h.pRightBound /\ range.ptr # Minus(h.pLeftBound, range.size)
                                   /\ range.ptr < h.pLeftBound ->
           [h EXCEPT !.freedChunksBig = storeInFreedChunks(range, @)]
      [] OTHER ->
           [h EXCEPT !.freedChunksSmall = storeInFreedChunks(range, @)]

Free(range) ==
    /\ heap' = [free(range, heap) EXCEPT !.availableSize = @ + range.size]
    /\ allocations' = allocations \ {range}

Next ==
    \/ \E request \in Requests : Allocate(request)
    \/ \E range \in allocations : Free(range)

Spec == Init /\ [][Next]_vars

-----------------------------------------------------------------------------
(* Correctness *)

Middle == [ptr |-> heap.pLeftBound, size |-> heap.pRightBound - heap.pLeftBound]
Cells(range) == range.ptr .. range.ptr + range.size - 1

\* No address is held by two callers, held and free, or lost: the ranges held,
\* the freed chunks and the unused middle tile the space exactly, what lies on
\* the left was freed or taken as a big range (the assertions of free and of
\* getFromFreedChunks), and availableSize is the amount that is free.
EveryAddressOnce ==
    LET freed == heap.freedChunksSmall \o heap.freedChunksBig
        Parts == allocations \cup ToSet(freed) \cup {Middle}
    IN  /\ UNION {Cells(part) : part \in Parts} = Base .. Base + Size - 1
        /\ \A a, b \in Parts : a # b => Cells(a) \cap Cells(b) = {}
        /\ IsInjective(freed) /\ allocations \cap ToSet(freed) = {}
        /\ \A part \in allocations \cup ToSet(heap.freedChunksBig) :
              part.ptr < heap.pLeftBound => isBig(part.size)
        /\ heap.availableSize
             = Size - Cardinality(UNION {Cells(range) : range \in allocations})

\* A request is refused only if it cannot be met: no run of free addresses of
\* its length exists in the unused middle together with the freed chunks of
\* the request's side.  Whatever order ranges were freed in, putting the lists
\* in order finds every such run.
RefusedOnlyWhenFragmented ==
    \A request \in Requests :
        allocate(request, heap).ptr = 0 =>
            LET size == alignUp(request)
                side == ToSet(IF isBig(size) THEN heap.freedChunksBig ELSE heap.freedChunksSmall)
                usable == UNION {Cells(part) : part \in side \cup {Middle}}
            IN  ~\E a \in usable : a .. a + size - 1 \subseteq usable
=============================================================================
