--------------------------- MODULE MCHeapAllocator ---------------------------
(* A heap of a few pages, for model checking. *)
EXTENDS HeapAllocator

Pages == 6

\* Chunks that do not overlap: each page is unused, begins a chunk or continues one.
ChunksOf(layout) ==
    {[ptr |-> i, size |-> Min({k \in 1 .. Pages + 1 - i :
                                 i + k > Pages \/ layout[i + k] # "more"})]
       : i \in {j \in 1..Pages : layout[j] = "first"}}

\* Whatever chunks a list holds, one pass of the loop of HeapAllocator::defragment over
\* the list as std::sort leaves it, which compares neighbours only, joins every run
\* of chunks that touch and keeps the order: it computes the closed form that
\* the specification and the proofs use.
ASSUME LoopJoinsRuns ==
    \A layout \in [1..Pages -> {"unused", "first", "more"}] :
        LET S == ChunksOf(layout)
            Below(a, b) == a.ptr < b.ptr
            Above(a, b) == b.ptr < a.ptr
        IN  /\ JoinTouching(SortSeq(SetToSeq(S), Above)) = Descending(Joined(S))
            /\ JoinTouching(SortSeq(SetToSeq(S), Below)) = Ascending(Joined(S))
=============================================================================
