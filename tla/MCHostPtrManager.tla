--------------------------- MODULE MCHostPtrManager ---------------------------
EXTENDS HostPtrManager, TLC

CONSTANTS t1, t2

HostRange(first, size) == [ptr |-> first, size |-> size]
MCMaxAllocations == (t1 :> 2 @@ t2 :> 1)
MCMaxFinishes == (t1 :> 0 @@ t2 :> 1)

\* A page; two pages, of which it is the first; two that begin with the second
\* of those, and a part of a page; the parts of two pages.
MCRequests == {HostRange(2, 2), HostRange(2, 4), HostRange(4, 5), HostRange(3, 2)}
MCFailing == {HostRange(2, 2)}

\* A range with a part of a page before its whole pages
MCLeadingMiddle == {HostRange(2, 4), HostRange(3, 5)}
NoRequest == {}
===============================================================================
