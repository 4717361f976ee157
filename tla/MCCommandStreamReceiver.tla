---------------------- MODULE MCCommandStreamReceiver ----------------------
(* Instances of CommandStreamReceiver: the calls its threads make.          *)
EXTENDS CommandStreamReceiver

CONSTANTS t1, t2, buf, a1, a2, a3, a4, a5, a6, a7, a8, a9, a10, a11, a12, a13, a14, a15
MCAllocations == {buf, a1, a2, a3, a4, a5, a6, a7, a8, a9, a10, a11, a12, a13, a14, a15}

Base == [uses |-> {}, memory |-> "none", full |-> "none", csrWork |-> FALSE, compat |-> TRUE,
         outOfOrder |-> FALSE, implicitFlush |-> FALSE, blocking |-> FALSE]

\* A blocking read into a host pointer, a kernel on a buffer whose heap is full,
\* fills of a buffer and of shared virtual memory, and a kernel that programs
\* state and fills the receiver's command stream
Read == [Base EXCEPT !.memory = "hostPtr", !.blocking = TRUE, !.uses = {buf}]
Kernel == [Base EXCEPT !.full = "heap", !.uses = {buf}, !.outOfOrder = TRUE]
Fill == [Base EXCEPT !.memory = "fillBuffer", !.uses = {buf}]
SvmFill == [Base EXCEPT !.memory = "svmMemFill", !.full = "queue", !.outOfOrder = TRUE]
State == [Base EXCEPT !.csrWork = TRUE, !.full = "csr", !.compat = FALSE, !.outOfOrder = TRUE]
Budgeted == [Kernel EXCEPT !.implicitFlush = TRUE]

Enqueue(d) == [op |-> "enqueue", on |-> d]
Do(o) == [op |-> o, on |-> None]
Release == [op |-> "release", on |-> buf]
Scenario(s1, s2) == (t1 :> s1) @@ (t2 :> s2)

MCScenarios ==
  { \* a wait cleans the temporary list while a host pointer surface is in it
    Scenario(<<Enqueue(Kernel), Enqueue(Fill), Do("finish"), Release>>, <<Enqueue(Read), Do("finish")>>),
    \* patterns, heaps and command streams are used again
    Scenario(<<Enqueue(SvmFill), Do("flush"), Enqueue(SvmFill)>>,
             <<Enqueue(Kernel), Do("finish"), Enqueue(Kernel), Release>>),
    \* batches that are not compatible or exceed the budget
    Scenario(<<Enqueue(State), Enqueue(Kernel), Do("finish")>>,
             <<Enqueue(State), Enqueue(Budgeted), Release>>) }

\* Neither bound is reached: task counts stay below eventNotReady, and there is
\* memory for the streams, and for a replaced stream and a surface per enqueue.
EnqueuesOf(s) ==
  UNION {{<<t, i>> : i \in {j \in DOMAIN s[t] : s[t][j].op = "enqueue"}} : t \in Threads}
ASSUME BoundsAreLarge ==
  \A s \in Scenarios :
    /\ eventNotReady > Cardinality(EnqueuesOf(s)) + 1
    /\ Cardinality(Allocations \ Buffers) >=
         Cardinality(Streams) + 2 * Cardinality(EnqueuesOf(s))

\* Two kernels without coherency, and one with it
CompatScenarios ==
  { Scenario(<<Enqueue(Base), Enqueue(Base), Enqueue([Base EXCEPT !.compat = FALSE]),
               Do("flush")>>, <<Release>>) }
=============================================================================
