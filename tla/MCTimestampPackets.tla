------------------------- MODULE MCTimestampPackets -------------------------
(* Instances of TimestampPackets: two receivers with two queues on the first *)
(* one, and pools of one tag.                                               *)
EXTENDS TimestampPackets, TLC

CONSTANTS t1, t2, t3, r1, r2, q1, q2, q3, a, b, c1, m, d, e, f, g, m2, x1, x2, x3, x4, y1, y2

MCCsrOf == (q1 :> r1) @@ (q2 :> r2) @@ (q3 :> r1)
MCQueueOf == (a :> q1) @@ (b :> q2) @@ (c1 :> q1) @@ (m :> q2) @@ (d :> q3) @@ (e :> q3)
  @@ (f :> q2) @@ (g :> q3) @@ (m2 :> q3)
\* b waits on the other receiver for a, and c1 on the first one for b.  The marker m
\* inherits the tags of a and b; d, behind a user event, waits for the marker.
\* The marker m2 is blocked by g in its queue; f waits on the other receiver for m2.
MCWaitList == (a :> {}) @@ (b :> {a}) @@ (c1 :> {b}) @@ (m :> {a}) @@ (d :> {m}) @@ (e :> {})
  @@ (f :> {m2}) @@ (g :> {}) @@ (m2 :> {a})
MCTagMemory == (r1 :> <<x1, x2, x3, x4>>) @@ (r2 :> <<y1, y2>>)

Scenario(s1, s2, s3) == (t1 :> s1) @@ (t2 :> s2) @@ (t3 :> s3)
Enq(k) == <<"enqueue", k>>
Rel(k) == <<"release", k>>
RelQ(k) == <<"releaseQueue", k>>
Go(k) == <<"submit", k>>
End(k) == <<"abort", k>>

MCScenarios ==
  { \* Three kernels of two receivers wait for each other while tags are returned.
    Scenario(<<Enq(a), Enq(c1), RelQ(q1)>>, <<Enq(b), Enq(e), RelQ(q2)>>, <<Rel(a), Rel(b), Rel(c1)>>),
    \* A blocked kernel keeps the tags that the marker has inherited.
    Scenario(<<Enq(a), Enq(d), Go(d), RelQ(q3), RelQ(q1)>>, <<Enq(b), Enq(m), RelQ(q2)>>,
             <<Rel(a), Rel(m), Rel(b)>>),
    \* A blocked kernel is terminated, and its out-of-order queue used again.
    Scenario(<<Enq(a), RelQ(q1)>>, <<Enq(m), Enq(d), End(d), Enq(e), RelQ(q3)>>, <<Rel(a), Rel(m)>>),
    \* A blocked marker is submitted after the kernel in front of it.
    Scenario(<<Enq(a), Enq(g), Enq(m2), Go(g), Go(m2), Enq(f), RelQ(q3)>>, <<Enq(b), RelQ(q2), RelQ(q1)>>,
             <<Rel(a), Rel(m2), Rel(b)>>),
    \* A blocked marker is terminated with the kernel in front of it.
    Scenario(<<Enq(a), RelQ(q1)>>, <<Enq(g), Enq(m2), End(g), End(m2), Enq(e), RelQ(q3)>>, <<Rel(a), Rel(m2)>>) }
=============================================================================
