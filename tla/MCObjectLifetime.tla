-------------------------- MODULE MCObjectLifetime --------------------------
(* Instances of ObjectLifetime: a device, a context, a queue, a program and *)
(* its kernel, a buffer and its sub-buffer, a user event, and two commands. *)
EXTENDS ObjectLifetime, TLC

CONSTANTS t1, t2, dev, ctx, q1, p1, k, b, sb, u, e1, e2

MCObjects == {dev, ctx, q1, p1, k, b, sb, u, e1, e2}
MCHolds ==
  (dev :> <<>>) @@ (ctx :> <<dev>>) @@ (q1 :> <<ctx>>) @@ (p1 :> <<ctx>>) @@ (k :> <<p1>>)
    @@ (b :> <<ctx>>) @@ (sb :> <<b, ctx>>) @@ (u :> <<ctx>>) @@ (e1 :> <<q1, ctx>>) @@ (e2 :> <<q1, ctx>>)
MCQueueOf == (e1 :> q1) @@ (e2 :> q1)
MCPayload == (e1 :> k) @@ (e2 :> sb)
MCWaitOn == (e1 :> u) @@ (e2 :> None)
OneEach == [o \in MCObjects |-> IF o \in {sb, e1, e2} THEN 0 ELSE 1]

C(o, x) == [op |-> o, on |-> x]
All(o, set) == {C(o, x) : x \in set}
Scenario(s1, s2) == (t1 :> s1) @@ (t2 :> s2)

MCScenarios ==
  { \* Everything is released in any order while the commands are let go.
    Scenario(<<{C("enqueue", e1), C("create", sb)}, {C("enqueue", e2)}, All("release", {k, sb, q1}),
               All("release", {e1, ctx, b, p1})>>,
             <<{C("setUserEventStatus", u)}, {C("release", u)}>>),
    \* One thread finishes the queue and lets the command go while the other one
    \* enqueues it and adds a callback to its event.
    Scenario(<<{C("enqueue", e1)}, {C("addCallback", e1)}, {C("release", e1)}, {C("finish", q1)},
               {C("release", q1)}, All("release", {k, p1})>>,
             <<{C("setUserEventStatus", u)}, {C("finish", q1)}, All("release", {u, b}), {C("release", ctx)}>>),
    \* The user event is terminated, or released without being set.
    Scenario(<<{C("enqueue", e1)}, {C("addCallback", e1), C("addCallback", u)}, {C("terminateUserEvent", u)},
               All("release", {u, q1, k}), All("release", {b, p1, ctx})>>,
             <<{C("getEventInfo", e1)}, {C("finish", q1)}, {C("release", e1)}>>),
    Scenario(<<{C("enqueue", e1), C("retain", u)}, {C("release", u)}, All("release", {q1, k}),
               All("release", {b, p1, ctx})>>,
             <<{C("release", u), C("getEventInfo", e1)}, {C("release", e1)}>>) }
=============================================================================
