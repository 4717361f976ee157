---------------------------- MODULE MCEventTree ----------------------------
(* Instances of EventTree.  A scenario gives each thread the calls that it  *)
(* makes; a .cfg picks the set of scenarios.                                *)
EXTENDS EventTree

CONSTANTS t1, t2, t3, u1, u2, c1, c2, c3, c4, q1, q2, b1, b2

Do(o, x) == [op |-> o, on |-> x, st |-> CL_QUEUED]
Set(u, s) == [op |-> "setUserEventStatus", on |-> u, st |-> s]
Scenario(s1, s2, s3) == (t1 :> s1) @@ (t2 :> s2) @@ (t3 :> s3)

MCThreads == {t1, t2, t3}
MCUserEvents == {u1, u2}
MCCommands == {c1, c2, c3, c4}
MCQueueOf == [[c \in MCCommands |-> q1] EXCEPT ![c3] = q2]
MCEventOf == (b1 :> u1) @@ (b2 :> c1)
MCTypeOf == (b1 :> CL_COMPLETE) @@ (b2 :> CL_SUBMITTED)

\* c1 waits for u1, c2 for u2 and c1, and, through the queue's virtual event, for
\* what precedes it; c3, of another queue, waits for c1; c4 is only ordered
\* after the others, if at all.
MCWaitList == (c1 :> <<u1>>) @@ (c2 :> <<u2, c1, u2>>) @@ (c3 :> <<c1>>) @@ (c4 :> <<>>)

MCScenarios ==
  { \* A tree of commands, finished while its user events are set.
    Scenario(<<Do("enqueue", c1), Do("enqueue", c2), Do("finish", q1)>>,
             <<Set(u1, CL_COMPLETE), Do("enqueue", c4)>>,
             <<Set(u2, CL_COMPLETE), Set(u2, Terminated)>>),
    \* The event of c1 is waited for, or polled, and watched by a callback while
    \* u1 is set.
    Scenario(<<Do("enqueue", c1), Do("addCallback", b2)>>,
             <<Do("addCallback", b1), Set(u1, CL_COMPLETE)>>,
             <<Do("waitForEvents", <<c1, u1>>)>>),
    Scenario(<<Do("enqueue", c1), Do("addCallback", b2)>>,
             <<Do("addCallback", b1), Set(u1, CL_COMPLETE)>>,
             <<Do("getEventInfo", c1)>>),
    \* The marker c3 inherits the task count of c1; its event is polled before
    \* it is waited for.
    Scenario(<<Do("enqueue", c1)>>,
             <<Set(u1, CL_COMPLETE)>>,
             <<Do("enqueue", c3), Do("getEventInfo", c3), Do("waitForEvents", <<c3>>)>>),
    \* u1 is terminated after the commands that wait on it were enqueued, and c1 is
    \* waited for afterwards; u2 is never set.
    Scenario(<<Do("enqueue", c1), Do("enqueue", c2), Set(u1, Terminated),
               Do("waitForEvents", <<c1>>), Do("enqueue", c4), Do("finish", q1)>>,
             <<Do("addCallback", b2)>>,
             <<Do("addCallback", b1), Do("getEventInfo", c1)>>) }

\* One thread finishes the queue while another one enqueues a blocked command.
FinishScenarios ==
  { Scenario(<<Do("finish", q1)>>, <<Do("enqueue", c1), Set(u1, CL_COMPLETE)>>, <<>>) }

\* One thread waits for a command while another one terminates what it waits on.
WaitScenarios ==
  { Scenario(<<Do("enqueue", c1), Set(u1, Terminated)>>, <<Do("waitForEvents", <<c1>>)>>, <<>>) }

\* A command is enqueued on a user event that has been terminated.
AbortScenarios ==
  { Scenario(<<Set(u1, Terminated), Do("enqueue", c1)>>, <<>>, <<>>) }
=============================================================================
