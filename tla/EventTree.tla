----------------------------- MODULE EventTree -----------------------------
(***************************************************************************)
(* Events and the commands that wait on them: Event (event.cpp, event.h),  *)
(* UserEvent and VirtualEvent (user_event.cpp), EventBuilder               *)
(* (event_builder.cpp), the blocked and non-blocked paths of               *)
(* CommandQueueHw::enqueueHandler (enqueue_common.h), finish (finish.h)    *)
(* and the submit functions of blocked commands (task_information.cpp).    *)
(*                                                                         *)
(* A command whose wait list is not ready gets an event that keeps the     *)
(* command until its parents have unblocked it.  There is no scheduler:    *)
(* the thread that sets a user event walks the tree of children and        *)
(* submits what becomes free, and so may every thread that polls an event. *)
(* Event fields are atomics without a lock; only the submission itself is  *)
(* under the command stream receiver's recursive mutex.                    *)
(*                                                                         *)
(* Each thread has a stack of frames, one per active function, and a step  *)
(* runs the top frame to its next access of shared state.  A task level is *)
(* abstracted to whether it differs from Event::eventNotReady.             *)
(***************************************************************************)
EXTENDS Integers, Sequences, FiniteSets, SequencesExt

CONSTANTS Threads,        \* application threads
          AsyncHandler,   \* the thread of AsyncEventsHandler
          UserEvents,     \* UserEvent objects
          Commands,       \* enqueued commands; a command names its event too
          Markers,        \* the commands without a kernel (isCommandWithoutKernel)
          OutputEvents,   \* commands whose event the application asked for
          Queues,
          QueueOf,        \* QueueOf[c]: the queue c is enqueued to
          WaitList,       \* WaitList[c]: sequence of the events c waits for
          Callbacks,
          EventOf,        \* EventOf[b]: the event callback b is added to
          TypeOf,         \* TypeOf[b]: the status callback b is added for
          Scenarios,      \* functions from threads to the calls they make
          eventNotReady,  \* Event::eventNotReady, above every task count
          None            \* the null virtualEvent

CL_QUEUED == 3
CL_SUBMITTED == 2
CL_COMPLETE == 0
Terminated == -1          \* the negative status of an aborted event

Events == UserEvents \cup Commands
Actors == Threads \cup {AsyncHandler}

\* The API calls a scenario is made of.
Call == [op : {"enqueue"}, on : Commands, st : {CL_QUEUED}]
          \cup [op : {"setUserEventStatus"}, on : UserEvents,
                st : {CL_COMPLETE, Terminated}]
          \cup [op : {"waitForEvents"}, on : Seq(Events) \ {<<>>}, st : {CL_QUEUED}]
          \cup [op : {"getEventInfo"}, on : Events, st : {CL_QUEUED}]
          \cup [op : {"finish"}, on : Queues, st : {CL_QUEUED}]
          \cup [op : {"addCallback"}, on : Callbacks, st : {CL_QUEUED}]

ASSUME EventsAssumption ==
  /\ IsFiniteSet(Commands) /\ IsFiniteSet(UserEvents)
  /\ UserEvents \cap Commands = {}
  /\ Markers \subseteq Commands /\ OutputEvents \subseteq Commands
  /\ None \notin Events /\ AsyncHandler \notin Threads
  /\ QueueOf \in [Commands -> Queues]
  /\ WaitList \in [Commands -> Seq(Events)]
  /\ EventOf \in [Callbacks -> Events]
  /\ TypeOf \in [Callbacks -> {CL_SUBMITTED, CL_COMPLETE}]
ASSUME NotReadyAssumption ==
  eventNotReady \in Nat /\ eventNotReady > Cardinality(Commands)
ASSUME ScenariosAssumption ==
  \A s \in Scenarios : \A t \in Threads : s[t] \in Seq(Call)

VARIABLES status,         \* Event::executionStatus
          parentCount,    \* Event::parentCount
          children,       \* Event::childEventsToNotify
          ready,          \* Event::taskLevel # eventNotReady
          cmd,            \* where the event's command is, see CmdStates
          taskCount,      \* Event::taskCount
          callbacks,      \* Event::callbacks
          fired,          \* how often each callback was executed
          virtualEvent,   \* CommandQueue::virtualEvent
          queueTaskCount, \* CommandQueue::taskCount
          order,          \* the commands of each queue as they were enqueued
          flushed,        \* the flushTask calls; its length is the task count
          tag,            \* the CSR's tag, written by the GPU
          registered,     \* events the async handler polls
          stack,          \* call stack of each thread, innermost frame first
          todo            \* API calls each thread still makes

eventVars == <<status, parentCount, children, ready, cmd, taskCount>>
callbackVars == <<callbacks, fired>>
queueVars == <<virtualEvent, queueTaskCount, order>>
csrVars == <<flushed, tag>>
vars == <<eventVars, callbackVars, queueVars, csrVars, registered, stack, todo>>

\* unborn: not enqueued yet.  none: eventWithoutCommand.  pending: in
\* cmdToSubmit.  taken: owned by the thread in submitCommand.  submitted: in
\* submittedCmd.
CmdStates == {"unborn", "none", "pending", "taken", "submitted"}

\* A frame: where its function is, the event (or queue) it is about, the
\* status it was given, the readiness it propagates, a task count, and the
\* list it still has to walk.
Frame(at, ev, st, lvl, n, rest) ==
  [at |-> at, ev |-> ev, st |-> st, lvl |-> lvl, n |-> n, rest |-> rest]
Enter(at, e, s) == Frame(at, e, s, FALSE, 0, <<>>)

CsrLabels == {"sc_wait", "sc_done", "enq_parents", "enq_end"}
EnqueueLabels == {"enq_parents", "enq_end"}
Labels == CsrLabels \cup
          {"ss_check", "ss_trans", "ss_cb",              \* setStatus
           "sc_take", "sc_lock", "sc_count",             \* submitCommand
           "ub_level", "ub_loop",                        \* unblockEventsBlockedByThis
           "by_dec", "by_level", "by_update",            \* unblockEventBy
           "up_check", "up_submitted", "up_subcb",       \* updateExecutionStatus
           "up_gpu", "up_compcb", "up_cb",
           "ac_count", "ac_push", "ac_check",            \* addChild
           "wf_loop", "wf_try", "wf_wait", "wf_check",            \* waitForEvents
           "fin_poll", "fin_read", "fin_wait", "fin_end",\* finish
           "cb_check", "cb_reg",                         \* addCallback
           "ah_check"}                                   \* asyncProcess

TypeOK ==
  /\ status \in [Events -> {CL_QUEUED, CL_SUBMITTED, CL_COMPLETE, Terminated}]
  /\ parentCount \in [Events -> Nat]
  /\ children \in [Events -> Seq(Commands)]
  /\ ready \in [Events -> BOOLEAN]
  /\ cmd \in [Events -> CmdStates]
  /\ taskCount \in [Events -> Nat]
  /\ callbacks \in [Events -> SUBSET Callbacks]
  /\ fired \in [Callbacks -> Nat]
  /\ virtualEvent \in [Queues -> Commands \cup {None}]
  /\ queueTaskCount \in [Queues -> Nat]
  /\ order \in [Queues -> Seq(Commands)]
  /\ flushed \in Seq(Commands)
  /\ tag \in 0..Len(flushed)
  /\ registered \subseteq Events
  /\ \A a \in Actors : \A i \in DOMAIN stack[a] :
        /\ stack[a][i].at \in Labels
        /\ stack[a][i].ev \in Events \cup Queues
        /\ stack[a][i].rest \in Seq(Events)
  /\ \A t \in Threads : todo[t] \in Seq(Call)

\* Nothing is enqueued; every user event has been created.
Init ==
  /\ status = [e \in Events |-> CL_QUEUED]
  /\ parentCount = [e \in Events |-> 0]
  /\ children = [e \in Events |-> <<>>]
  /\ ready = [e \in Events |-> FALSE]
  /\ cmd = [e \in Events |-> IF e \in UserEvents THEN "none" ELSE "unborn"]
  /\ taskCount = [e \in Events |-> eventNotReady]
  /\ callbacks = [e \in Events |-> {}]
  /\ fired = [b \in Callbacks |-> 0]
  /\ virtualEvent = [q \in Queues |-> None]
  /\ queueTaskCount = [q \in Queues |-> 0]
  /\ order = [q \in Queues |-> <<>>]
  /\ flushed = <<>>
  /\ tag = 0
  /\ registered = {}
  /\ stack = [a \in Actors |-> <<>>]
  /\ todo \in Scenarios

----------------------------------------------------------------------------
(* Stacks.                                                                 *)

At(a, l) == stack[a] # <<>> /\ Head(stack[a]).at = l
Top(a) == Head(stack[a])
SetTop(a, f) == stack' = [stack EXCEPT ![a] = <<f>> \o Tail(@)]
Goto(a, l) == SetTop(a, [Top(a) EXCEPT !.at = l])
Return(a) == stack' = [stack EXCEPT ![a] = Tail(@)]
\* Call f; when it returns, the current frame goes on as g.
CallThen(a, f, g) == stack' = [stack EXCEPT ![a] = <<f, g>> \o Tail(@)]
CallAndGoto(a, f, l) == CallThen(a, f, [Top(a) EXCEPT !.at = l])

\* CommandStreamReceiver::obtainUniqueOwnership is a recursive mutex, as is
\* the ownership of a queue, which enqueueHandler takes second.
HoldsCsr(a) == \E i \in DOMAIN stack[a] : stack[a][i].at \in CsrLabels
CsrFreeFor(a) == \A b \in Actors \ {a} : ~HoldsCsr(b)
HoldsQueue(a, q) ==
  \E i \in DOMAIN stack[a] :
    stack[a][i].at \in EnqueueLabels /\ QueueOf[stack[a][i].ev] = q
QueueFreeFor(a, q) == \A b \in Actors \ {a} : ~HoldsQueue(b, q)

----------------------------------------------------------------------------
(* Predicates of Event.                                                    *)

isStatusCompleted(s) == s <= CL_COMPLETE
isStatusCompletedByTermination(s) == s < 0
peekIsBlocked(e) == parentCount[e] > 0
isUserEvent(e) == e \in UserEvents
isVirtualEvent(e) == e \in Commands \ OutputEvents
isEventWithoutCommand(e) == cmd[e] = "none"
peekIsCmdSubmitted(e) == cmd[e] = "submitted"

\* Event::getTaskLevel, UserEvent::getTaskLevel and VirtualEvent::getTaskLevel
getTaskLevel(e) == \/ isUserEvent(e) /\ status[e] = CL_COMPLETE
                   \/ isVirtualEvent(e)
                   \/ e \in OutputEvents /\ ready[e]

\* transitionExecutionStatus: a compare-exchange loop that only ever lowers
transitionExecutionStatus(e, s) ==
  status' = [status EXCEPT ![e] = IF @ > s THEN s ELSE @]

\* executeCallbacks: every callback of a target that status s has reached
Due(e, s) == {b \in callbacks[e] : TypeOf[b] >= s}
\* Mutant: walks the list of callbacks without detaching it
executeCallbacks_Peek(e, s) ==
  /\ fired' = [b \in Callbacks |-> IF b \in Due(e, s) THEN fired[b] + 1 ELSE fired[b]]
  /\ UNCHANGED callbacks

executeCallbacks(e, s) ==
  /\ callbacks' = [callbacks EXCEPT ![e] = @ \ Due(e, s)]
  /\ fired' = [b \in Callbacks |-> IF b \in Due(e, s) THEN fired[b] + 1 ELSE fired[b]]

----------------------------------------------------------------------------
(* Event::submitCommand.  The frame's status says whether to abort.        *)

updateTaskCount(e, n) ==
  taskCount' = [taskCount EXCEPT ![e] =
                  IF n = eventNotReady \/ (@ # eventNotReady /\ @ > n) THEN @ ELSE n]

\* cmdToSubmit.exchange(nullptr).  An event without a command whose task count
\* is unknown takes the one of the command stream receiver.
SubmitTake(a) ==
  /\ At(a, "sc_take")
  /\ LET e == Top(a).ev IN
       \/ /\ cmd[e] = "pending"
          /\ cmd' = [cmd EXCEPT ![e] = "taken"]
          /\ Goto(a, "sc_lock")
       \/ /\ cmd[e] # "pending"
          /\ IF taskCount[e] = eventNotReady /\ ~isUserEvent(e) /\ isEventWithoutCommand(e)
               THEN Goto(a, "sc_count")
               ELSE Return(a)
          /\ UNCHANGED cmd
  /\ UNCHANGED <<status, parentCount, children, ready, taskCount, callbackVars,
                 queueVars, csrVars, registered, todo>>

\* The lock, and Command::submit up to its flushTask unless it is aborted
SubmitLock(a) ==
  /\ At(a, "sc_lock")
  /\ CsrFreeFor(a)
  /\ LET f == Top(a) IN
       IF isStatusCompletedByTermination(f.st)
         THEN /\ SetTop(a, [f EXCEPT !.at = "sc_done", !.n = 0])
              /\ UNCHANGED flushed
         ELSE /\ flushed' = Append(flushed, f.ev)
              /\ SetTop(a, [f EXCEPT !.at = "sc_wait", !.n = Len(flushed'),
                                     !.lvl = ready[f.ev]])
  /\ UNCHANGED <<eventVars, callbackVars, queueVars, tag, registered, todo>>

\* A blocked command waits for the GPU with the lock held.
SubmitWait(a) ==
  /\ At(a, "sc_wait")
  /\ tag >= Top(a).n
  /\ Goto(a, "sc_done")
  /\ UNCHANGED <<eventVars, callbackVars, queueVars, csrVars, registered, todo>>

SubmitDone(a) ==
  /\ At(a, "sc_done")
  /\ updateTaskCount(Top(a).ev, Top(a).n)
  /\ cmd' = [cmd EXCEPT ![Top(a).ev] = "submitted"]
  /\ Return(a)
  /\ UNCHANGED <<status, parentCount, children, ready, callbackVars, queueVars,
                 csrVars, registered, todo>>

SubmitCount(a) ==
  /\ At(a, "sc_count")
  /\ CsrFreeFor(a)
  /\ updateTaskCount(Top(a).ev, Len(flushed))
  /\ Return(a)
  /\ UNCHANGED <<status, parentCount, children, ready, cmd, callbackVars,
                 queueVars, csrVars, registered, todo>>

submitCommand(a) ==
  SubmitTake(a) \/ SubmitLock(a) \/ SubmitWait(a) \/ SubmitDone(a) \/ SubmitCount(a)

----------------------------------------------------------------------------
(* Event::setStatus, and VirtualEvent::setStatus in front of it.           *)

SetStatusCheck(a) ==
  /\ At(a, "ss_check")
  /\ LET e == Top(a).ev
         s == IF isVirtualEvent(e) /\ ~isStatusCompletedByTermination(Top(a).st)
                THEN CL_COMPLETE ELSE Top(a).st
     IN IF \/ isStatusCompleted(status[e])
           \/ s = status[e]
           \/ peekIsBlocked(e) /\ ~isStatusCompletedByTermination(s)
          THEN Return(a)
          ELSE CallThen(a, Enter("sc_take", e, s), Enter("ss_trans", e, s))
  /\ UNCHANGED <<eventVars, callbackVars, queueVars, csrVars, registered, todo>>

SetStatusTransition(a) ==
  /\ At(a, "ss_trans")
  /\ transitionExecutionStatus(Top(a).ev, Top(a).st)
  /\ CallAndGoto(a, Enter("ub_level", Top(a).ev, Top(a).st), "ss_cb")
  /\ UNCHANGED <<parentCount, children, ready, cmd, taskCount, callbackVars,
                 queueVars, csrVars, registered, todo>>

\* The trailing executeCallbacks of setStatus, and the early returns of
\* updateExecutionStatus
ExecuteCallbacksAndReturn(a) ==
  /\ At(a, "ss_cb") \/ At(a, "up_cb")
  /\ executeCallbacks(Top(a).ev, Top(a).st)
  /\ Return(a)
  /\ UNCHANGED <<eventVars, queueVars, csrVars, registered, todo>>

setStatus(a) ==
  SetStatusCheck(a) \/ SetStatusTransition(a) \/ ExecuteCallbacksAndReturn(a)

----------------------------------------------------------------------------
(* Event::unblockEventsBlockedByThis and Event::unblockEventBy.            *)

\* The task level to propagate, then childEventsToNotify.detachNodes()
UnblockDetach(a) ==
  /\ At(a, "ub_level")
  /\ LET e == Top(a).ev
         terminated == isStatusCompletedByTermination(Top(a).st)
         lvl == ~terminated /\ (ready[e] \/ getTaskLevel(e))
     IN /\ ready' = [ready EXCEPT ![e] = @ \/ lvl]
        /\ SetTop(a, [Top(a) EXCEPT !.at = "ub_loop", !.lvl = lvl,
                                    !.rest = children[e]])
        /\ children' = [children EXCEPT ![e] = <<>>]
  /\ UNCHANGED <<status, parentCount, cmd, taskCount, callbackVars, queueVars,
                 csrVars, registered, todo>>

UnblockChild(a) ==
  /\ At(a, "ub_loop")
  /\ LET f == Top(a) IN
       IF f.rest = <<>>
         THEN Return(a)
         ELSE CallThen(a, Frame("by_dec", Head(f.rest), f.st, f.lvl, 0, <<>>),
                          [f EXCEPT !.rest = Tail(@)])
  /\ UNCHANGED <<eventVars, callbackVars, queueVars, csrVars, registered, todo>>

\* Mutant: a terminated parent is waited out like the others
UnblockCount_WaitAll(a) ==
  /\ At(a, "by_dec")
  /\ LET e == Top(a).ev IN
       /\ parentCount' = [parentCount EXCEPT ![e] = @ - 1]
       /\ IF parentCount'[e] > 0 THEN Return(a) ELSE Goto(a, "by_level")
  /\ UNCHANGED <<status, children, ready, cmd, taskCount, callbackVars,
                 queueVars, csrVars, registered, todo>>

\* --parentCount: the last parent, or any terminated one, goes on
UnblockCount(a) ==
  /\ At(a, "by_dec")
  /\ LET e == Top(a).ev IN
       /\ parentCount' = [parentCount EXCEPT ![e] = @ - 1]
       /\ IF parentCount'[e] > 0 /\ ~isStatusCompletedByTermination(Top(a).st)
            THEN Return(a)
            ELSE Goto(a, "by_level")
  /\ UNCHANGED <<status, children, ready, cmd, taskCount, callbackVars,
                 queueVars, csrVars, registered, todo>>

\* taskLevel = max(..., taskLevel), where eventNotReady is the largest level,
\* then setStatus(CL_SUBMITTED), or the terminated status
UnblockLevel(a) ==
  /\ At(a, "by_level")
  /\ LET f == Top(a)
         s == IF isStatusCompletedByTermination(f.st) THEN f.st ELSE CL_SUBMITTED
     IN /\ ready' = [ready EXCEPT ![f.ev] = f.lvl]
        /\ CallAndGoto(a, Enter("ss_check", f.ev, s), "by_update")
  /\ UNCHANGED <<status, parentCount, children, cmd, taskCount, callbackVars,
                 queueVars, csrVars, registered, todo>>

UnblockUpdate(a) ==
  /\ At(a, "by_update")
  /\ Goto(a, "up_check")
  /\ UNCHANGED <<eventVars, callbackVars, queueVars, csrVars, registered, todo>>

unblock(a) ==
  UnblockDetach(a) \/ UnblockChild(a) \/ UnblockCount(a) \/ UnblockLevel(a) \/ UnblockUpdate(a)

----------------------------------------------------------------------------
(* Event::updateExecutionStatus; user and virtual events override it with  *)
(* an empty body.                                                          *)

UpdateCheck(a) ==
  /\ At(a, "up_check")
  /\ LET e == Top(a).ev
         skip == isUserEvent(e) \/ isVirtualEvent(e) \/ ~ready[e]
         completed == isStatusCompleted(status[e])
     IN \/ /\ skip
           /\ Return(a)
        \/ /\ ~skip /\ completed
           /\ SetTop(a, Enter("up_cb", e, status[e]))
        \/ /\ ~skip /\ ~completed /\ peekIsBlocked(e)
           /\ SetTop(a, Enter("up_cb", e, CL_QUEUED))
        \/ /\ ~skip /\ ~completed /\ ~peekIsBlocked(e)
           /\ IF status[e] = CL_QUEUED
                THEN CallThen(a, Enter("sc_take", e, CL_QUEUED),
                                 Enter("up_submitted", e, CL_SUBMITTED))
                ELSE SetTop(a, Enter("up_gpu", e, CL_SUBMITTED))
  /\ UNCHANGED <<eventVars, callbackVars, queueVars, csrVars, registered, todo>>

UpdateSubmitted(a) ==
  /\ At(a, "up_submitted")
  /\ transitionExecutionStatus(Top(a).ev, CL_SUBMITTED)
  /\ Goto(a, "up_subcb")
  /\ UNCHANGED <<parentCount, children, ready, cmd, taskCount, callbackVars,
                 queueVars, csrVars, registered, todo>>

UpdateSubmittedCallbacks(a) ==
  /\ At(a, "up_subcb")
  /\ executeCallbacks(Top(a).ev, CL_SUBMITTED)
  /\ CallAndGoto(a, Enter("ub_level", Top(a).ev, CL_SUBMITTED), "up_gpu")
  /\ UNCHANGED <<eventVars, queueVars, csrVars, registered, todo>>

\* cmdQueue->isCompleted(getCompletionStamp())
UpdateFromGpu(a) ==
  /\ At(a, "up_gpu")
  /\ LET e == Top(a).ev IN
       \/ /\ tag >= taskCount[e]
          /\ transitionExecutionStatus(e, CL_COMPLETE)
          /\ Goto(a, "up_compcb")
       \/ /\ tag < taskCount[e]
          /\ transitionExecutionStatus(e, CL_SUBMITTED)
          /\ Return(a)
  /\ UNCHANGED <<parentCount, children, ready, cmd, taskCount, callbackVars,
                 queueVars, csrVars, registered, todo>>

UpdateCompleteCallbacks(a) ==
  /\ At(a, "up_compcb")
  /\ executeCallbacks(Top(a).ev, CL_COMPLETE)
  /\ SetTop(a, Enter("ub_level", Top(a).ev, CL_COMPLETE))
  /\ UNCHANGED <<eventVars, queueVars, csrVars, registered, todo>>

updateExecutionStatus(a) ==
  \/ UpdateCheck(a)
  \/ UpdateSubmitted(a)
  \/ UpdateSubmittedCallbacks(a)
  \/ UpdateFromGpu(a)
  \/ UpdateCompleteCallbacks(a)

----------------------------------------------------------------------------
(* Event::addChild: the frame's event is the parent, its list the child.   *)

AddChildCount(a) ==
  /\ At(a, "ac_count")
  /\ parentCount' = [parentCount EXCEPT ![Head(Top(a).rest)] = @ + 1]
  /\ Goto(a, "ac_push")
  /\ UNCHANGED <<status, children, ready, cmd, taskCount, callbackVars,
                 queueVars, csrVars, registered, todo>>

AddChildPush(a) ==
  /\ At(a, "ac_push")
  /\ children' = [children EXCEPT ![Top(a).ev] = Top(a).rest \o @]
  /\ Goto(a, "ac_check")
  /\ UNCHANGED <<status, parentCount, ready, cmd, taskCount, callbackVars,
                 queueVars, csrVars, registered, todo>>

\* Mutant: a parent that has completed meanwhile is not noticed
AddChildCheck_Skip(a) ==
  /\ At(a, "ac_check")
  /\ Return(a)
  /\ UNCHANGED <<eventVars, callbackVars, queueVars, csrVars, registered, todo>>

\* The parent may have completed before the child was in its list.
AddChildCheck(a) ==
  /\ At(a, "ac_check")
  /\ IF status[Top(a).ev] = CL_COMPLETE
       THEN SetTop(a, Enter("ub_level", Top(a).ev, CL_COMPLETE))
       ELSE Return(a)
  /\ UNCHANGED <<eventVars, callbackVars, queueVars, csrVars, registered, todo>>

addChild(a) == AddChildCount(a) \/ AddChildPush(a) \/ AddChildCheck(a)

----------------------------------------------------------------------------
(* The API.  A call is the next one of the thread's script.                *)

Calls(t, op) == /\ stack[t] = <<>>
                /\ todo[t] # <<>>
                /\ Head(todo[t]).op = op
                /\ todo' = [todo EXCEPT ![t] = Tail(@)]
Argument(t) == Head(todo[t]).on
Start(t, f) == stack' = [stack EXCEPT ![t] = <<f>>]

\* clSetUserEventStatus: CL_INVALID_OPERATION, or UserEvent::setStatus
clSetUserEventStatus(t) ==
  /\ Calls(t, "setUserEventStatus")
  /\ IF status[Argument(t)] = CL_QUEUED
       THEN Start(t, Enter("ss_check", Argument(t), Head(todo[t]).st))
       ELSE UNCHANGED stack
  /\ UNCHANGED <<eventVars, callbackVars, queueVars, csrVars, registered>>

\* clGetEventInfo: updateEventAndReturnCurrentStatus
clGetEventInfo(t) ==
  /\ Calls(t, "getEventInfo")
  /\ cmd[Argument(t)] # "unborn"
  /\ Start(t, Enter("up_check", Argument(t), CL_QUEUED))
  /\ UNCHANGED <<eventVars, callbackVars, queueVars, csrVars, registered>>

\* CommandQueue::isQueueBlocked drops a virtual event that has completed, and
\* takes the queue's task count from it.
QueueIsBlocked(q) == virtualEvent[q] # None /\ ~isStatusCompleted(status[virtualEvent[q]])
PolledVirtualEvent(q) == IF QueueIsBlocked(q) THEN virtualEvent[q] ELSE None
PolledTaskCount(q) ==
  LET v == virtualEvent[q] IN
  CASE v = None \/ QueueIsBlocked(q) -> queueTaskCount[q]
    [] OTHER -> IF isStatusCompletedByTermination(status[v]) THEN 0 ELSE taskCount[v]

\* A marker is not submitted: it inherits the largest task count it follows.
MarkerTaskCount(c) ==
  Max({PolledTaskCount(QueueOf[c])} \cup
        {taskCount[e] : e \in Range(WaitList[c]) \ UserEvents})

\* EventBuilder::addParentEvents and addParentEvent: no duplicates, no null
addParentEvent(parents, e) ==
  IF e = None \/ e \in Range(parents) THEN parents ELSE Append(parents, e)
\* Mutant: only the previous command of the queue is a parent, if there is one
ParentEvents_QueueOnly(c, v) ==
  IF v = None THEN FoldLeft(addParentEvent, <<>>, WaitList[c]) ELSE <<v>>

ParentEvents(c, v) == addParentEvent(FoldLeft(addParentEvent, <<>>, WaitList[c]), v)

EnqueueGuard(t, c) ==
  /\ Calls(t, "enqueue")
  /\ c = Argument(t)
  /\ cmd[c] = "unborn"
  /\ \A e \in Range(WaitList[c]) : cmd[e] # "unborn"
  /\ CsrFreeFor(t)
  /\ QueueFreeFor(t, QueueOf[c])
  /\ order' = [order EXCEPT ![QueueOf[c]] = Append(@, c)]

\* obtainTaskLevelAndBlockedStatus
blockQueue(c) == QueueIsBlocked(QueueOf[c]) \/ \E e \in Range(WaitList[c]) : ~ready[e]

\* The task count of a command that is not blocked: the one of its flushTask,
\* or the inherited one if it has no kernel
enqueueNonBlocked(c) == IF c \in Markers THEN MarkerTaskCount(c) ELSE Len(flushed) + 1

\* enqueueHandler, not blocked: flushed at once, under both locks
EnqueueNonBlocked(t, c) ==
  /\ EnqueueGuard(t, c)
  /\ ~blockQueue(c)
  /\ LET q == QueueOf[c]
         n == enqueueNonBlocked(c)
     IN /\ flushed' = IF c \in Markers THEN flushed ELSE Append(flushed, c)
        /\ taskCount' = [taskCount EXCEPT ![c] = n]
        /\ queueTaskCount' = [queueTaskCount EXCEPT ![q] =
                                IF n = eventNotReady THEN PolledTaskCount(q) ELSE n]
        /\ virtualEvent' = [virtualEvent EXCEPT ![q] = None]
  /\ ready' = [ready EXCEPT ![c] = TRUE]
  /\ cmd' = [cmd EXCEPT ![c] = "none"]
  /\ UNCHANGED <<status, parentCount, children, callbackVars, tag, registered, stack>>

\* Mutant: without the sentinel, which keeps the event blocked until all its
\* parents have been added
EnqueueBlocked_NoSentinel(t, c) ==
  /\ EnqueueGuard(t, c)
  /\ blockQueue(c)
  /\ LET q == QueueOf[c]
         v == PolledVirtualEvent(q)
     IN /\ virtualEvent' = [virtualEvent EXCEPT ![q] = v]
        /\ queueTaskCount' = [queueTaskCount EXCEPT ![q] = eventNotReady]
        /\ Start(t, Frame("enq_parents", c, CL_QUEUED, FALSE, 0, ParentEvents(c, v)))
  /\ cmd' = [cmd EXCEPT ![c] = "pending"]
  /\ UNCHANGED <<status, parentCount, children, ready, taskCount, callbackVars,
                 csrVars, registered>>

\* enqueueHandler and enqueueBlocked up to the sentinel of
\* EventBuilder::finalize, which is the first parent of the new event
EnqueueBlocked(t, c) ==
  /\ EnqueueGuard(t, c)
  /\ blockQueue(c)
  /\ LET q == QueueOf[c]
         v == PolledVirtualEvent(q)
     IN /\ virtualEvent' = [virtualEvent EXCEPT ![q] = v]
        /\ queueTaskCount' = [queueTaskCount EXCEPT ![q] = eventNotReady]
        /\ Start(t, Frame("enq_parents", c, CL_QUEUED, FALSE, 0, ParentEvents(c, v)))
  /\ cmd' = [cmd EXCEPT ![c] = "pending"]
  /\ parentCount' = [parentCount EXCEPT ![c] = 1]
  /\ UNCHANGED <<status, children, ready, taskCount, callbackVars, csrVars, registered>>

\* EventBuilder::finalize, for each parent: not added as child of one that is
\* unblocked and has submitted its command.  After the last one, the sentinel
\* is set to CL_COMPLETE.
EnqueueParent(a) ==
  /\ At(a, "enq_parents")
  /\ LET f == Top(a)
         p == Head(f.rest)
         g == [f EXCEPT !.rest = Tail(@)]
     IN CASE f.rest = <<>> ->
               CallAndGoto(a, Frame("by_dec", f.ev, CL_COMPLETE, TRUE, 0, <<>>), "enq_end")
          [] f.rest # <<>> ->
               IF \/ ~(~peekIsBlocked(p) /\ ready[p])
                  \/ ~isEventWithoutCommand(p) /\ ~peekIsCmdSubmitted(p)
                 THEN CallThen(a, Frame("ac_count", p, CL_QUEUED, FALSE, 0, <<f.ev>>), g)
                 ELSE SetTop(a, g)
  /\ UNCHANGED <<eventVars, callbackVars, queueVars, csrVars, registered, todo>>

\* The event becomes the queue's virtual event, and the locks are released.
EnqueueEnd(a) ==
  /\ At(a, "enq_end")
  /\ virtualEvent' = [virtualEvent EXCEPT ![QueueOf[Top(a).ev]] = Top(a).ev]
  /\ Return(a)
  /\ UNCHANGED <<eventVars, callbackVars, queueTaskCount, order, csrVars,
                 registered, todo>>

enqueue(t) ==
  \/ \E c \in Commands : EnqueueNonBlocked(t, c) \/ EnqueueBlocked(t, c)
  \/ EnqueueParent(t)
  \/ EnqueueEnd(t)

----------------------------------------------------------------------------
(* CommandQueueHw::finish, also the tail of a blocking enqueue.  The frame *)
(* remembers, for the properties, how much was enqueued when it started.   *)

clFinish(t) ==
  /\ Calls(t, "finish")
  /\ Start(t, Frame("fin_poll", Argument(t), CL_QUEUED, FALSE,
                    Len(order[Argument(t)]), <<>>))
  /\ UNCHANGED <<eventVars, callbackVars, queueVars, csrVars, registered>>

\* Mutant: isQueueBlocked is called once
FinishPoll_Once(a) ==
  /\ At(a, "fin_poll")
  /\ LET q == Top(a).ev IN
       /\ QueueFreeFor(a, q)
       /\ virtualEvent' = [virtualEvent EXCEPT ![q] = PolledVirtualEvent(q)]
       /\ queueTaskCount' = [queueTaskCount EXCEPT ![q] = PolledTaskCount(q)]
  /\ Goto(a, "fin_read")
  /\ UNCHANGED <<eventVars, callbackVars, order, csrVars, registered, todo>>

\* while (isQueueBlocked());
FinishPoll(a) ==
  /\ At(a, "fin_poll")
  /\ LET q == Top(a).ev IN
       /\ QueueFreeFor(a, q)
       /\ ~QueueIsBlocked(q)
       /\ virtualEvent' = [virtualEvent EXCEPT ![q] = None]
       /\ queueTaskCount' = [queueTaskCount EXCEPT ![q] = PolledTaskCount(q)]
  /\ Goto(a, "fin_read")
  /\ UNCHANGED <<eventVars, callbackVars, order, csrVars, registered, todo>>

\* taskCountToWaitFor = this->taskCount, no longer under the queue's ownership.
\* The frame's status field is free: it takes the task count.
FinishRead(a) ==
  /\ At(a, "fin_read")
  /\ SetTop(a, [Top(a) EXCEPT !.at = "fin_wait", !.st = queueTaskCount[Top(a).ev]])
  /\ UNCHANGED <<eventVars, callbackVars, queueVars, csrVars, registered, todo>>

\* Mutant: the last task is not waited for
FinishWait_OffByOne(a) ==
  /\ At(a, "fin_wait")
  /\ tag + 1 >= Top(a).st
  /\ Goto(a, "fin_end")
  /\ UNCHANGED <<eventVars, callbackVars, queueVars, csrVars, registered, todo>>

\* waitUntilComplete
FinishWait(a) ==
  /\ At(a, "fin_wait")
  /\ tag >= Top(a).st
  /\ Goto(a, "fin_end")
  /\ UNCHANGED <<eventVars, callbackVars, queueVars, csrVars, registered, todo>>

FinishEnd(a) ==
  /\ At(a, "fin_end")
  /\ Return(a)
  /\ UNCHANGED <<eventVars, callbackVars, queueVars, csrVars, registered, todo>>

finish(a) == FinishPoll(a) \/ FinishRead(a) \/ FinishWait(a) \/ FinishEnd(a)

----------------------------------------------------------------------------
(* Event::waitForEvents with Event::wait(false) and UserEvent::wait(false):*)
(* the list is walked again and again until each event has been waited for.*)
(* The frame's event is the one looked at, its list what follows.          *)

WaitFrame(list) == Frame("wf_loop", Head(list), CL_QUEUED, FALSE, 0, Tail(list))

clWaitForEvents(t) ==
  /\ Calls(t, "waitForEvents")
  /\ \A e \in Range(Argument(t)) : cmd[e] # "unborn"
  /\ Start(t, WaitFrame(Argument(t)))
  /\ UNCHANGED <<eventVars, callbackVars, queueVars, csrVars, registered>>

\* CL_EXEC_STATUS_ERROR_FOR_EVENTS_IN_WAIT_LIST
WaitLoop(a) ==
  /\ At(a, "wf_loop")
  /\ IF isStatusCompletedByTermination(status[Top(a).ev])
       THEN Return(a)
       ELSE Goto(a, "wf_try")
  /\ UNCHANGED <<eventVars, callbackVars, queueVars, csrVars, registered, todo>>

\* wait(false): an event whose task count is not known stays in the list
WaitTry(a) ==
  /\ At(a, "wf_try")
  /\ LET f == Top(a) IN
       \/ /\ isUserEvent(f.ev) /\ isStatusCompleted(status[f.ev])
          /\ Goto(a, "wf_check")
       \/ /\ ~isUserEvent(f.ev) /\ taskCount[f.ev] # eventNotReady
          /\ SetTop(a, [f EXCEPT !.at = "wf_wait", !.n = taskCount[f.ev]])
       \/ /\ IF isUserEvent(f.ev) THEN ~isStatusCompleted(status[f.ev])
                                  ELSE taskCount[f.ev] = eventNotReady
          /\ SetTop(a, WaitFrame(Append(f.rest, f.ev)))
  /\ UNCHANGED <<eventVars, callbackVars, queueVars, csrVars, registered, todo>>

WaitForGpu(a) ==
  /\ At(a, "wf_wait")
  /\ tag >= Top(a).n
  /\ CallAndGoto(a, Enter("up_check", Top(a).ev, CL_QUEUED), "wf_check")
  /\ UNCHANGED <<eventVars, callbackVars, queueVars, csrVars, registered, todo>>

\* The event has been waited for; CL_SUCCESS after the last one
WaitEnd(a) ==
  /\ At(a, "wf_check")
  /\ IF Top(a).rest = <<>> THEN Return(a) ELSE SetTop(a, WaitFrame(Top(a).rest))
  /\ UNCHANGED <<eventVars, callbackVars, queueVars, csrVars, registered, todo>>

waitForEvents(a) == WaitLoop(a) \/ WaitTry(a) \/ WaitForGpu(a) \/ WaitEnd(a)

----------------------------------------------------------------------------
(* Event::addCallback, and the async handler that polls for callbacks.     *)

clSetEventCallback(t) ==
  /\ Calls(t, "addCallback")
  /\ LET b == Argument(t) IN
       /\ cmd[EventOf[b]] # "unborn"
       /\ callbacks' = [callbacks EXCEPT ![EventOf[b]] = @ \cup {b}]
       /\ stack' = [stack EXCEPT ![t] = <<Enter("up_check", EventOf[b], CL_QUEUED),
                                          Enter("cb_check", EventOf[b], CL_QUEUED)>>]
  /\ UNCHANGED <<eventVars, fired, queueVars, csrVars, registered>>

\* Callback added after the event has completed
AddCallbackCheck(a) ==
  /\ At(a, "cb_check")
  /\ LET e == Top(a).ev IN
       IF isStatusCompleted(status[e])
         THEN executeCallbacks(e, status[e])
         ELSE UNCHANGED callbackVars
  /\ Goto(a, "cb_reg")
  /\ UNCHANGED <<eventVars, queueVars, csrVars, registered, todo>>

\* Mutant: the event is not registered with the async handler
AddCallbackRegister_Skip(a) ==
  /\ At(a, "cb_reg")
  /\ Return(a)
  /\ UNCHANGED <<eventVars, callbackVars, queueVars, csrVars, registered, todo>>

\* AsyncEventsHandler::registerEvent
AddCallbackRegister(a) ==
  /\ At(a, "cb_reg")
  /\ LET e == Top(a).ev IN
       registered' = IF callbacks[e] # {} /\ ~isUserEvent(e)
                       THEN registered \cup {e} ELSE registered
  /\ Return(a)
  /\ UNCHANGED <<eventVars, callbackVars, queueVars, csrVars, todo>>

addCallback(a) == AddCallbackCheck(a) \/ AddCallbackRegister(a)

\* AsyncEventsHandler::processList, one event of the list
AsyncProcess(e) ==
  /\ stack[AsyncHandler] = <<>>
  /\ e \in registered
  /\ stack' = [stack EXCEPT ![AsyncHandler] = <<Enter("up_check", e, CL_QUEUED),
                                                Enter("ah_check", e, CL_QUEUED)>>]
  /\ UNCHANGED <<eventVars, callbackVars, queueVars, csrVars, registered, todo>>

AsyncUnregister ==
  /\ At(AsyncHandler, "ah_check")
  /\ LET e == Top(AsyncHandler).ev IN
       registered' = IF callbacks[e] = {} THEN registered \ {e} ELSE registered
  /\ Return(AsyncHandler)
  /\ UNCHANGED <<eventVars, callbackVars, queueVars, csrVars, todo>>

----------------------------------------------------------------------------
(* The GPU executes the flushed tasks in order and writes the tag.         *)

GpuComplete ==
  /\ tag < Len(flushed)
  /\ tag' = tag + 1
  /\ UNCHANGED <<eventVars, callbackVars, queueVars, flushed, registered, stack, todo>>

----------------------------------------------------------------------------
\* The waits for the queue and for the tag are loops without a sleep.
Spin(a) == /\ \/ At(a, "fin_poll") /\ QueueIsBlocked(Top(a).ev)
              \/ At(a, "fin_wait") /\ tag < Top(a).st
              \/ (At(a, "wf_wait") \/ At(a, "sc_wait")) /\ tag < Top(a).n
           /\ UNCHANGED vars

Step(a) ==
  \/ submitCommand(a)
  \/ setStatus(a)
  \/ unblock(a)
  \/ updateExecutionStatus(a)
  \/ addChild(a)
  \/ finish(a)
  \/ waitForEvents(a)
  \/ addCallback(a)
  \/ Spin(a)

Invoke(t) ==
  \/ clSetUserEventStatus(t)
  \/ clGetEventInfo(t)
  \/ clFinish(t)
  \/ clWaitForEvents(t)
  \/ clSetEventCallback(t)

asyncProcess == (\E e \in Events : AsyncProcess(e)) \/ AsyncUnregister

Finished == /\ \A t \in Threads : stack[t] = <<>> /\ todo[t] = <<>>
            /\ stack[AsyncHandler] = <<>>
Quiet == Finished /\ UNCHANGED vars

Next ==
  \/ \E t \in Threads : Invoke(t) \/ enqueue(t)
  \/ \E a \in Actors : Step(a)
  \/ asyncProcess
  \/ GpuComplete
  \/ Quiet

Spec == Init /\ [][Next]_vars

\* Every thread keeps executing, and so do the handler and the GPU.
Fairness ==
  /\ \A t \in Threads : WF_vars(Invoke(t) \/ enqueue(t) \/ Step(t))
  /\ WF_vars(asyncProcess \/ Step(AsyncHandler))
  /\ WF_vars(GpuComplete)

FairSpec == Spec /\ Fairness
----------------------------------------------------------------------------
(* Safety.                                                                 *)

Frames == UNION {{<<a, i>> : i \in DOMAIN stack[a]} : a \in Actors}
\* The frame will still decrement e's parent count.
OwesUnblock(f, e) == \/ f.at \in {"by_dec", "enq_parents"} /\ f.ev = e
                     \/ f.at \in {"ac_push", "ub_loop"} /\ e \in Range(f.rest)
FlushedAt(c) == {i \in DOMAIN flushed : flushed[i] = c}
Passed(c) == \E i \in FlushedAt(c) : i <= tag

\* At every step of every thread, parentCount is the number of parents that
\* hold the event in their list of children plus the notifications on their
\* way: it never becomes negative (the DEBUG_BREAK_IF of unblockEventBy), and
\* reaches zero with the last parent and not before.
ParentCountExact ==
  \A e \in Commands :
    parentCount[e] = Cardinality({p \in Events : e \in Range(children[p])})
                       + Cardinality({k \in Frames : OwesUnblock(stack[k[1]][k[2]], e)})

\* A blocked command is handed to the hardware by one thread only, although
\* setStatus and every poll of updateExecutionStatus try to submit it.
SubmittedOnce == \A i, j \in DOMAIN flushed : flushed[i] = flushed[j] => i = j

\* A command is flushed after the commands it waits for, and when the user
\* events it waits for are complete.
DependenciesFlushedFirst ==
  \A i \in DOMAIN flushed : \A p \in Range(WaitList[flushed[i]]) :
    IF p \in UserEvents
      THEN status[p] = CL_COMPLETE
      ELSE cmd[p] = "none" \/ \E j \in FlushedAt(p) : j < i

\* Commands of an in-order queue reach the hardware in the order of their
\* enqueue calls, whoever submits them.
QueueInOrder ==
  \A q \in Queues : \A k, l \in DOMAIN order[q] :
    k < l => \A i \in FlushedAt(order[q][k]), j \in FlushedAt(order[q][l]) : i < j

\* When clFinish returns, the GPU has executed every command that was in the
\* queue when it was called, except the terminated ones and markers, which
\* are not sent to the hardware if they were not blocked.
FinishIsComplete ==
  \A t \in Threads : At(t, "fin_end") =>
    \A i \in 1..Top(t).n :
      LET c == order[Top(t).ev][i] IN
      \/ isStatusCompletedByTermination(status[c])
      \/ c \in Markers /\ cmd[c] = "none"
      \/ Passed(c)

\* Event::waitForEvents drops an event from its list only when the event is
\* complete and, if it stands for a kernel, the GPU has executed it; an event that
\* was terminated ends the wait with an error.
WaitIsComplete ==
  \A t \in Threads : At(t, "wf_check") =>
    LET e == Top(t).ev IN
    status[e] = CL_COMPLETE /\ (e \in Commands \ Markers => Passed(e))

\* The assertion of Event::wait: the event of a command that was waited for has
\* its task level, or was terminated.
WaitedForIsReady ==
  \A t \in Threads : At(t, "wf_check") =>
    LET e == Top(t).ev IN
    e \in Commands => ready[e] \/ isStatusCompletedByTermination(status[e])

\* A call that returns has waited: clFinish for its queue, clWaitForEvents for
\* each event of its list.
ReturnsAreComplete == FinishIsComplete /\ WaitIsComplete

\* A command that waits on a terminated event is never flushed.
AbortedNotFlushed ==
  \A c \in Range(flushed) : \A p \in Range(WaitList[c]) :
    ~isStatusCompletedByTermination(status[p])

\* What reaches the hardware, whichever threads set events, poll them and
\* enqueue: every command once, after what it waits for, in the order of its
\* queue, and nothing that was aborted.
SubmissionOrder ==
  SubmittedOnce /\ DependenciesFlushedFirst /\ QueueInOrder /\ AbortedNotFlushed

\* A callback is executed at most once, whichever of setStatus, addCallback, a
\* poll and the async handler gets to it first, and never before its event has
\* reached the status the callback was added for.
CallbackOnTime ==
  \A b \in Callbacks :
    fired[b] <= 1 /\ (fired[b] = 1 => status[EventOf[b]] <= TypeOf[b])

----------------------------------------------------------------------------
(* Liveness, under FairSpec.  A scenario makes finitely many calls, so what *)
(* must happen after each of them has happened for good from some point on. *)

\* A blocked command does not stay blocked, whichever of the enqueue, the
\* parents and the polls gets to it last: it is submitted, or taken and dropped
\* because a parent was terminated.
BlockedCommandsResolve == <>[](\A c \in Commands : cmd[c] \notin {"pending", "taken"})

\* No API call hangs: enqueue, finish, waitForEvents and the others return.
EveryCallReturns == <>[](\A t \in Threads : stack[t] = <<>>)

\* A callback that was added is eventually executed.
CallbacksAreCalled == <>[](\A e \in Events : callbacks[e] = {})

\* Terminating a user event, or a command, terminates every command that waits
\* on it.
AbortPropagates ==
  <>[](\A c \in Commands : \A p \in Range(WaitList[c]) :
         isStatusCompletedByTermination(status[p]) /\ cmd[c] # "unborn"
           => isStatusCompletedByTermination(status[c]))
=============================================================================
