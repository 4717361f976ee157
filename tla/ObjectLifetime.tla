--------------------------- MODULE ObjectLifetime ---------------------------
(***************************************************************************)
(* The life of the OpenCL objects: ReferenceTrackedObject and BaseObject   *)
(* (reference_tracked_object.h, base_object.h), the references that the    *)
(* constructors, destructors, enqueues, events and callbacks take and      *)
(* drop, and the ownership of a command queue.                             *)
(*                                                                         *)
(* An object has a count of API references and one of all references; it   *)
(* is deleted by whoever drops the last one, on whichever thread, and its  *)
(* destructor drops the references it held.  A queue and the event of its  *)
(* last blocked command refer to each other.                               *)
(*                                                                         *)
(* A thread has a stack of operations, each of which touches the counters  *)
(* or lists of one object in one atomic step; an operation may be replaced *)
(* by those it calls.  The receiver's mutex is left out: it orders         *)
(* submissions (module EventTree), and no reference depends on it.         *)
(***************************************************************************)
EXTENDS Integers, Sequences, FiniteSets, SequencesExt

CONSTANTS Threads,
          AsyncHandler,  \* the thread of the AsyncEventsHandler
          Objects, Queues, UserEvents, Commands,
          Holds,         \* what an object refers to, in the order of its destructor
          Programs,      \* of them, those referred to by API references
          QueueOf,       \* the queue of a command
          WaitOn,        \* the event in the wait list of a command, or None
          Payload,       \* the kernel or the memory object of a command
          OutputEvents,  \* commands whose event the application gets
          Existing,      \* the application's references to the first objects
          Scenarios,     \* functions from threads to the steps of their scripts
          None

Events == UserEvents \cup Commands
VirtualEvents == Commands \ OutputEvents
Actors == Threads \cup {AsyncHandler}

Terminated == -1
CL_COMPLETE == 0
CL_SUBMITTED == 2
CL_QUEUED == 3
Status == {Terminated, CL_COMPLETE, CL_SUBMITTED, CL_QUEUED}

CallNames == {"create", "retain", "release", "enqueue", "setUserEventStatus",
              "terminateUserEvent", "addCallback", "getEventInfo", "finish"}
Call == [op : CallNames, on : Objects]

\* The objects that the application passes to a call.
Uses(c) == CASE c.op = "create" -> Range(Holds[c.on])
             [] c.op = "enqueue" -> {QueueOf[c.on], Payload[c.on]} \cup ({WaitOn[c.on]} \ {None})
             [] OTHER -> {c.on}

ASSUME LifetimeAssumption ==
  /\ IsFiniteSet(Objects) /\ Queues \cup Events \cup Programs \subseteq Objects
  /\ Queues \cap Events = {} /\ UserEvents \cap Commands = {} /\ OutputEvents \subseteq Commands
  /\ \A o \in Objects : Holds[o] \in Seq(Objects)
  /\ QueueOf \in [Commands -> Queues] /\ Payload \in [Commands -> Objects]
  /\ WaitOn \in [Commands -> UserEvents \cup OutputEvents \cup {None}]
  /\ Existing \in [Objects -> Nat]
  /\ \A o \in Objects : Existing[o] > 0 => \A h \in Range(Holds[o]) : Existing[h] > 0
  /\ \A s \in Scenarios : \A t \in Threads : s[t] \in Seq(SUBSET Call)
  /\ None \notin Objects \cup Actors /\ AsyncHandler \notin Threads

VARIABLES script,        \* the sets of calls that a thread has still to make
          current,       \* the call that a thread is making, or None
          held,          \* API references that the application owns
          life,          \* unborn, alive, dying (in its destructor) or deleted
          refApi, refInternal,
          stack,         \* operations that a thread has still to execute
          owner, recursiveOwnageCounter, waiters,   \* BaseObject, of queues
          virtualEvent,  \* the event of a queue's last blocked command
          event,         \* what an event keeps, see EventState
          executed       \* the commands that the GPU has executed

objVars == <<life, refApi, refInternal>>
ownVars == <<owner, recursiveOwnageCounter, waiters>>
appVars == <<script, current, held>>
notEvent == <<appVars, objVars, ownVars, virtualEvent, executed>>
notStack == <<notEvent, event>>
vars == <<notStack, stack>>

\* ready: the task level is known.  command: none, pending (cmdToSubmit), taken
\* by a submitter, submitted; or flushed at once.  asyncList: references of the
\* async handler.
EventState == [status : Status, ready : BOOLEAN, parentCount : Nat,
               command : {"none", "pending", "taken", "submitted", "flushed"},
               childEvents : Seq(Commands), callbacks : Nat, asyncList : Nat]
Op == [op : STRING, o : Objects, x : Objects \cup Status \cup {None}]

TypeOK ==
  /\ \A t \in Threads : script[t] \in Seq(SUBSET Call) /\ current[t] \in Call \cup {None}
  /\ held \in [Objects -> Nat] /\ refApi \in [Objects -> Nat] /\ refInternal \in [Objects -> Nat]
  /\ life \in [Objects -> {"unborn", "alive", "dying", "deleted"}]
  /\ \A t \in Actors : stack[t] \in Seq(Op)
  /\ owner \in [Queues -> Actors \cup {None}] /\ recursiveOwnageCounter \in [Queues -> Nat]
  /\ waiters \in [Queues -> SUBSET Actors]
  /\ virtualEvent \in [Queues -> Commands \cup {None}]
  /\ event \in [Events -> EventState]
  /\ executed \subseteq Commands

\* References to o from the constructors of the first objects.
HeldBy(o) == Cardinality({<<h, i>> \in Objects \X (1..2) :
                            Existing[h] > 0 /\ i \in DOMAIN Holds[h] /\ Holds[h][i] = o})

Init ==
  /\ script \in Scenarios /\ current = [t \in Threads |-> None] /\ held = Existing
  /\ life = [o \in Objects |-> IF Existing[o] > 0 THEN "alive" ELSE "unborn"]
  /\ refApi = [o \in Objects |-> Existing[o] + IF o \in Programs THEN HeldBy(o) ELSE 0]
  /\ refInternal = [o \in Objects |-> Existing[o] + HeldBy(o)]
  /\ stack = [t \in Actors |-> <<>>]
  /\ owner = [q \in Queues |-> None] /\ recursiveOwnageCounter = [q \in Queues |-> 0]
  /\ waiters = [q \in Queues |-> {}] /\ virtualEvent = [q \in Queues |-> None]
  /\ event = [e \in Events |-> [status |-> CL_QUEUED, ready |-> FALSE, parentCount |-> 0,
                                command |-> "none", childEvents |-> <<>>, callbacks |-> 0,
                                asyncList |-> 0]]
  /\ executed = {}

-----------------------------------------------------------------------------
(* Operations *)

Do(name, o) == [op |-> name, o |-> o, x |-> None]
DoWith(name, o, x) == [op |-> name, o |-> o, x |-> x]
Inc(o) == Do("incRefInternal", o)
Dec(o) == Do("decRefInternal", o)

Top(t) == Head(stack[t])
At(t, name) == stack[t] # <<>> /\ Top(t).op = name
\* The operation at the top is replaced by those that it calls.
Run(t, ops) == stack' = [stack EXCEPT ![t] = ops \o Tail(@)]
Return(t) == Run(t, <<>>)

\* An object takes its own API reference, then those to what it holds.
retain(o) == <<Do("incRefApi", o), Inc(o)>>
release(o) == <<Do("decRefApi", o), Dec(o)>>
Retained(o) == IF o \in Programs THEN retain(o) ELSE <<Inc(o)>>
Released(o) == IF o \in Programs THEN release(o) ELSE <<Dec(o)>>
constructor(o) ==
  <<Do("BaseObject", o)>> \o FoldLeft(LAMBDA ops, h : ops \o Retained(h), <<>>, Holds[o])

\* What the destructors do: an event drops its command, its queue and its
\* context and lets its children go; a queue drops its virtual event.
DropHeld(o) == FoldLeft(LAMBDA ops, h : ops \o Released(h), <<>>, Holds[o])
destructor(o) ==
  CASE o \in Events -> <<Do("~Event", o), Do("~Command", o)>> \o DropHeld(o)
                         \o <<Do("unblockChildren", o), Do("free", o)>>
    [] o \in Queues -> <<Do("~CommandQueue", o)>> \o DropHeld(o) \o <<Do("free", o)>>
    [] OTHER -> DropHeld(o) \o <<Do("free", o)>>

incRefInternal(t) ==
  /\ At(t, "incRefInternal")
  /\ refInternal' = [refInternal EXCEPT ![Top(t).o] = @ + 1]
  /\ Return(t)
  /\ UNCHANGED <<appVars, life, refApi, ownVars, event, virtualEvent, executed>>

incRefApi(t) ==
  /\ At(t, "incRefApi")
  /\ refApi' = [refApi EXCEPT ![Top(t).o] = @ + 1]
  /\ Return(t)
  /\ UNCHANGED <<appVars, life, refInternal, ownVars, event, virtualEvent, executed>>

decRefApi(t) ==
  /\ At(t, "decRefApi")
  /\ refApi' = [refApi EXCEPT ![Top(t).o] = @ - 1]
  /\ Return(t)
  /\ UNCHANGED <<appVars, life, refInternal, ownVars, event, virtualEvent, executed>>

decRefInternal(t) ==
  LET o == Top(t).o IN
  /\ At(t, "decRefInternal")
  /\ refInternal' = [refInternal EXCEPT ![o] = @ - 1]
  /\ IF refInternal[o] = 1
       THEN life' = [life EXCEPT ![o] = "dying"] /\ Run(t, destructor(o))
       ELSE UNCHANGED life /\ Return(t)
  /\ UNCHANGED <<appVars, refApi, ownVars, event, virtualEvent, executed>>

\* A new object starts with the reference that the application will get; a
\* virtual event is converted to an internal object.
BaseObject(t) ==
  LET o == Top(t).o IN
  /\ At(t, "BaseObject")
  /\ life' = [life EXCEPT ![o] = "alive"]
  /\ refApi' = [refApi EXCEPT ![o] = IF o \in VirtualEvents THEN 0 ELSE 1]
  /\ refInternal' = [refInternal EXCEPT ![o] = 1]
  /\ Return(t)
  /\ UNCHANGED <<appVars, ownVars, event, virtualEvent, executed>>

Free(t) ==
  /\ At(t, "free")
  /\ life' = [life EXCEPT ![Top(t).o] = "deleted"]
  /\ Return(t)
  /\ UNCHANGED <<appVars, refApi, refInternal, ownVars, event, virtualEvent, executed>>

-----------------------------------------------------------------------------
(* Ownership of a queue *)

takeOwnership(t) ==
  LET q == Top(t).o IN
  /\ At(t, "takeOwnership")
  /\ \/ /\ owner[q] = None
        /\ owner' = [owner EXCEPT ![q] = t]
        /\ Return(t)
        /\ UNCHANGED <<recursiveOwnageCounter, waiters>>
     \/ /\ owner[q] = t
        /\ recursiveOwnageCounter' = [recursiveOwnageCounter EXCEPT ![q] = @ + 1]
        /\ Return(t)
        /\ UNCHANGED <<owner, waiters>>
     \/ /\ owner[q] \notin {None, t}
        /\ waiters' = [waiters EXCEPT ![q] = @ \cup {t}]
        /\ Run(t, <<Do("ownershipWait", q)>>)
        /\ UNCHANGED <<owner, recursiveOwnageCounter>>
  /\ UNCHANGED <<appVars, objVars, event, virtualEvent, executed>>

\* A notified waiter looks at the predicate again.
ownershipWait(t) ==
  LET q == Top(t).o IN
  /\ At(t, "ownershipWait") /\ t \notin waiters[q]
  /\ IF owner[q] = None
       THEN /\ owner' = [owner EXCEPT ![q] = t]
            /\ recursiveOwnageCounter' = [recursiveOwnageCounter EXCEPT ![q] = 0]
            /\ Return(t)
            /\ UNCHANGED waiters
       ELSE /\ waiters' = [waiters EXCEPT ![q] = @ \cup {t}]
            /\ UNCHANGED <<stack, owner, recursiveOwnageCounter>>
  /\ UNCHANGED <<appVars, objVars, event, virtualEvent, executed>>

SpuriousWake(t) ==
  \E q \in Queues : /\ t \in waiters[q]
                    /\ waiters' = [waiters EXCEPT ![q] = @ \ {t}]
                    /\ UNCHANGED <<appVars, objVars, stack, owner, recursiveOwnageCounter,
                                   event, virtualEvent, executed>>

NotifyOne(q) ==
  IF waiters[q] = {} THEN UNCHANGED waiters
  ELSE \E w \in waiters[q] : waiters' = [waiters EXCEPT ![q] = @ \ {w}]

\* Mutant: no waiter is notified
releaseOwnership_Silent(t) ==
  LET q == Top(t).o IN
  /\ At(t, "releaseOwnership")
  /\ IF recursiveOwnageCounter[q] > 0
       THEN /\ recursiveOwnageCounter' = [recursiveOwnageCounter EXCEPT ![q] = @ - 1]
            /\ UNCHANGED owner
       ELSE /\ owner' = [owner EXCEPT ![q] = None]
            /\ UNCHANGED recursiveOwnageCounter
  /\ Return(t)
  /\ UNCHANGED <<appVars, objVars, waiters, event, virtualEvent, executed>>

releaseOwnership(t) ==
  LET q == Top(t).o IN
  /\ At(t, "releaseOwnership")
  /\ IF recursiveOwnageCounter[q] > 0
       THEN /\ recursiveOwnageCounter' = [recursiveOwnageCounter EXCEPT ![q] = @ - 1]
            /\ UNCHANGED <<owner, waiters>>
       ELSE /\ owner' = [owner EXCEPT ![q] = None]
            /\ NotifyOne(q)
            /\ UNCHANGED recursiveOwnageCounter
  /\ Return(t)
  /\ UNCHANGED <<appVars, objVars, event, virtualEvent, executed>>

-----------------------------------------------------------------------------
(* Events *)

isStatusCompleted(s) == s <= CL_COMPLETE
peekIsBlocked(e) == event[e].parentCount > 0
Lowered(s1, s2) == IF s2 < s1 THEN s2 ELSE s1

\* The children are detached from the list at once; each is let go and loses
\* the reference that the list had.  Termination leaves the task level unknown.
Unblock(t, e, s) ==
  /\ event' = [event EXCEPT ![e].childEvents = <<>>,
                            ![e].ready = \/ @
                                         \/ s # Terminated /\ e \in VirtualEvents
                                         \/ s # Terminated /\ e \in UserEvents /\ event[e].status = CL_COMPLETE]
  /\ Run(t, FoldLeft(LAMBDA ops, c : ops \o <<DoWith("unblockEventBy", c, s), Dec(c)>>,
                     <<>>, event[e].childEvents))

unblockEventsBlockedByThis(t) ==
  /\ At(t, "unblockEventsBlockedByThis")
  /\ Unblock(t, Top(t).o, Top(t).x)
  /\ UNCHANGED notEvent

UnblockInDestructor(t) ==
  /\ At(t, "unblockChildren")
  /\ Unblock(t, Top(t).o, event[Top(t).o].status)
  /\ UNCHANGED notEvent

\* The last parent, or a terminated one, passes its status on.
unblockEventBy(t) ==
  LET c == Top(t).o  s == Top(t).x IN
  /\ At(t, "unblockEventBy")
  /\ IF event[c].parentCount > 1 /\ s # Terminated
       THEN event' = [event EXCEPT ![c].parentCount = @ - 1] /\ Return(t)
       ELSE /\ event' = [event EXCEPT ![c].parentCount = @ - 1, ![c].ready = @ \/ s # Terminated]
            /\ Run(t, <<DoWith("setStatus", c, IF s = Terminated THEN s ELSE CL_SUBMITTED),
                        Do("updateExecutionStatus", c)>>)
  /\ UNCHANGED notEvent

setStatus(t) ==
  LET e == Top(t).o
      s == IF e \in VirtualEvents /\ Top(t).x # Terminated THEN CL_COMPLETE ELSE Top(t).x IN
  /\ At(t, "setStatus")
  /\ IF \/ isStatusCompleted(event[e].status) \/ s = event[e].status
        \/ peekIsBlocked(e) /\ s # Terminated
       THEN Return(t)
       ELSE Run(t, <<DoWith("submitCommand", e, s), Inc(e), DoWith("transition", e, s),
                     DoWith("unblockEventsBlockedByThis", e, s),
                     DoWith("executeCallbacks", e, s), Dec(e)>>)
  /\ UNCHANGED notStack

\* The one that takes the command submits it, and waits until the GPU has
\* executed it, unless it is terminated.
submitCommand(t) ==
  LET e == Top(t).o IN
  /\ At(t, "submitCommand")
  /\ IF event[e].command = "pending"
       THEN /\ event' = [event EXCEPT ![e].command = "taken"]
            /\ Run(t, <<DoWith("submit", e, Top(t).x)>>)
       ELSE UNCHANGED event /\ Return(t)
  /\ UNCHANGED notEvent

Submit(t) ==
  LET e == Top(t).o IN
  /\ At(t, "submit") /\ (Top(t).x = Terminated \/ e \in executed)
  /\ event' = [event EXCEPT ![e].command = "submitted"]
  /\ Return(t)
  /\ UNCHANGED notEvent

transitionExecutionStatus(t) ==
  /\ At(t, "transition")
  /\ event' = [event EXCEPT ![Top(t).o].status = Lowered(@, Top(t).x)]
  /\ Return(t)
  /\ UNCHANGED notEvent

\* The callbacks wait for CL_COMPLETE; each has a reference to its event, which
\* is dropped after the call.
executeCallbacks(t) ==
  LET e == Top(t).o IN
  /\ At(t, "executeCallbacks")
  /\ IF isStatusCompleted(Top(t).x)
       THEN /\ event' = [event EXCEPT ![e].callbacks = 0]
            /\ Run(t, [i \in 1..event[e].callbacks |-> Dec(e)])
       ELSE Return(t) /\ UNCHANGED event
  /\ UNCHANGED notEvent

updateExecutionStatus(t) ==
  LET e == Top(t).o IN
  /\ At(t, "updateExecutionStatus")
  /\ Run(t, CASE e \notin OutputEvents \/ ~event[e].ready -> <<>>
              [] isStatusCompleted(event[e].status) -> <<DoWith("executeCallbacks", e, event[e].status)>>
              [] peekIsBlocked(e) -> <<>>
              [] event[e].status = CL_QUEUED ->
                   <<DoWith("submitCommand", e, CL_SUBMITTED), DoWith("transition", e, CL_SUBMITTED),
                     DoWith("unblockEventsBlockedByThis", e, CL_SUBMITTED), Do("checkTag", e)>>
              [] OTHER -> <<Do("checkTag", e)>>)
  /\ UNCHANGED notStack

CheckTag(t) ==
  LET e == Top(t).o IN
  /\ At(t, "checkTag")
  /\ Run(t, IF e \in executed
              THEN <<DoWith("transition", e, CL_COMPLETE), DoWith("executeCallbacks", e, CL_COMPLETE),
                     DoWith("unblockEventsBlockedByThis", e, CL_COMPLETE)>>
              ELSE <<DoWith("transition", e, CL_SUBMITTED)>>)
  /\ UNCHANGED notStack

\* Mutant: the list of children has no reference of its own
addChild_NoRef(t) ==
  LET e == Top(t).o  c == Top(t).x IN
  /\ At(t, "addChild")
  /\ event' = [event EXCEPT ![c].parentCount = @ + 1]
  /\ Run(t, <<DoWith("pushChild", e, c)>>)
  /\ UNCHANGED notEvent

addChild(t) ==
  LET e == Top(t).o  c == Top(t).x IN
  /\ At(t, "addChild")
  /\ event' = [event EXCEPT ![c].parentCount = @ + 1]
  /\ Run(t, <<Inc(c), DoWith("pushChild", e, c)>>)
  /\ UNCHANGED notEvent

PushChild(t) ==
  LET e == Top(t).o IN
  /\ At(t, "pushChild")
  /\ event' = [event EXCEPT ![e].childEvents = <<Top(t).x>> \o @]
  /\ Run(t, <<Do("addChildCheck", e)>>)
  /\ UNCHANGED notEvent

AddChildCheck(t) ==
  LET e == Top(t).o IN
  /\ At(t, "addChildCheck")
  /\ Run(t, IF event[e].status = CL_COMPLETE
              THEN <<DoWith("unblockEventsBlockedByThis", e, CL_COMPLETE)>> ELSE <<>>)
  /\ UNCHANGED notStack

\* A command that was never submitted is aborted; an event without an outcome is
\* terminated.
DestroyEvent(t) ==
  LET e == Top(t).o IN
  /\ At(t, "~Event")
  /\ event' = [event EXCEPT ![e].command = IF @ = "pending" THEN "submitted" ELSE @,
                            ![e].status = IF isStatusCompleted(@) THEN @ ELSE Terminated]
  /\ Run(t, IF event[e].callbacks > 0 THEN <<DoWith("executeCallbacks", e, event[e].status)>> ELSE <<>>)
  /\ UNCHANGED notEvent

DestroyCommand(t) ==
  LET e == Top(t).o IN
  /\ At(t, "~Command")
  /\ Run(t, IF event[e].command = "submitted" THEN <<Dec(Payload[e])>> ELSE <<>>)
  /\ UNCHANGED notStack

-----------------------------------------------------------------------------
(* Queues *)

\* Under the queue's ownership: a completed virtual event is dropped.
isQueueBlocked(q) ==
  <<Do("takeOwnership", q), Do("checkVirtualEvent", q), Do("releaseOwnership", q)>>

\* Mutant: the pointer is reset without dropping the reference
dropVirtualEvent_Leak(q) == <<Do("resetVirtualEvent", q)>>

dropVirtualEvent(q) == <<Dec(virtualEvent[q]), Do("resetVirtualEvent", q)>>

CheckVirtualEvent(t) ==
  LET q == Top(t).o  v == virtualEvent[q] IN
  /\ At(t, "checkVirtualEvent")
  /\ Run(t, IF v # None /\ isStatusCompleted(event[v].status) THEN dropVirtualEvent(q) ELSE <<>>)
  /\ UNCHANGED notStack

ResetVirtualEvent(t) ==
  /\ At(t, "resetVirtualEvent")
  /\ virtualEvent' = [virtualEvent EXCEPT ![Top(t).o] = None]
  /\ Return(t)
  /\ UNCHANGED <<appVars, objVars, ownVars, event, executed>>

\* clFinish polls the queue, each time under its ownership, until it is not blocked.
finish(q) == <<Do("takeOwnership", q), Do("finishPoll", q), Do("releaseOwnership", q)>>

FinishPoll(t) ==
  LET q == Top(t).o  v == virtualEvent[q] IN
  /\ At(t, "finishPoll")
  /\ Run(t, CASE v = None -> <<>>
              [] v # None /\ isStatusCompleted(event[v].status) -> dropVirtualEvent(q)
              [] OTHER -> <<Do("releaseOwnership", q), Do("takeOwnership", q), Do("finishPoll", q)>>)
  /\ UNCHANGED notStack

DestroyQueue(t) ==
  LET v == virtualEvent[Top(t).o] IN
  /\ At(t, "~CommandQueue")
  /\ Run(t, IF v = None THEN <<>> ELSE <<Dec(v)>>)
  /\ UNCHANGED notStack

\* clReleaseCommandQueue: what looks like the last API reference breaks the cycle
\* of the queue and its virtual event.
releaseVirtualEvent(t) ==
  LET q == Top(t).o IN
  /\ At(t, "releaseVirtualEvent")
  /\ Run(t, IF refApi[q] = 1 /\ virtualEvent[q] # None THEN dropVirtualEvent(q) ELSE <<>>)
  /\ UNCHANGED notStack

\* An enqueue is blocked by the queue's virtual event or by the wait list.
enqueueHandler(c) ==
  (IF c \in OutputEvents THEN constructor(c) ELSE <<>>) \o <<Do("takeOwnership", QueueOf[c])>>
    \o isQueueBlocked(QueueOf[c]) \o <<Do("enqueue", c), Do("releaseOwnership", QueueOf[c])>>

Parents(c) == SelectSeq(<<WaitOn[c]>>, LAMBDA p : p # None)
                \o (IF virtualEvent[QueueOf[c]] \in {None, WaitOn[c]} THEN <<>>
                    ELSE <<virtualEvent[QueueOf[c]]>>)
ForEach(seq, name(_)) == FoldLeft(LAMBDA ops, p : ops \o <<name(p)>>, <<>>, seq)

enqueueBlocked(c) ==
  LET q == QueueOf[c]
      AddParent(p) == DoWith("addParent", p, c) IN
  <<Do("takeOwnership", q)>> \o (IF c \in OutputEvents THEN <<Inc(c)>> ELSE constructor(c))
    \o <<Inc(Payload[c]), Do("setCommand", c)>>
    \o ForEach(Parents(c), Inc)
    \o <<Do("sentinel", c), Inc(c)>> \o ForEach(Parents(c), AddParent)
    \o <<DoWith("unblockEventBy", c, CL_COMPLETE), Dec(c)>>
    \o ForEach(Parents(c), Dec)
    \o (IF virtualEvent[q] = None THEN <<>> ELSE <<Dec(virtualEvent[q])>>)
    \o <<Do("setVirtualEvent", c), Do("releaseOwnership", q)>>

Enqueue(t) ==
  LET c == Top(t).o  w == WaitOn[c] IN
  /\ At(t, "enqueue")
  /\ IF virtualEvent[QueueOf[c]] # None \/ (w # None /\ ~event[w].ready)
       THEN Run(t, enqueueBlocked(c)) /\ UNCHANGED event
       ELSE /\ event' = [event EXCEPT ![c].command = "flushed", ![c].ready = TRUE]
            /\ Return(t)
  /\ UNCHANGED notEvent

\* The sentinel user event is a first parent while the others are added.
Sentinel(t) ==
  /\ At(t, "sentinel")
  /\ event' = [event EXCEPT ![Top(t).o].parentCount = @ + 1]
  /\ Return(t)
  /\ UNCHANGED notEvent

SetCommand(t) ==
  /\ At(t, "setCommand")
  /\ event' = [event EXCEPT ![Top(t).o].command = "pending"]
  /\ Return(t)
  /\ UNCHANGED notEvent

\* A parent that is not blocked and has submitted its command needs no child.
AddParent(t) ==
  LET p == Top(t).o IN
  /\ At(t, "addParent")
  /\ Run(t, IF \/ peekIsBlocked(p) \/ ~event[p].ready
               \/ event[p].command \in {"pending", "taken"}
              THEN <<DoWith("addChild", p, Top(t).x)>> ELSE <<>>)
  /\ UNCHANGED notStack

SetVirtualEvent(t) ==
  /\ At(t, "setVirtualEvent")
  /\ virtualEvent' = [virtualEvent EXCEPT ![QueueOf[Top(t).o]] = Top(t).o]
  /\ Return(t)
  /\ UNCHANGED <<appVars, objVars, ownVars, event, executed>>

-----------------------------------------------------------------------------
(* Callbacks and the handler of events with callbacks *)

addCallback(e) ==
  <<Inc(e), Inc(e), Do("pushCallback", e), Do("updateExecutionStatus", e),
    Do("addCallbackCheck", e), Do("registerEvent", e), Dec(e)>>

PushCallback(t) ==
  /\ At(t, "pushCallback")
  /\ event' = [event EXCEPT ![Top(t).o].callbacks = @ + 1]
  /\ Return(t)
  /\ UNCHANGED notEvent

AddCallbackCheck(t) ==
  LET e == Top(t).o IN
  /\ At(t, "addCallbackCheck")
  /\ Run(t, IF isStatusCompleted(event[e].status) THEN <<DoWith("executeCallbacks", e, event[e].status)>> ELSE <<>>)
  /\ UNCHANGED notStack

registerEvent(t) ==
  LET e == Top(t).o IN
  /\ At(t, "registerEvent")
  /\ Run(t, IF event[e].callbacks > 0 /\ e \notin UserEvents
              THEN <<Inc(e), Do("pushRegistered", e)>> ELSE <<>>)
  /\ UNCHANGED notStack

PushRegistered(t) ==
  /\ At(t, "pushRegistered")
  /\ event' = [event EXCEPT ![Top(t).o].asyncList = @ + 1]
  /\ Return(t)
  /\ UNCHANGED notEvent

processList(e) ==
  LET t == AsyncHandler IN
  /\ stack[t] = <<>> /\ event[e].asyncList > 0
  /\ stack' = [stack EXCEPT ![t] = <<Do("updateExecutionStatus", e), Do("keepOrDrop", e)>>]
  /\ UNCHANGED notStack

KeepOrDrop(t) ==
  LET e == Top(t).o IN
  /\ At(t, "keepOrDrop")
  /\ IF event[e].callbacks > 0 THEN Return(t) /\ UNCHANGED event
     ELSE event' = [event EXCEPT ![e].asyncList = @ - 1] /\ Run(t, <<Dec(e)>>)
  /\ UNCHANGED notEvent

GpuComplete(c) ==
  /\ event[c].command \in {"taken", "flushed"} /\ c \notin executed
  /\ \A t \in Actors : At(t, "submit") /\ Top(t).o = c => Top(t).x # Terminated
  /\ executed' = executed \cup {c}
  /\ UNCHANGED <<appVars, objVars, stack, ownVars, event, virtualEvent>>

-----------------------------------------------------------------------------
(* The application *)

ApiCall(c) ==
  CASE c.op = "create" -> constructor(c.on)
    [] c.op = "retain" -> retain(c.on)
    [] c.op = "release" -> (IF c.on \in Queues THEN <<Do("releaseVirtualEvent", c.on)>> ELSE <<>>)
                              \o release(c.on)
    [] c.op = "enqueue" -> enqueueHandler(c.on)
    [] c.op = "setUserEventStatus" -> <<DoWith("setStatus", c.on, CL_COMPLETE)>>
    [] c.op = "terminateUserEvent" -> <<DoWith("setStatus", c.on, Terminated)>>
    [] c.op = "addCallback" -> addCallback(c.on)
    [] c.op = "getEventInfo" -> <<Do("updateExecutionStatus", c.on)>>
    [] c.op = "finish" -> finish(c.on)

\* An application does not give up its last reference to what another of its
\* threads is using or going to use.
NotUsedByOthers(t, o) ==
  \A u \in Threads \ {t} :
    /\ current[u] # None /\ current[u].op # "release" => o \notin Uses(current[u])
    /\ \A i \in DOMAIN script[u] :
         \A c \in script[u][i] : c.op # "release" => o \notin Uses(c)

MayCall(t, c) ==
  /\ \A o \in Uses(c) : held[o] > 0
  /\ c.op = "release" => held[c.on] > 1 \/ NotUsedByOthers(t, c.on)

\* A thread makes the calls of one set of its script, in any order, before those
\* of the next.
Begin(t) ==
  /\ stack[t] = <<>> /\ current[t] = None /\ script[t] # <<>>
  /\ \E c \in Head(script[t]) :
       /\ MayCall(t, c)
       /\ current' = [current EXCEPT ![t] = c]
       /\ script' = [script EXCEPT ![t] =
                       LET rest == Head(@) \ {c}
                       IN IF rest = {} THEN Tail(@) ELSE <<rest>> \o Tail(@)]
       /\ held' = IF c.op = "release" THEN [held EXCEPT ![c.on] = @ - 1] ELSE held
       /\ stack' = [stack EXCEPT ![t] = ApiCall(c)]
  /\ UNCHANGED <<objVars, ownVars, event, virtualEvent, executed>>

End(t) ==
  /\ stack[t] = <<>> /\ current[t] # None
  /\ held' = IF \/ current[t].op \in {"create", "retain"}
                \/ current[t].op = "enqueue" /\ current[t].on \in OutputEvents
               THEN [held EXCEPT ![current[t].on] = @ + 1] ELSE held
  /\ current' = [current EXCEPT ![t] = None]
  /\ UNCHANGED <<script, objVars, stack, ownVars, event, virtualEvent, executed>>

Step(t) ==
  \/ incRefInternal(t) \/ incRefApi(t) \/ decRefApi(t) \/ decRefInternal(t)
  \/ BaseObject(t) \/ Free(t)
  \/ takeOwnership(t) \/ ownershipWait(t) \/ releaseOwnership(t)
  \/ unblockEventsBlockedByThis(t) \/ UnblockInDestructor(t) \/ unblockEventBy(t)
  \/ setStatus(t) \/ submitCommand(t) \/ Submit(t) \/ transitionExecutionStatus(t) \/ executeCallbacks(t)
  \/ updateExecutionStatus(t) \/ CheckTag(t) \/ addChild(t) \/ PushChild(t) \/ AddChildCheck(t)
  \/ DestroyEvent(t) \/ DestroyCommand(t)
  \/ CheckVirtualEvent(t) \/ ResetVirtualEvent(t) \/ FinishPoll(t) \/ DestroyQueue(t)
  \/ releaseVirtualEvent(t) \/ Enqueue(t) \/ Sentinel(t) \/ SetCommand(t) \/ AddParent(t)
  \/ SetVirtualEvent(t) \/ PushCallback(t) \/ AddCallbackCheck(t) \/ registerEvent(t)
  \/ PushRegistered(t) \/ KeepOrDrop(t)

AllReturned == \A t \in Threads : script[t] = <<>> /\ current[t] = None
Idle == AllReturned /\ stack[AsyncHandler] = <<>> /\ \A e \in Events : event[e].asyncList = 0
Stopped == Idle /\ UNCHANGED vars

Next ==
  \/ \E t \in Actors : Step(t) \/ SpuriousWake(t)
  \/ \E t \in Threads : Begin(t) \/ End(t)
  \/ \E e \in Events : processList(e)
  \/ \E c \in Commands : GpuComplete(c)
  \/ Stopped

Spec == Init /\ [][Next]_vars

FairSpec ==
  /\ Spec
  /\ \A t \in Threads : WF_vars(Step(t) \/ Begin(t) \/ End(t))
  /\ WF_vars(Step(AsyncHandler) \/ \E e \in Events : processList(e))
  /\ \A c \in Commands : WF_vars(GpuComplete(c))

-----------------------------------------------------------------------------
(* Properties *)

\* The objects that an operation dereferences.
Touched(op) ==
  CASE op.op \in {"addChild", "pushChild", "addParent"} -> {op.o, op.x}
    [] op.op \in {"submit", "~Command"} /\ op.o \in Commands ->
         IF event[op.o].command \in {"taken", "submitted"} THEN {op.o, Payload[op.o], QueueOf[op.o]} ELSE {op.o}
    [] op.op = "enqueue" -> {QueueOf[op.o], Payload[op.o]} \cup ({WaitOn[op.o]} \ {None})
    [] op.op = "setVirtualEvent" -> {op.o, QueueOf[op.o]}
    [] op.op = "BaseObject" -> {}
    [] OTHER -> {op.o}

\* No thread, the handler's included, touches an object after its destructor has
\* ended, nor takes or drops a reference to one whose last reference is gone
\* (reference_tracked_object.h, decRefInternal); what the application, a list of
\* children, a command or the handler refers to is alive.
NoUseAfterDelete ==
  /\ \A t \in Actors : stack[t] # <<>> =>
       /\ \A o \in Touched(Top(t)) : life[o] \in {"alive", "dying"}
       /\ Top(t).op \in {"incRefInternal", "decRefInternal"} => refInternal[Top(t).o] > 0
  /\ \A o \in Objects : held[o] > 0 => life[o] = "alive" /\ refApi[o] >= held[o]
  /\ \A e \in Events :
       /\ event[e].asyncList > 0 => life[e] = "alive"
       /\ \A i \in DOMAIN event[e].childEvents : life[event[e].childEvents[i]] = "alive"
  /\ \A c \in Commands :
       event[c].command \in {"pending", "taken", "submitted"} /\ life[c] = "alive" => life[Payload[c]] = "alive"

\* Once the application has given everything back and every thread is done, no
\* object is left: neither a cycle nor a forgotten reference keeps one alive
\* (queue_helpers.h, releaseVirtualEvent).
NothingLeaks ==
  Idle /\ (\A o \in Objects : Holds[o] # <<>> => held[o] = 0)
    => \A o \in Objects : refInternal[o] = held[o]

\* Every call returns: the waits for a queue's ownership end, and so does
\* clFinish, when the user events are set; and the handler is left without events.
CallsReturn == <>[]Idle
=============================================================================
