-------------------------- MODULE TimestampPackets --------------------------
(***************************************************************************)
(* Timestamp packets and the TagAllocator that supplies them               *)
(* (tag_allocator.h, timestamp_packet.h, csr_deps.cpp and their callers in *)
(* enqueue_common.h, command_queue.cpp, task_information.cpp, event.cpp).  *)
(*                                                                         *)
(* A kernel is given a tag which the GPU overwrites when the kernel ends.  *)
(* Later commands, also those of other command stream receivers, wait for  *)
(* that write with a semaphore on the GPU and then decrement the tag's     *)
(* implicitDependenciesCount.  Queues, events and blocked commands hold    *)
(* counted references to tags.  A tag whose count reaches zero goes back   *)
(* to the pool, or to the deferred list while the GPU may still use it.    *)
(*                                                                         *)
(* Each command takes one tag: with more, the loop of getTag is repeated.  *)
(* When a blocked command may be submitted is the subject of EventTree;    *)
(* here it is submitted after the commands that it waits for.              *)
(***************************************************************************)
EXTENDS Integers, Sequences, FiniteSets, SequencesExt, Functions

CONSTANTS Threads, Csrs, Queues, Commands,
          CsrOf,          \* the command stream receiver of a queue
          OutOfOrder,     \* queues with CL_QUEUE_OUT_OF_ORDER_EXEC_MODE_ENABLE
          QueueOf,
          WaitList,       \* the commands whose events a command waits for
          Markers,        \* commands without a kernel
          OutputEvents,   \* commands whose event the application gets
          OnUserEvent,    \* commands that also wait for a user event
          TagMemory,      \* the tags of a receiver, in the order of their addresses
          TagCount,       \* tags in one pool
          Scenarios,      \* functions from threads to the calls that they make
          None

Tags == UNION {Range(TagMemory[r]) : r \in Csrs}
Kernels == Commands \ Markers
Calls == ({"enqueue", "submit", "abort", "release"} \X Commands) \cup ({"releaseQueue"} \X Queues)
\* Everything that has a TimestampPacketContainer: the queues, and for a command
\* its event, its current and its previous nodes while it is blocked, and the
\* previous nodes on the stack of enqueueHandler.
Holders == Queues \cup ({"event", "current", "previous", "stack"} \X Commands)

\* A command stands for one call: its identity is never used again.
EnqueuedOnce(s) ==
  \A t, u \in Threads : \A i \in DOMAIN s[t], j \in DOMAIN s[u] :
    s[t][i] = s[u][j] /\ s[t][i][1] = "enqueue" => t = u /\ i = j

ASSUME PacketsAssumption ==
  /\ IsFiniteSet(Threads) /\ IsFiniteSet(Csrs) /\ IsFiniteSet(Queues) /\ IsFiniteSet(Commands)
  /\ Queues \cap ({"event", "current", "previous", "stack"} \X Commands) = {}
  /\ CsrOf \in [Queues -> Csrs] /\ OutOfOrder \subseteq Queues /\ QueueOf \in [Commands -> Queues]
  /\ Markers \subseteq Commands /\ OnUserEvent \subseteq Commands /\ OutputEvents \subseteq Commands
  /\ WaitList \in [Commands -> SUBSET OutputEvents]
  /\ \A r, s \in Csrs : r # s => Range(TagMemory[r]) \cap Range(TagMemory[s]) = {}
  /\ \A r \in Csrs : TagMemory[r] \in Seq(Tags) /\ IsInjective(TagMemory[r])
  /\ TagCount \in Nat \ {0} /\ \A r \in Csrs : TagCount <= Len(TagMemory[r])
  /\ \A s \in Scenarios : s \in [Threads -> Seq(Calls)] /\ EnqueuedOnce(s)
  /\ None \notin Threads \cup Tags \cup Commands

VARIABLES freeTags, usedTags, deferredTags,  \* the lists of each allocator
          populated,   \* tags that an allocator has created so far
          refCount, packet,
          nodes,       \* the tags in a container
          stream,      \* what the GPU has still to execute of a receiver's stream
          dispatched,  \* a command's own part of it, written when it is enqueued
          status,      \* new, blocked, submitted, executed, aborted; marked for markers
          eventRefs,   \* references to the event of a command
          virtualEvent,  \* the last blocked command of a queue, or None
          csrOwner,    \* the thread that has the ownership of a receiver
          calls,       \* the calls that a thread has still to make
          thread,      \* what a thread is doing, see ThreadState
          \* History: the command that a tag was last taken for, the commands that
          \* a command has to follow, and the last kernel of a queue.
          tagOf, after, latest

tagVars == <<freeTags, usedTags, deferredTags, populated, refCount, packet, tagOf>>
cmdVars == <<stream, dispatched, status, eventRefs, virtualEvent>>
history == <<after, latest>>
vars == <<tagVars, nodes, cmdVars, csrOwner, calls, thread, history>>

\* The steps of enqueueHandler, those before the command is dispatched first.
Early == {"resolve", "getTag", "detach", "sort", "splice", "remove", "use", "dispatch"}
Enqueuing == Early \cup {"block", "flush"}

\* toDrop: events to which a reference is to be dropped.  toReturn: tags on which
\* returnTag is to be called after that.  place: the list for
\* the tag whose count it has brought to zero.  detached: the deferred tags taken
\* by releaseDeferredTags, with those already sorted into ready and pending.
ThreadState == [pc : Enqueuing \cup {"idle", "wait"}, cmd : Commands \cup {None}, blocked : BOOLEAN,
                toResolve : Seq(Tags), toDrop : Seq(Commands), toReturn : Seq(Tags),
                place : {"none", "free", "deferred"}, node : Tags \cup {None},
                detached : Seq(Tags), ready : Seq(Tags), pending : Seq(Tags)]
Idle == [pc |-> "idle", cmd |-> None, blocked |-> FALSE, toResolve |-> <<>>, toDrop |-> <<>>, toReturn |-> <<>>,
         place |-> "none", node |-> None, detached |-> <<>>, ready |-> <<>>, pending |-> <<>>]

Init ==
  /\ freeTags = [r \in Csrs |-> SubSeq(TagMemory[r], 1, TagCount)]
  /\ usedTags = [r \in Csrs |-> {}] /\ deferredTags = [r \in Csrs |-> <<>>]
  /\ populated = [r \in Csrs |-> TagCount]
  /\ refCount = [n \in Tags |-> 0]
  /\ packet = [n \in Tags |-> [ended |-> FALSE, implicitDependenciesCount |-> 0]]
  /\ nodes = [h \in Holders |-> <<>>]
  /\ stream = [r \in Csrs |-> <<>>] /\ dispatched = [c \in Commands |-> <<>>]
  /\ status = [c \in Commands |-> "new"] /\ eventRefs = [c \in Commands |-> 0]
  /\ virtualEvent = [q \in Queues |-> None]
  /\ csrOwner = [r \in Csrs |-> None]
  /\ calls \in Scenarios /\ thread = [t \in Threads |-> Idle]
  /\ tagOf = [n \in Tags |-> None]
  /\ after = [c \in Commands |-> {}] /\ latest = [q \in Queues |-> {}]

-----------------------------------------------------------------------------
(* Helpers *)

Csr(c) == CsrOf[QueueOf[c]]
Occurrences(n, s) == Cardinality({i \in DOMAIN s : s[i] = n})
AddRefs(s) == refCount' = [n \in Tags |-> refCount[n] + Occurrences(n, s)]

canBeReleased_WrittenIsEnough(n) == packet[n].ended
\* The GPU writes ContextEnd and GlobalEnd at once: a post-sync operation writes
\* a quad word, and the two are adjacent.
canBeReleased(n) == packet[n].ended /\ packet[n].implicitDependenciesCount = 0

\* The thread goes on at pc with the given changes.
Goto(t, pc) == thread' = [thread EXCEPT ![t].pc = pc]
At(t, pc) == thread[t].pc = pc /\ thread[t].toDrop = <<>> /\ thread[t].toReturn = <<>>

\* CsrDependencies: the containers of the events in the wait list that belong to
\* the receiver of c (OnCsr), or to another one (OutOfCsr).  Their order, which is that
\* of the wait list in the code, does not matter.
EventNodes(cs) ==
  LET entries == SetToSeq(UNION {{w} \X DOMAIN nodes[<<"event", w>>] : w \in cs})
  IN [k \in DOMAIN entries |-> nodes[<<"event", entries[k][1]>>][entries[k][2]]]
OnCsr(c) == EventNodes({w \in WaitList[c] : Csr(w) = Csr(c)})
OutOfCsr(c) == EventNodes({w \in WaitList[c] : Csr(w) # Csr(c)})

\* A semaphore and a decrement for every node; "for" is the command that the
\* node belongs to, and "by" the one that waits.
programCsrDependencies(c, s) ==
  [k \in 1 .. 2 * Len(s) |->
     LET n == s[(k + 1) \div 2]
     IN [op |-> IF k % 2 = 1 THEN "wait" ELSE "decrement", tag |-> n, for |-> tagOf[n], by |-> c]]
\* The same loop adds to implicitDependenciesCount.
incImplicitDependenciesCount(s) ==
  packet' = [n \in Tags |-> [packet[n] EXCEPT !.implicitDependenciesCount = @ + Occurrences(n, s)]]
setupTimestampPacket(c, s) ==
  [i \in DOMAIN s |-> [op |-> "write", tag |-> s[i], for |-> c, by |-> c]]

-----------------------------------------------------------------------------
(* TagAllocator::returnTag *)

\* The reference is dropped; the last one decides where the tag goes.
returnTag(t) ==
  LET n == Head(thread[t].toReturn) IN
  /\ thread[t].toDrop = <<>> /\ thread[t].toReturn # <<>> /\ thread[t].place = "none"
  /\ refCount' = [refCount EXCEPT ![n] = @ - 1]
  /\ thread' = IF refCount[n] # 1 THEN [thread EXCEPT ![t].toReturn = Tail(@)]
               ELSE [thread EXCEPT ![t].place = IF canBeReleased(n) THEN "free" ELSE "deferred"]
  /\ UNCHANGED <<freeTags, usedTags, deferredTags, populated, packet, tagOf, nodes, cmdVars, csrOwner, calls, history>>

TagCsr(n) == CHOOSE r \in Csrs : n \in Range(TagMemory[r])

returnTagToFreePool(t) ==
  LET n == Head(thread[t].toReturn)
      r == TagCsr(n) IN
  /\ thread[t].place = "free"
  /\ usedTags' = [usedTags EXCEPT ![r] = @ \ {n}]
  /\ freeTags' = [freeTags EXCEPT ![r] = <<n>> \o @]
  /\ thread' = [thread EXCEPT ![t].place = "none", ![t].toReturn = Tail(@)]
  /\ UNCHANGED <<deferredTags, populated, refCount, packet, tagOf, nodes, cmdVars, csrOwner, calls, history>>

returnTagToDeferredPool(t) ==
  LET n == Head(thread[t].toReturn)
      r == TagCsr(n) IN
  /\ thread[t].place = "deferred"
  /\ usedTags' = [usedTags EXCEPT ![r] = @ \ {n}]
  /\ deferredTags' = [deferredTags EXCEPT ![r] = <<n>> \o @]
  /\ thread' = [thread EXCEPT ![t].place = "none", ![t].toReturn = Tail(@)]
  /\ UNCHANGED <<freeTags, populated, refCount, packet, tagOf, nodes, cmdVars, csrOwner, calls, history>>

-----------------------------------------------------------------------------
(* TagAllocator::getTag, with the ownership of the receiver *)

allocatorOf(t) == Csr(thread[t].cmd)
notLists == <<refCount, packet, tagOf, nodes, cmdVars, csrOwner, calls>>

GetTag(t) ==
  /\ At(t, "getTag")
  /\ Goto(t, IF freeTags[allocatorOf(t)] = <<>> THEN "detach" ELSE "remove")
  /\ UNCHANGED <<tagVars, nodes, cmdVars, csrOwner, calls, history>>

\* releaseDeferredTags: the list is detached, its tags are examined one by one,
\* and both parts are spliced back to the ends of their lists.
DetachDeferred(t) ==
  LET r == allocatorOf(t) IN
  /\ At(t, "detach")
  /\ thread' = [thread EXCEPT ![t].pc = "sort", ![t].detached = deferredTags[r]]
  /\ deferredTags' = [deferredTags EXCEPT ![r] = <<>>]
  /\ UNCHANGED <<freeTags, usedTags, populated, notLists, history>>

SortDeferred(t) ==
  LET n == Head(thread[t].detached) IN
  /\ At(t, "sort") /\ thread[t].detached # <<>>
  /\ thread' = IF canBeReleased(n)
               THEN [thread EXCEPT ![t].detached = Tail(@), ![t].ready = <<n>> \o @]
               ELSE [thread EXCEPT ![t].detached = Tail(@), ![t].pending = <<n>> \o @]
  /\ UNCHANGED <<tagVars, nodes, cmdVars, csrOwner, calls, history>>

SpliceReady(t) ==
  LET r == allocatorOf(t) IN
  /\ At(t, "sort") /\ thread[t].detached = <<>>
  /\ freeTags' = [freeTags EXCEPT ![r] = @ \o thread[t].ready]
  /\ thread' = [thread EXCEPT ![t].pc = "splice", ![t].ready = <<>>]
  /\ UNCHANGED <<usedTags, deferredTags, populated, notLists, history>>

\* The list as it was found replaces what other threads have deferred since.
SplicePending_Overwrite(t) ==
  LET r == allocatorOf(t) IN
  /\ At(t, "splice")
  /\ deferredTags' = [deferredTags EXCEPT ![r] = thread[t].pending]
  /\ thread' = [thread EXCEPT ![t].pc = "remove", ![t].pending = <<>>]
  /\ UNCHANGED <<freeTags, usedTags, populated, notLists, history>>

SplicePending(t) ==
  LET r == allocatorOf(t) IN
  /\ At(t, "splice")
  /\ deferredTags' = [deferredTags EXCEPT ![r] = @ \o thread[t].pending]
  /\ thread' = [thread EXCEPT ![t].pc = "remove", ![t].pending = <<>>]
  /\ UNCHANGED <<freeTags, usedTags, populated, notLists, history>>

RemoveFree(t) ==
  LET r == allocatorOf(t) IN
  /\ At(t, "remove") /\ freeTags[r] # <<>>
  /\ freeTags' = [freeTags EXCEPT ![r] = Tail(@)]
  /\ thread' = [thread EXCEPT ![t].pc = "use", ![t].node = Head(freeTags[r])]
  /\ UNCHANGED <<usedTags, deferredTags, populated, notLists, history>>

\* TagMemory bounds the pools that are created.
populateFreeTags(t) ==
  LET r == allocatorOf(t) IN
  /\ At(t, "remove") /\ freeTags[r] = <<>>
  /\ populated[r] + TagCount <= Len(TagMemory[r])
  /\ freeTags' = [freeTags EXCEPT ![r] = SubSeq(TagMemory[r], populated[r] + 1, populated[r] + TagCount)]
  /\ populated' = [populated EXCEPT ![r] = @ + TagCount]
  /\ UNCHANGED <<usedTags, deferredTags, notLists, thread, history>>

\* The tag is counted, initialised and added to the container of the queue.
UseTag(t) ==
  LET c == thread[t].cmd
      n == thread[t].node IN
  /\ At(t, "use")
  /\ usedTags' = [usedTags EXCEPT ![Csr(c)] = @ \cup {n}]
  /\ refCount' = [refCount EXCEPT ![n] = @ + 1]
  /\ packet' = [packet EXCEPT ![n] = [ended |-> FALSE, implicitDependenciesCount |-> 0]]
  /\ tagOf' = [tagOf EXCEPT ![n] = c]
  /\ nodes' = [nodes EXCEPT ![QueueOf[c]] = Append(@, n)]
  /\ thread' = [thread EXCEPT ![t].pc = "dispatch", ![t].node = None]
  /\ UNCHANGED <<freeTags, deferredTags, populated, cmdVars, csrOwner, calls, history>>

-----------------------------------------------------------------------------
(* CommandQueueHw::enqueueHandler *)

NextCall(t, op, x) ==
  /\ thread[t] = Idle /\ calls[t] # <<>> /\ Head(calls[t]) = <<op, x>>
  /\ calls' = [calls EXCEPT ![t] = Tail(@)]

\* The application passes events that it has a reference to.
EventsAlive(c) == \A w \in WaitList[c] : eventRefs[w] > 0

\* A command is blocked by a user event and by blocked commands: those in its
\* wait list and the last one of its queue.
isBlocked(c) ==
  \/ c \in OnUserEvent
  \/ \E w \in WaitList[c] : status[w] = "blocked"
  \/ virtualEvent[QueueOf[c]] # None /\ status[virtualEvent[QueueOf[c]]] = "blocked"

VirtualEventOf(q) == IF virtualEvent[q] = None THEN <<>> ELSE <<virtualEvent[q]>>
\* isQueueBlocked drops a virtual event that is complete.
isQueueBlocked(q) ==
  IF virtualEvent[q] # None /\ status[virtualEvent[q]] = "blocked" THEN <<>> ELSE VirtualEventOf(q)
AfterPoll(q) == virtualEvent' = [virtualEvent EXCEPT ![q] = IF isQueueBlocked(q) = <<>> THEN @ ELSE None]

\* A command follows those of its wait list and the last kernel of its in-order queue.
\* A marker stands for those that it follows where it is waited for; as it takes no tag,
\* it passes none of them on to the later kernels of its queue.
Follow(c) ==
  LET q == QueueOf[c]
      stands == [w \in Commands |-> IF w \in Markers THEN after[w] ELSE {w}]
      before == UNION {stands[w] : w \in WaitList[c] \cup IF q \in OutOfOrder THEN {} ELSE latest[q]} IN
  /\ after' = [after EXCEPT ![c] = {w \in before : status[w] # "aborted"}]
  /\ latest' = [latest EXCEPT ![q] = IF c \in Kernels THEN {c} ELSE @]

\* obtainNewTimestampPacketNodes: what the queue held becomes the previous nodes.
EnqueueKernel(t, c) ==
  LET q == QueueOf[c] IN
  /\ NextCall(t, "enqueue", c) /\ c \in Kernels
  /\ csrOwner[CsrOf[q]] = None /\ EventsAlive(c)
  /\ csrOwner' = [csrOwner EXCEPT ![CsrOf[q]] = t]
  /\ nodes' = [nodes EXCEPT ![<<"stack", c>>] = nodes[q], ![q] = <<>>]
  /\ thread' = [thread EXCEPT ![t] = [Idle EXCEPT !.pc = "resolve", !.cmd = c,
                                                  !.blocked = isBlocked(c), !.toResolve = nodes[q],
                                                  !.toDrop = isQueueBlocked(q)]]
  /\ AfterPoll(q) /\ Follow(c)
  /\ UNCHANGED <<tagVars, stream, dispatched, status, eventRefs>>

\* A command without a kernel takes no tag: its event inherits those of the queue and
\* of the wait list.
EnqueueWithoutKernel(t, c) ==
  LET inherited == nodes[QueueOf[c]] \o EventNodes(WaitList[c]) IN
  /\ NextCall(t, "enqueue", c) /\ c \in Markers
  /\ csrOwner[Csr(c)] = None /\ EventsAlive(c)
  /\ IF c \in OutputEvents
     THEN nodes' = [nodes EXCEPT ![<<"event", c>>] = inherited] /\ AddRefs(inherited)
     ELSE UNCHANGED <<nodes, refCount>>
  /\ Follow(c)
  /\ UNCHANGED <<freeTags, usedTags, deferredTags, populated, packet, tagOf, stream, dispatched, csrOwner>>

\* It is not submitted, unless it is blocked.
EnqueueMarker(t, c) ==
  /\ EnqueueWithoutKernel(t, c) /\ ~isBlocked(c)
  /\ status' = [status EXCEPT ![c] = "marked"]
  /\ eventRefs' = [eventRefs EXCEPT ![c] = IF c \in OutputEvents THEN 1 ELSE 0]
  /\ thread' = [thread EXCEPT ![t].toDrop = isQueueBlocked(QueueOf[c])]
  /\ AfterPoll(QueueOf[c])

\* enqueueBlocked makes it a CommandMarker, which has neither nodes nor a wait list, and
\* its event that of the queue.  The queue's old event goes, by the poll or by now.
EnqueueBlockedMarker(t, c) ==
  /\ EnqueueWithoutKernel(t, c) /\ isBlocked(c)
  /\ status' = [status EXCEPT ![c] = "blocked"]
  /\ eventRefs' = [eventRefs EXCEPT ![c] = IF c \in OutputEvents THEN 3 ELSE 2]
  /\ thread' = [thread EXCEPT ![t].toDrop = VirtualEventOf(QueueOf[c])]
  /\ virtualEvent' = [virtualEvent EXCEPT ![QueueOf[c]] = c]

\* resolveDependencies: previous nodes are dropped when they are done, or all of
\* them for an out-of-order queue.  The container holds those that stay and those
\* that the loop has still to examine.
ResolveDependency(t) ==
  LET c == thread[t].cmd
      n == Head(thread[t].toResolve) IN
  /\ At(t, "resolve") /\ thread[t].toResolve # <<>>
  /\ IF canBeReleased(n) \/ QueueOf[c] \in OutOfOrder
     THEN /\ nodes' = [nodes EXCEPT ![<<"stack", c>>] = RemoveAt(@, Len(@) - Len(thread[t].toResolve) + 1)]
          /\ thread' = [thread EXCEPT ![t].toResolve = Tail(@), ![t].toReturn = <<n>>]
     ELSE /\ thread' = [thread EXCEPT ![t].toResolve = Tail(@)]
          /\ UNCHANGED nodes
  /\ UNCHANGED <<tagVars, cmdVars, csrOwner, calls, history>>

DependenciesResolved(t) ==
  /\ At(t, "resolve") /\ thread[t].toResolve = <<>>
  /\ Goto(t, "getTag")
  /\ UNCHANGED <<tagVars, nodes, cmdVars, csrOwner, calls, history>>

\* The queue's new tags are passed in the place of the previous ones.
Dispatch_CurrentNodes(t) ==
  LET c == thread[t].cmd
      own == nodes[QueueOf[c]]
      waits == OnCsr(c) \o own IN
  /\ At(t, "dispatch")
  /\ IF c \in OutputEvents
     THEN /\ nodes' = [nodes EXCEPT ![<<"event", c>>] = own]
          /\ AddRefs(own)
          /\ eventRefs' = [eventRefs EXCEPT ![c] = 1]
     ELSE UNCHANGED <<nodes, refCount, eventRefs>>
  /\ dispatched' = [dispatched EXCEPT ![c] = programCsrDependencies(c, waits) \o setupTimestampPacket(c, own)]
  /\ incImplicitDependenciesCount(waits)
  /\ Goto(t, IF thread[t].blocked THEN "block" ELSE "flush")
  /\ UNCHANGED <<freeTags, usedTags, deferredTags, populated, tagOf, stream, status, virtualEvent, csrOwner, calls, history>>

\* processDispatchForKernels: the event shares the tag, and the semaphores and
\* the walker are written to the command stream.
Dispatch(t) ==
  LET c == thread[t].cmd
      own == nodes[QueueOf[c]]
      waits == OnCsr(c) \o nodes[<<"stack", c>>] IN
  /\ At(t, "dispatch")
  /\ IF c \in OutputEvents
     THEN /\ nodes' = [nodes EXCEPT ![<<"event", c>>] = own]
          /\ AddRefs(own)
          /\ eventRefs' = [eventRefs EXCEPT ![c] = 1]
     ELSE UNCHANGED <<nodes, refCount, eventRefs>>
  /\ dispatched' = [dispatched EXCEPT ![c] = programCsrDependencies(c, waits) \o setupTimestampPacket(c, own)]
  /\ incImplicitDependenciesCount(waits)
  /\ Goto(t, IF thread[t].blocked THEN "block" ELSE "flush")
  /\ UNCHANGED <<freeTags, usedTags, deferredTags, populated, tagOf, stream, status, virtualEvent, csrOwner, calls, history>>

\* The dependencies on other receivers are left to the caller.
flushTask_OnCsrOnly(c) ==
  /\ stream' = [stream EXCEPT ![Csr(c)] = @ \o dispatched[c]]
  /\ status' = [status EXCEPT ![c] = "submitted"]
  /\ UNCHANGED packet

\* flushTask puts the semaphores for other receivers in front of the command.
flushTask(c) ==
  /\ stream' = [stream EXCEPT ![Csr(c)] = @ \o programCsrDependencies(c, OutOfCsr(c)) \o dispatched[c]]
  /\ incImplicitDependenciesCount(OutOfCsr(c))
  /\ status' = [status EXCEPT ![c] = "submitted"]

\* The ownerships are released, then the previous nodes go out of scope.
EnqueueReturn(t, dropped) ==
  LET c == thread[t].cmd IN
  /\ csrOwner' = [csrOwner EXCEPT ![Csr(c)] = None]
  /\ thread' = [thread EXCEPT ![t] = [Idle EXCEPT !.toReturn = nodes[<<"stack", c>>], !.toDrop = dropped]]

EnqueueNonBlocked(t) ==
  LET c == thread[t].cmd IN
  /\ At(t, "flush")
  /\ flushTask(c)
  /\ nodes' = [nodes EXCEPT ![<<"stack", c>>] = <<>>]
  /\ EnqueueReturn(t, <<>>)
  /\ UNCHANGED <<freeTags, usedTags, deferredTags, populated, refCount, tagOf, dispatched, eventRefs, virtualEvent, calls, history>>

\* enqueueBlocked: the command keeps its tags (setTimestampPacketNode) and the
\* events of its wait list.  Its event, a VirtualEvent if the application gets none,
\* replaces that of the queue, and is a child of those it waits for.
EnqueueBlocked(t) ==
  LET c == thread[t].cmd
      own == nodes[QueueOf[c]]
      previous == nodes[<<"stack", c>>] IN
  /\ At(t, "block")
  /\ nodes' = [nodes EXCEPT ![<<"current", c>>] = own, ![<<"previous", c>>] = previous, ![<<"stack", c>>] = <<>>]
  /\ AddRefs(own \o previous)
  /\ eventRefs' = [w \in Commands |->
                     eventRefs[w] + IF w = c THEN 2 ELSE IF w \in WaitList[c] THEN 1 ELSE 0]
  /\ virtualEvent' = [virtualEvent EXCEPT ![QueueOf[c]] = c]
  /\ status' = [status EXCEPT ![c] = "blocked"]
  /\ EnqueueReturn(t, VirtualEventOf(QueueOf[c]))
  /\ UNCHANGED <<freeTags, usedTags, deferredTags, populated, packet, tagOf, stream, dispatched, calls, history>>

-----------------------------------------------------------------------------
(* Submission and deletion of blocked commands; deletion of events and queues *)

\* CommandComputeKernel::submit, which waits for the GPU with the ownership of
\* the receiver.
Submit(t, c) ==
  /\ NextCall(t, "submit", c) /\ c \in Kernels
  /\ status[c] = "blocked" /\ csrOwner[Csr(c)] = None
  /\ \A w \in WaitList[c] : status[w] \notin {"blocked", "aborted"}
  /\ flushTask(c)
  /\ csrOwner' = [csrOwner EXCEPT ![Csr(c)] = t]
  /\ thread' = [thread EXCEPT ![t] = [Idle EXCEPT !.pc = "wait", !.cmd = c]]
  /\ UNCHANGED <<freeTags, usedTags, deferredTags, populated, refCount, tagOf, nodes, dispatched, eventRefs, virtualEvent, history>>

\* CommandMarker::submit flushes an empty task, which waits for no tag.
SubmitMarker(t, c) ==
  /\ NextCall(t, "submit", c) /\ c \in Markers
  /\ status[c] = "blocked" /\ csrOwner[Csr(c)] = None
  /\ \A w \in WaitList[c] : status[w] \notin {"blocked", "aborted"}
  /\ status' = [status EXCEPT ![c] = "marked"]
  /\ csrOwner' = [csrOwner EXCEPT ![Csr(c)] = t]
  /\ thread' = [thread EXCEPT ![t] = [Idle EXCEPT !.pc = "wait", !.cmd = c]]
  /\ UNCHANGED <<tagVars, nodes, stream, dispatched, eventRefs, virtualEvent, history>>

\* waitUntilComplete returns; the event that let the command go drops its child.  The
\* task of a marker is complete with all that precedes it in the stream of the receiver,
\* to which no other thread adds.
Submitted(t) ==
  LET c == thread[t].cmd IN
  /\ At(t, "wait")
  /\ IF c \in Markers THEN stream[Csr(c)] = <<>> ELSE status[c] = "executed"
  /\ csrOwner' = [csrOwner EXCEPT ![Csr(c)] = None]
  /\ thread' = [thread EXCEPT ![t] = [Idle EXCEPT !.toDrop = <<c>>]]
  /\ UNCHANGED <<tagVars, nodes, cmdVars, calls, history>>

\* The user event is terminated: the command is never executed.
Abort(t, c) ==
  /\ NextCall(t, "abort", c)
  /\ status[c] = "blocked" /\ csrOwner[Csr(c)] = None
  /\ status' = [status EXCEPT ![c] = "aborted"]
  /\ thread' = [thread EXCEPT ![t].toDrop = <<c>>]
  /\ UNCHANGED <<tagVars, nodes, stream, dispatched, eventRefs, virtualEvent, csrOwner, history>>

\* decRefInternal of an event.  ~Event deletes its command: that drops the events
\* of the wait list and returns the tags of the command; those of the event follow.
DropEvent(t) ==
  LET c == Head(thread[t].toDrop)
      waited == IF nodes[<<"current", c>>] # <<>> THEN SetToSeq(WaitList[c]) ELSE <<>> IN
  /\ thread[t].toDrop # <<>>
  /\ eventRefs' = [eventRefs EXCEPT ![c] = @ - 1]
  /\ IF eventRefs[c] = 1
     THEN /\ nodes' = [nodes EXCEPT ![<<"previous", c>>] = <<>>, ![<<"current", c>>] = <<>>, ![<<"event", c>>] = <<>>]
          /\ thread' = [thread EXCEPT ![t].toDrop = waited \o Tail(@),
                                      ![t].toReturn = nodes[<<"previous", c>>] \o nodes[<<"current", c>>]
                                                      \o nodes[<<"event", c>>] \o @]
     ELSE /\ thread' = [thread EXCEPT ![t].toDrop = Tail(@)]
          /\ UNCHANGED nodes
  /\ UNCHANGED <<tagVars, stream, dispatched, status, virtualEvent, csrOwner, calls, history>>

\* The application keeps an event while it has calls to pass it to.
ReleaseEvent(t, c) ==
  /\ NextCall(t, "release", c) /\ eventRefs[c] > 0
  /\ \A o \in Threads : \A w \in Commands :
       c \in WaitList[w] => <<"enqueue", w>> \notin Range(calls[o]) /\ thread[o].cmd # w
  /\ thread' = [thread EXCEPT ![t].toDrop = <<c>>]
  /\ UNCHANGED <<tagVars, nodes, cmdVars, csrOwner, history>>

\* The last reference to a queue is released, which drops its virtual event; the
\* destructor returns its tags.
ReleaseQueue(t, q) ==
  /\ NextCall(t, "releaseQueue", q)
  /\ \A c \in Commands : QueueOf[c] = q =>
       /\ status[c] # "blocked" /\ \A o \in Threads : <<"enqueue", c>> \notin Range(calls[o])
       /\ eventRefs[c] = (IF virtualEvent[q] = c THEN 1 ELSE 0)
       /\ \A o \in Threads : thread[o].cmd # c
  /\ nodes' = [nodes EXCEPT ![q] = <<>>]
  /\ virtualEvent' = [virtualEvent EXCEPT ![q] = None]
  /\ thread' = [thread EXCEPT ![t].toDrop = VirtualEventOf(q), ![t].toReturn = nodes[q]]
  /\ UNCHANGED <<tagVars, stream, dispatched, status, eventRefs, csrOwner, history>>

-----------------------------------------------------------------------------
(* The GPU executes the stream of each receiver in order. *)

Gpu(r) ==
  LET i == Head(stream[r]) IN
  /\ stream[r] # <<>>
  /\ stream' = [stream EXCEPT ![r] = Tail(@)]
  /\ \/ /\ i.op = "wait" /\ packet[i.tag].ended
        /\ UNCHANGED <<packet, status>>
     \/ /\ i.op = "decrement"
        /\ packet' = [packet EXCEPT ![i.tag].implicitDependenciesCount = @ - 1]
        /\ UNCHANGED status
     \/ /\ i.op = "write"
        /\ packet' = [packet EXCEPT ![i.tag].ended = TRUE]
        /\ status' = [status EXCEPT ![i.by] = "executed"]
  /\ UNCHANGED <<freeTags, usedTags, deferredTags, populated, refCount, tagOf, nodes, dispatched, eventRefs,
                 virtualEvent, csrOwner, calls, thread, history>>

\* A semaphore polls the tag until it is written.
GpuPoll(r) ==
  /\ stream[r] # <<>> /\ Head(stream[r]).op = "wait" /\ ~packet[Head(stream[r]).tag].ended
  /\ UNCHANGED vars

Allocator(t) ==
  \/ returnTag(t) \/ returnTagToFreePool(t) \/ returnTagToDeferredPool(t)
  \/ GetTag(t) \/ DetachDeferred(t) \/ SortDeferred(t) \/ SpliceReady(t) \/ SplicePending(t)
  \/ RemoveFree(t) \/ populateFreeTags(t) \/ UseTag(t)
Enqueue(t) ==
  \/ ResolveDependency(t) \/ DependenciesResolved(t) \/ Dispatch(t)
  \/ EnqueueNonBlocked(t) \/ EnqueueBlocked(t) \/ Submitted(t) \/ DropEvent(t)
Begin(t) ==
  \/ \E c \in Commands : \/ EnqueueKernel(t, c) \/ EnqueueMarker(t, c) \/ EnqueueBlockedMarker(t, c)
                         \/ Submit(t, c) \/ SubmitMarker(t, c) \/ Abort(t, c) \/ ReleaseEvent(t, c)
  \/ \E q \in Queues : ReleaseQueue(t, q)
Step(t) == Allocator(t) \/ Enqueue(t) \/ Begin(t)

\* All calls have returned and the GPU has nothing left.
Done ==
  /\ \A t \in Threads : thread[t] = Idle /\ calls[t] = <<>>
  /\ \A r \in Csrs : stream[r] = <<>>
  /\ UNCHANGED vars

Next == (\E t \in Threads : Step(t)) \/ (\E r \in Csrs : Gpu(r) \/ GpuPoll(r)) \/ Done
Spec == Init /\ [][Next]_vars

\* A thread in a call goes on, and so does the GPU with what it can execute.
FairSpec == Spec /\ (\A t \in Threads : WF_vars(Step(t))) /\ (\A r \in Csrs : WF_vars(Gpu(r)))

-----------------------------------------------------------------------------
(* Properties *)

\* The places of a tag in a family of lists, and the returns that are still to be
\* counted down in each thread.
Entries(f, n) == {e \in UNION {{h} \X DOMAIN f[h] : h \in DOMAIN f} : f[e[1]][e[2]] = n}
toBeReturned ==
  [t \in Threads |-> IF thread[t].place = "none" THEN thread[t].toReturn ELSE Tail(thread[t].toReturn)]

\* Where the allocators have tags, and where threads that move them have.
Places == ({"free", "deferred", "used"} \X Csrs) \cup ({"detached", "ready", "pending", "node"} \X Threads)
Content(p) ==
  CASE p[1] = "free" -> Range(freeTags[p[2]])
    [] p[1] = "deferred" -> Range(deferredTags[p[2]])
    [] p[1] = "used" -> usedTags[p[2]]
    [] p[1] = "detached" -> Range(thread[p[2]].detached)
    [] p[1] = "ready" -> Range(thread[p[2]].ready)
    [] p[1] = "pending" -> Range(thread[p[2]].pending)
    [] p[1] = "node" -> {thread[p[2]].node} \ {None}

\* Whatever threads return, defer and take tags at the same time, a tag that the
\* allocator has created is in exactly one place, and no list has it twice; the count
\* of a tag is the number of containers and pending returns that refer to it; and a
\* tag is used as long as that is not zero or a thread is about to put it back
\* (tag_allocator.h getTag, returnTag, releaseDeferredTags).
TagsAccountedFor ==
  /\ \A r \in Csrs : \A i \in 1..populated[r] :
       \E p \in Places : {q \in Places : TagMemory[r][i] \in Content(q)} = {p}
  /\ \A r \in Csrs : IsInjective(freeTags[r]) /\ IsInjective(deferredTags[r])
  /\ \A t \in Threads :
       IsInjective(thread[t].detached) /\ IsInjective(thread[t].ready) /\ IsInjective(thread[t].pending)
  /\ \A n \in Tags : refCount[n] = Cardinality(Entries(nodes, n)) + Cardinality(Entries(toBeReturned, n))
  /\ \A r \in Csrs : \A n \in Range(TagMemory[r]) :
       n \in usedTags[r] <=> \/ refCount[n] > 0
                            \/ \E t \in Threads : thread[t].place # "none" /\ Head(thread[t].toReturn) = n

\* What the GPU will still execute: the streams, and the commands that may yet be
\* submitted.
InFlight ==
  (UNION {Range(stream[r]) : r \in Csrs})
    \cup (UNION {Range(dispatched[c]) : c \in {d \in Commands : status[d] \in {"new", "blocked"}}})

\* No tag is taken for another command while the GPU has still to write it, to
\* compare it or to decrement its counter: a semaphore would wait for, or be
\* passed by, the wrong command (TimestampPacket::canBeReleased).
NoTagReusedInFlight ==
  \A i \in InFlight : tagOf[i.tag] = i.for /\ \A r \in Csrs : i.tag \notin Range(freeTags[r])

\* A kernel is executed after those that its wait list names, on whatever receiver they
\* are and through markers that have no tag of their own, and after the last kernel of its
\* in-order queue (csr_deps.cpp, programCsrDependencies).
ExecutedInOrder ==
  \A c \in Kernels : status[c] = "executed" => \A w \in after[c] : status[w] = "executed"

\* Every kernel that is submitted is executed: no semaphore waits for a write that
\* does not come (enqueueHandler, CommandComputeKernel::submit).
SubmittedAreExecuted == \A c \in Kernels : status[c] = "submitted" ~> status[c] = "executed"
=============================================================================
