---------------------------- MODULE HostPtrManager ----------------------------
(***************************************************************************)
(* Host memory that the GPU works on in place                              *)
(* (src/runtime/memory_manager/host_ptr_manager.cpp, with its callers in   *)
(* MemoryManager, DrmMemoryManager and InternalAllocationStorage).         *)
(*                                                                         *)
(* A host range is cut into a leading page, whole pages and a trailing     *)
(* page.  The manager keeps one buffer object for each fragment, shared    *)
(* and counted: a fragment inside a stored one uses the stored one, a      *)
(* fragment that sticks out of a stored one cannot be had before that one  *)
(* is gone.  Then the call, which holds allocationsMutex throughout, frees *)
(* the temporary allocations the GPU is done with; if that does not help   *)
(* it waits for everything that was sent and frees again; if that does not *)
(* help either the process is aborted.                                     *)
(*                                                                         *)
(* One receiver with immediate dispatch: a task is sent when it is         *)
(* enqueued.  The list of temporary allocations has a lock of its own, and *)
(* freeAllocationsList walks what it detached without any lock.            *)
(***************************************************************************)
EXTENDS Integers, Sequences, FiniteSets, SequencesExt

CONSTANTS Threads,
          pageSize,
          Requests,         \* host ranges [ptr, size] that callers pass
          FailingRequests,  \* those whose buffer objects may not be created
          Failures,         \* the ways in which populateOsHandles may fail
          MaxAllocations,   \* bound: allocations, of each thread
          MaxFinishes,      \* bound: finish calls, of each thread
          eventNotReady,    \* Event::eventNotReady, above every task count
          None

Ids == UNION {{t} \X (1..MaxAllocations[t]) : t \in Threads}

ASSUME HostPtrAssumption ==
    /\ pageSize \in Nat \ {0}
    /\ \A r \in Requests : r.ptr \in Nat \ {0} /\ r.size \in Nat \ {0}
    /\ FailingRequests \subseteq Requests
    /\ Failures \subseteq {"userptr", "pin_fault", "pin_error"}
    /\ eventNotReady \in Nat /\ eventNotReady > Cardinality(Ids)
    /\ None \notin Threads

VARIABLES partialAllocations,    \* start |-> [size, refCount, os]: the stored fragments
          osHandles,             \* the OsHandles, with their buffer objects, not deleted
          allocations,           \* Ids |-> [frags, taskCount] of the graphics allocations
          temporaryAllocations,  \* the receiver's list of them
          tasks,                 \* for each task sent, the OsHandles it accesses
          tag,                   \* *getTagAddress()
          allocationsMutex,      \* its owner
          pc, loc,               \* of each thread: where it is, and its locals
          made, finished,        \* of each thread: allocations and finish calls made
          aborted                \* the thread that ran into UNRECOVERABLE_IF

csrVars == <<tasks, tag>>
threadVars == <<pc, loc>>
vars == <<partialAllocations, osHandles, allocations, temporaryAllocations, csrVars,
          allocationsMutex, threadVars, made, finished, aborted>>

\* A deleted, or not yet created, allocation has no fragments.
NoAllocation == [frags |-> <<>>, taskCount |-> 0]
\* The locals of a thread that is not in a call.
NoCall == [a |-> None, req |-> <<>>, i |-> 1, checked |-> <<>>, pass |-> 0, sent |-> 0,
           surface |-> FALSE, wait |-> 0, list |-> <<>>, seen |-> {}, left |-> <<>>, freeing |-> None,
           k |-> 1, toFree |-> {}]

Init ==
    /\ partialAllocations = <<>> /\ osHandles = {}
    /\ allocations = [a \in Ids |-> NoAllocation]
    /\ temporaryAllocations = <<>>
    /\ tasks = <<>> /\ tag = 0
    /\ allocationsMutex = None
    /\ pc = [t \in Threads |-> "idle"] /\ loc = [t \in Threads |-> NoCall]
    /\ made = [t \in Threads |-> 0] /\ finished = [t \in Threads |-> 0]
    /\ aborted = None

-----------------------------------------------------------------------------
(* Fragments of a host range, and the stored fragments they meet           *)

alignDown(p) == p - (p % pageSize)
alignUp(p) == alignDown(p + pageSize - 1)

getAllocationRequirements(r) ==
    LET end == r.ptr + r.size
        whole == alignUp((r.ptr % pageSize) + r.size)
        leadingNeeded == alignDown(r.ptr) # r.ptr
        trailingNeeded == alignDown(end) # end /\ alignDown(end) # alignDown(r.ptr)
        middleSize == whole - (IF leadingNeeded THEN pageSize ELSE 0)
                            - (IF trailingNeeded THEN pageSize ELSE 0)
        fragment(needed, p, s) == IF needed THEN <<[ptr |-> p, size |-> s]>> ELSE <<>>
    IN  fragment(leadingNeeded, alignDown(r.ptr), pageSize)
          \o fragment(middleSize > 0, alignUp(r.ptr), middleSize)
          \o fragment(trailingNeeded, alignDown(end), pageSize)

EndOf(stored, start) == start + stored[start].size

\* The start of the stored fragment that ptr is in, None at the map's end
findElement(stored, ptr) ==
    LET below == {s \in DOMAIN stored : s <= ptr}
        last == Max(below)
    IN  IF below # {} /\ (last = ptr \/ ptr < EndOf(stored, last)) THEN last ELSE None

\* The status of a fragment, and the start and the OsHandle of the entry
\* whose address is returned (None for nullptr)
Checked(status, start) ==
    [status |-> status, start |-> start,
     os |-> IF start = None THEN None ELSE partialAllocations[start].os]

\* The entry before ptr, or the first, is looked at first, then the one at or
\* after ptr.
getFragmentAndCheckForOverlaps(f) ==
    LET keys == DOMAIN partialAllocations
        before == {s \in keys : s < f.ptr}
        element == IF before # {} THEN Max(before) ELSE Min(keys)
        end == f.ptr + f.size
        storedEnd(s) == EndOf(partialAllocations, s)
        inElement == keys # {} /\ element <= f.ptr /\ f.ptr < storedEnd(element)
        inside(s) == CASE end > storedEnd(s) -> Checked("bigger", None)
                       [] s = f.ptr /\ end = storedEnd(s) -> Checked("exact", s)
                       [] OTHER -> Checked("within", s)
    IN  CASE inElement -> inside(element)
          [] ~inElement /\ f.ptr \in keys -> inside(f.ptr)
          [] ~inElement /\ f.ptr \notin keys /\ (\E s \in keys \ before : s < end) ->
               Checked("bigger", None)
          [] OTHER -> Checked("none", None)

-----------------------------------------------------------------------------
Set(t, at, locals) == pc' = [pc EXCEPT ![t] = at] /\ loc' = [loc EXCEPT ![t] = locals]
Goto(t, at) == Set(t, at, loc[t])

hostPtrVars == <<partialAllocations, osHandles, allocations>>

\* allocateGraphicsMemoryWithHostPtr, for an enqueue's host surface or for a
\* memory object: prepareOsStorageForAllocation takes the mutex.
prepareOsStorageForAllocation(t, r, surface) ==
    /\ pc[t] = "idle" /\ made[t] < MaxAllocations[t]
    /\ allocationsMutex = None /\ allocationsMutex' = t
    /\ made' = [made EXCEPT ![t] = @ + 1]
    /\ Set(t, "check", [NoCall EXCEPT !.a = <<t, made'[t]>>, !.surface = surface,
                                      !.req = getAllocationRequirements(r)])
    /\ UNCHANGED <<hostPtrVars, temporaryAllocations, csrVars, finished, aborted>>

\* checkAllocationsForOverlapping, one pass of its loop up to the next call
\* that frees allocations
checkAllocationsForOverlapping(t) ==
    LET l == loc[t]
        found == getFragmentAndCheckForOverlaps(l.req[l.i])
    IN  /\ pc[t] = "check"
        /\ \/ /\ found.status # "bigger"
              /\ Set(t, IF l.i = Len(l.req) THEN "populate" ELSE "check",
                     [l EXCEPT !.checked = Append(@, found), !.i = @ + 1, !.pass = 0])
              /\ UNCHANGED aborted
           \/ /\ found.status = "bigger" /\ l.pass = 0
              /\ Set(t, "detach", [l EXCEPT !.pass = 1, !.wait = tag, !.sent = Len(tasks)])
              /\ UNCHANGED aborted
           \/ /\ found.status = "bigger" /\ l.pass = 1
              /\ Goto(t, "wait")
              /\ UNCHANGED aborted
           \/ /\ found.status = "bigger" /\ l.pass = 2
              /\ aborted' = t
              /\ UNCHANGED threadVars
        /\ UNCHANGED <<hostPtrVars, temporaryAllocations, csrVars, allocationsMutex, made, finished>>

\* A plausible slip: the tag is taken as it is.
waitForSent_Not(t) ==
    /\ pc[t] = "wait"
    /\ Set(t, "detach", [loc[t] EXCEPT !.pass = 2, !.wait = tag])
    /\ UNCHANGED <<hostPtrVars, temporaryAllocations, csrVars, allocationsMutex, made, finished, aborted>>

\* while (*getTagAddress() < peekLatestSentTaskCount())
waitForSent(t) ==
    /\ pc[t] = "wait" /\ tag >= Len(tasks)
    /\ Set(t, "detach", [loc[t] EXCEPT !.pass = 2, !.wait = tag])
    /\ UNCHANGED <<hostPtrVars, temporaryAllocations, csrVars, allocationsMutex, made, finished, aborted>>

-----------------------------------------------------------------------------
(* populateAlreadyAllocatedFragments and populateOsHandles                 *)

\* The OsHandle of each fragment: the stored one, or a new one
HandleOf(l, i) == IF l.checked[i].start # None THEN l.checked[i].os ELSE <<l.a, i>>
NewFragments(l) == {i \in DOMAIN l.checked : l.checked[i].start = None}

\* A plausible slip: a fragment inside a stored one is not counted.
populateAlreadyAllocatedFragments_Exact(l) ==
    [s \in DOMAIN partialAllocations |->
      [partialAllocations[s] EXCEPT !.refCount = @ + Cardinality(
        {i \in DOMAIN l.checked : l.checked[i].start = s /\ l.checked[i].status = "exact"})]]

\* refCount++ through the addresses that the check has saved.  An entry that was
\* erased meanwhile is freed memory: nothing is counted, its OsHandle is read.
populateAlreadyAllocatedFragments(l) ==
    [s \in DOMAIN partialAllocations |->
      [partialAllocations[s] EXCEPT !.refCount = @ + Cardinality(
        {i \in DOMAIN l.checked : l.checked[i].start = s
                                  /\ l.checked[i].os = partialAllocations[s].os})]]

\* storeFragment: a fragment that begins inside a stored one counts there.
storeFragment(stored, f, os) ==
    LET element == findElement(stored, f.ptr)
    IN  IF element # None
          THEN [stored EXCEPT ![element].refCount = @ + 1]
          ELSE [s \in DOMAIN stored \cup {f.ptr} |->
                  IF s = f.ptr THEN [size |-> f.size, refCount |-> 1, os |-> os] ELSE stored[s]]

\* The fragmentsStorage of the allocation that is made of them
createGraphicsAllocation(l) ==
    [i \in DOMAIN l.req |-> [ptr |-> l.req[i].ptr, size |-> l.req[i].size, os |-> HandleOf(l, i)]]

populateOsHandles(t) ==
    LET l == loc[t]
        new == NewFragments(l)
    IN  /\ pc[t] = "populate"
        /\ partialAllocations' =
             FoldLeft(LAMBDA stored, i : IF i \in new THEN storeFragment(stored, l.req[i], <<l.a, i>>)
                                         ELSE stored,
                      populateAlreadyAllocatedFragments(l), [i \in DOMAIN l.req |-> i])
        /\ osHandles' = osHandles \cup {<<l.a, i>> : i \in new}
        /\ allocations' = [allocations EXCEPT ![l.a].frags = createGraphicsAllocation(l)]
        /\ allocationsMutex' = None
        /\ Set(t, IF l.surface THEN "store" ELSE "idle", IF l.surface THEN l ELSE NoCall)
        /\ UNCHANGED <<temporaryAllocations, csrVars, made, finished, aborted>>

\* allocUserptr fails for fragment j, or the pinning of all: cleanOsHandles then
\* deletes those marked freeTheFragment; the others stay, as do the counts.
populateOsHandlesFails(t) ==
    LET l == loc[t]
        new == NewFragments(l)
        handles(S) == {<<l.a, i>> : i \in S}
    IN  /\ pc[t] = "populate" /\ new # {}
        /\ \E r \in FailingRequests : l.req = getAllocationRequirements(r)
        /\ partialAllocations' = populateAlreadyAllocatedFragments(l)
        /\ \E failure \in Failures, j \in new :
             osHandles' = osHandles \cup
               CASE failure = "userptr" -> handles({i \in new : i < j})
                 [] failure = "pin_fault" -> {}
                 [] failure = "pin_error" -> handles(new)
        /\ allocationsMutex' = None
        /\ Set(t, "idle", NoCall)
        /\ UNCHANGED <<allocations, temporaryAllocations, csrVars, made, finished, aborted>>

-----------------------------------------------------------------------------
(* An enqueue with a host surface                                          *)

\* createAllocationForHostSurface: the task count keeps the allocation from
\* being freed by others before the enqueue has submitted its own.
createAllocationForHostSurface(t) ==
    /\ pc[t] = "store"
    /\ allocations' = [allocations EXCEPT ![loc[t].a].taskCount = eventNotReady]
    /\ temporaryAllocations' = Append(temporaryAllocations, loc[t].a)
    /\ Goto(t, "flush")
    /\ UNCHANGED <<partialAllocations, osHandles, csrVars, allocationsMutex, made, finished, aborted>>

HandlesOf(a) == {allocations[a].frags[i].os : i \in DOMAIN allocations[a].frags}

\* flushTask makes the allocation resident, gives it the task count and sends.
Send(a) ==
    /\ tasks' = Append(tasks, HandlesOf(a))
    /\ allocations' = [allocations EXCEPT ![a].taskCount = Len(tasks) + 1]

flushTask(t) ==
    /\ pc[t] = "flush"
    /\ Send(loc[t].a)
    /\ Set(t, "idle", NoCall)
    /\ UNCHANGED <<partialAllocations, osHandles, temporaryAllocations, tag, allocationsMutex,
                   made, finished, aborted>>

(* The memory object of a thread                                           *)

InList(a) == \/ a \in ToSet(temporaryAllocations)
             \/ \E t \in Threads : a \in ToSet(loc[t].list \o loc[t].left) \cup {loc[t].freeing}
\* The thread's memory objects: live, and in nobody's hands
Held(t) == {a \in {t} \X (1..MaxAllocations[t]) : allocations[a].frags # <<>> /\ ~InList(a) /\ loc[t].a # a}

\* An enqueue that works on the memory object
enqueue(t) ==
    /\ pc[t] = "idle"
    /\ \E a \in Held(t) : allocations[a].taskCount = 0 /\ Send(a)
    /\ UNCHANGED <<partialAllocations, osHandles, temporaryAllocations, tag, allocationsMutex,
                   threadVars, made, finished, aborted>>

\* The release of the memory object
checkGpuUsageAndDestroyGraphicsAllocations(t) ==
    /\ pc[t] = "idle"
    /\ \E a \in Held(t) :
         \/ /\ allocations[a].taskCount > tag
            /\ temporaryAllocations' = Append(temporaryAllocations, a)
            /\ UNCHANGED threadVars
         \/ /\ allocations[a].taskCount <= tag
            /\ Set(t, "release", [NoCall EXCEPT !.freeing = a])
            /\ UNCHANGED temporaryAllocations
    /\ UNCHANGED <<hostPtrVars, csrVars, allocationsMutex, made, finished, aborted>>

-----------------------------------------------------------------------------
(* cleanAllocationList, from finish or from the check of overlaps          *)

\* waitForTaskCountAndCleanAllocationList, for the tasks sent so far
finish(t) ==
    /\ pc[t] = "idle" /\ finished[t] < MaxFinishes[t]
    /\ finished' = [finished EXCEPT ![t] = @ + 1]
    /\ Set(t, "finish", [NoCall EXCEPT !.wait = Len(tasks)])
    /\ UNCHANGED <<hostPtrVars, temporaryAllocations, csrVars, allocationsMutex, made, aborted>>

waitForTaskCount(t) ==
    /\ pc[t] = "finish" /\ tag >= loc[t].wait
    /\ Goto(t, "detach")
    /\ UNCHANGED <<hostPtrVars, temporaryAllocations, csrVars, allocationsMutex, made, finished, aborted>>

detachNodes(t) ==
    /\ pc[t] = "detach"
    /\ temporaryAllocations' = <<>>
    /\ Set(t, "walk", [loc[t] EXCEPT !.list = temporaryAllocations, !.seen = ToSet(temporaryAllocations)])
    /\ UNCHANGED <<hostPtrVars, csrVars, allocationsMutex, made, finished, aborted>>

\* One allocation of freeAllocationsList: kept, or freed
freeAllocationsList(t) ==
    LET l == loc[t]
    IN  /\ pc[t] = "walk" /\ l.list # <<>>
        /\ \/ /\ allocations[Head(l.list)].taskCount <= l.wait
              /\ Set(t, "release", [l EXCEPT !.list = Tail(@), !.freeing = Head(l.list)])
           \/ /\ allocations[Head(l.list)].taskCount > l.wait
              /\ Set(t, "walk", [l EXCEPT !.list = Tail(@), !.left = Append(@, Head(l.list))])
        /\ UNCHANGED <<hostPtrVars, temporaryAllocations, csrVars, allocationsMutex, made, finished, aborted>>

\* A call from the check of overlaps goes back there.
splice(t) ==
    LET l == loc[t]
    IN  /\ pc[t] = "walk" /\ l.list = <<>>
        /\ temporaryAllocations' = temporaryAllocations \o l.left
        /\ IF l.a # None THEN Set(t, "check", [l EXCEPT !.left = <<>>]) ELSE Set(t, "idle", NoCall)
        /\ UNCHANGED <<hostPtrVars, csrVars, allocationsMutex, made, finished, aborted>>

-----------------------------------------------------------------------------
(* freeGraphicsMemory of an allocation with fragments                      *)

\* releaseHostPtr, once for each fragment: the mutex is recursive.  That the
\* fragment is found is asserted in the code (see ReleasedIsStored).
releaseHostPtr(t) ==
    LET l == loc[t]
        f == allocations[l.freeing].frags[l.k]
        element == findElement(partialAllocations, f.ptr)
        last == partialAllocations[element].refCount = 1
    IN  /\ pc[t] = "release"
        /\ allocationsMutex \in {None, t}
        /\ element # None
        /\ partialAllocations' =
             IF last THEN [s \in DOMAIN partialAllocations \ {element} |-> partialAllocations[s]]
             ELSE [partialAllocations EXCEPT ![element].refCount = @ - 1]
        /\ Set(t, IF l.k = Len(allocations[l.freeing].frags) THEN "clean" ELSE "release",
               [l EXCEPT !.k = @ + 1, !.toFree = IF last THEN @ \cup {f.os} ELSE @])
        /\ UNCHANGED <<osHandles, allocations, temporaryAllocations, csrVars, allocationsMutex,
                       made, finished, aborted>>

InFlight == UNION {tasks[n] : n \in tag + 1..Len(tasks)}

\* Each buffer object is waited for before it is closed; the allocation is
\* deleted, and freeAllocationsList goes on if it has called.
cleanOsHandles(t) ==
    LET l == loc[t]
    IN  /\ pc[t] = "clean" /\ l.toFree \cap InFlight = {}
        /\ osHandles' = osHandles \ l.toFree
        /\ allocations' = [allocations EXCEPT ![l.freeing] = NoAllocation]
        /\ IF l.seen # {}
             THEN Set(t, "walk", [l EXCEPT !.freeing = None, !.toFree = {}, !.k = 1])
             ELSE Set(t, "idle", NoCall)
        /\ UNCHANGED <<partialAllocations, temporaryAllocations, csrVars, allocationsMutex,
                       made, finished, aborted>>

GpuExecute ==
    /\ tag < Len(tasks) /\ tag' = tag + 1
    /\ UNCHANGED <<hostPtrVars, temporaryAllocations, tasks, allocationsMutex, threadVars,
                   made, finished, aborted>>

-----------------------------------------------------------------------------
Step(t) ==
    \/ \E r \in Requests, surface \in BOOLEAN : prepareOsStorageForAllocation(t, r, surface)
    \/ checkAllocationsForOverlapping(t) \/ waitForSent(t)
    \/ populateOsHandles(t) \/ populateOsHandlesFails(t)
    \/ createAllocationForHostSurface(t) \/ flushTask(t)
    \/ enqueue(t) \/ checkGpuUsageAndDestroyGraphicsAllocations(t)
    \/ finish(t) \/ waitForTaskCount(t)
    \/ detachNodes(t) \/ freeAllocationsList(t) \/ splice(t)
    \/ releaseHostPtr(t) \/ cleanOsHandles(t)

Done == \/ aborted # None
        \/ /\ \A t \in Threads : pc[t] = "idle" /\ made[t] = MaxAllocations[t]
           /\ tag = Len(tasks)

Next == \/ aborted = None /\ (GpuExecute \/ \E t \in Threads : Step(t))
        \/ Done /\ UNCHANGED vars

Spec == Init /\ [][Next]_vars

-----------------------------------------------------------------------------
(* Properties                                                              *)

\* The fragments of an allocation that are not released yet
Unreleased(a) ==
    {i \in DOMAIN allocations[a].frags :
       \A t \in Threads : loc[t].freeing = a => pc[t] = "release" /\ i >= loc[t].k}
References == UNION {{<<a, i>> : i \in Unreleased(a)} : a \in Ids}
StoredOf(ref) == findElement(partialAllocations, allocations[ref[1]].frags[ref[2]].ptr)

\* An OsHandle is stored or about to be closed: a call that fails leaves none of
\* the buffer objects it made behind, and none is stored after it was closed.
NoHandleLeaks ==
    osHandles = {partialAllocations[s].os : s \in DOMAIN partialAllocations}
                  \cup UNION {loc[t].toFree : t \in Threads}

\* Stored fragments never overlap, and each is counted once for every fragment
\* of an allocation, however allocations that share it come, go and are freed
\* half by another thread: what a fragment's address leads to covers it and has
\* its OsHandle.  An OsHandle lives exactly as long as it is stored or being
\* closed, so what the GPU works on and what an enqueue is about to send exists.
FragmentsAreExact ==
    /\ \A s, u \in DOMAIN partialAllocations : s < u => EndOf(partialAllocations, s) <= u
    /\ \A s \in DOMAIN partialAllocations :
         partialAllocations[s].refCount = Cardinality({ref \in References : StoredOf(ref) = s})
    /\ \A ref \in References :
         LET f == allocations[ref[1]].frags[ref[2]]
             s == StoredOf(ref)
         IN  /\ s # None /\ partialAllocations[s].os = f.os
             /\ f.ptr + f.size <= EndOf(partialAllocations, s)
    /\ NoHandleLeaks
    /\ InFlight \subseteq osHandles

\* The process is only aborted for an overlap that the call could not remove:
\* with an enqueue that had not sent its task when the overlap was found, or
\* with an allocation that was not in the list when it was detached for the last
\* time, being a memory object's or in the hands of another thread.
FatalOnlyWhenInevitable ==
    aborted # None =>
      LET l == loc[aborted]
          wanted == l.req[l.i]
          Overlaps(s) == s < wanted.ptr + wanted.size /\ wanted.ptr < EndOf(partialAllocations, s)
      IN  \E ref \in References :
            /\ Overlaps(StoredOf(ref))
            /\ \/ allocations[ref[1]].taskCount > l.sent
               \/ ref[1] \notin l.seen

\* "element == partialAllocations.end()" never holds where releaseHostPtr looks
\* for the fragment it releases.
ReleasedIsStored ==
    \A t \in Threads : pc[t] = "release" =>
      findElement(partialAllocations, allocations[loc[t].freeing].frags[loc[t].k].ptr) # None
===============================================================================
