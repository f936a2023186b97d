---------------------------- MODULE BufferQueue ----------------------------
(***************************************************************************)
(* The buffer queue of src/display_server/frameworks/surface: the server   *)
(* side object that a producer (an application drawing frames) and a       *)
(* consumer (the render service, or the HDI backend) share.                *)
(*                                                                         *)
(* Every member function runs on its caller's thread.  What BufferQueue's  *)
(* mutex_ protects is one atomic step; a function that leaves mutex_ and   *)
(* takes it again (FlushBuffer, ReleaseBuffer, a blocked RequestBuffer,    *)
(* SetQueueSize) is one step per critical section, and pc says where its   *)
(* thread is.  The callers are the environment: they flush, cancel and     *)
(* release only buffers they were given, and the consumer acquires when it *)
(* is told that a buffer is available.                                     *)
(*                                                                         *)
(* An operator named Fault... is no part of the model.  It is a mistake    *)
(* one could make in the definition that follows it; README.md says which  *)
(* property notices it.                                                    *)
(***************************************************************************)
EXTENDS Integers, Sequences, FiniteSets, SequencesExt

CONSTANTS
    Producers,         \* threads serving RequestBuffer, FlushBuffer, CancelBuffer
    Consumers,         \* threads serving AcquireBuffer, ReleaseBuffer
    Managers,          \* threads serving SetQueueSize, CleanCache, listeners, ...
    Configs,           \* the request configurations in use
    NoArg,             \* the argument of a thread that runs no call
    MaxQueueSize,      \* SURFACE_MAX_QUEUE_SIZE
    DefaultQueueSize,  \* SURFACE_DEFAULT_QUEUE_SIZE
    Sharing,           \* the values the constructor's isShared argument takes
    Calls,             \* the optional calls this queue's users make
    Failures,          \* the library calls that may fail
    ReleaseResults,    \* what onBufferRelease may answer ("none": not registered)
    MaxSequence,       \* bound: sequence numbers given out before gralloc is exhausted
    MaxListLength      \* bound: entries a shared queue's lists may gather

OptionalCalls ==
    {"CancelBuffer", "SetQueueSize", "CleanCache", "GoBackground", "ConsumerDied",
     "AttachBuffer", "DetachBuffer", "SetListener", "SetProducerCacheCleanFlag"}

ASSUME QueueAssumption ==
    /\ MaxQueueSize \in Nat \ {0} /\ DefaultQueueSize \in 1..MaxQueueSize
    /\ MaxSequence \in Nat /\ MaxListLength \in Nat
    /\ Sharing \subseteq BOOLEAN
    /\ Calls \subseteq OptionalCalls
    /\ Failures \subseteq {"Alloc", "FlushCache"}
    /\ ReleaseResults \subseteq {"none", "ok", "error"}

ASSUME ThreadAssumption ==
    /\ Producers \cap Consumers = {}
    /\ Producers \cap Managers = {}
    /\ Consumers \cap Managers = {}

VARIABLES
    cache,               \* bufferQueueCache_: sequence number -> BufferElement
    freeList, dirtyList, deletingList,
    isShared,            \* isShared_, set by the constructor
    queueSize,           \* queueSize_, read and written without mutex_
    isValidStatus,       \* isValidStatus_ (atomic)
    listener,            \* a consumer listener is registered
    producerCacheClean,  \* producerCacheClean_ (atomic)
    producerCacheList,   \* the members of producerCacheList_
    nextSequence,        \* the next SurfaceBufferImpl's sequence number
    pc,                  \* where each thread stands in its call
    arg,                 \* the buffer, configuration or size its call is about
    producerHeld,        \* buffers the producer was given and has not returned
    consumerHeld,        \* buffers the consumer was given and has not returned
    notifications        \* OnBufferAvailable calls the consumer has not acted on

bufferVars == <<cache, freeList, dirtyList, deletingList>>
statusVars == <<isShared, queueSize, isValidStatus, listener>>
cleanVars  == <<producerCacheClean, producerCacheList>>
threadVars == <<pc, arg>>
clientVars == <<producerHeld, consumerHeld, notifications>>
vars == <<bufferVars, statusVars, cleanVars, nextSequence, threadVars, clientVars>>

Threads   == Producers \cup Consumers \cup Managers
SeqNumbers == 1..MaxSequence
BufferStates == {"RELEASED", "REQUESTED", "FLUSHED", "ACQUIRED", "ATTACHED"}
BufferElement == [state : BufferStates, isDeleting : BOOLEAN, config : Configs]

RequestPcs == {"requestLock", "waitEnter", "waiting", "woken", "timedOut"}
FlushPcs   == {"flushListener", "doFlush", "flushNotify"}
ReleasePcs == {"releaseCallback", "releaseLock"}

Init ==
    /\ cache = [s \in {} |-> NoArg]
    /\ freeList = <<>> /\ dirtyList = <<>> /\ deletingList = <<>>
    /\ isShared \in Sharing
    /\ queueSize = IF isShared THEN 1 ELSE DefaultQueueSize
    /\ isValidStatus = TRUE /\ listener = TRUE
    /\ producerCacheClean = FALSE /\ producerCacheList = {}
    /\ nextSequence = 1
    /\ pc = [t \in Threads |-> "idle"]
    /\ arg = [t \in Threads |-> NoArg]
    /\ producerHeld = {} /\ consumerHeld = {}
    /\ notifications = 0

----------------------------------------------------------------------------
(* The data behind mutex_.                                                 *)

UsedSize == Cardinality(DOMAIN cache)

HasRoomFaultOffByOne == UsedSize <= queueSize
HasRoom == UsedSize < queueSize

NewElementFaultUninitialised(state, config) ==
    [state |-> state, isDeleting |-> NoArg, config |-> config]
NewElement(state, config) == [state |-> state, isDeleting |-> FALSE, config |-> config]
Put(elements, s, element) ==
    [x \in DOMAIN elements \cup {s} |-> IF x = s THEN element ELSE elements[x]]
EraseFaultKeeps(elements, gone) == elements
Erase(elements, gone) == [x \in DOMAIN elements \ gone |-> elements[x]]

(* Shared queues have one buffer, begin() of the map, for every caller.    *)
SharedHitFaultAnyQueue == DOMAIN cache # {}
SharedHit == isShared /\ DOMAIN cache # {}
SharedBuffer(s) == s \in DOMAIN cache /\ \A x \in DOMAIN cache : s <= x

(* AllocBuffer can fail in Alloc or Map; MaxSequence stands for the memory *)
(* running out.                                                            *)
CanAlloc == nextSequence <= MaxSequence
AllocMayFail == "Alloc" \in Failures \/ ~CanAlloc

(* DeleteBuffers(count), count > 0: free buffers, then dirty ones, then    *)
(* the first entries of the map, whoever holds them, are marked.           *)
FirstEntries(elements, n) ==
    {s \in DOMAIN elements : Cardinality({x \in DOMAIN elements : x < s}) < n}
MarkFirstFaultErases(elements, n) == Erase(elements, FirstEntries(elements, n))
MarkFirst(elements, n) ==
    [s \in DOMAIN elements |->
       [elements[s] EXCEPT !.isDeleting = @ \/ s \in FirstEntries(elements, n)]]

Lesser(i, j) == IF i < j THEN i ELSE j
DeleteBuffers(count) ==
    LET fromFree  == Lesser(count, Len(freeList))
        fromDirty == Lesser(count - fromFree, Len(dirtyList))
        toMark    == count - fromFree - fromDirty
        dropped   == SubSeq(freeList, 1, fromFree) \o SubSeq(dirtyList, 1, fromDirty)
    IN  /\ freeList' = SubSeq(freeList, fromFree + 1, Len(freeList))
        /\ dirtyList' = SubSeq(dirtyList, fromDirty + 1, Len(dirtyList))
        /\ deletingList' = deletingList \o dropped
        /\ cache' = MarkFirst(Erase(cache, ToSet(dropped)), toMark)

ClearLocked ==
    /\ cache' = Erase(cache, DOMAIN cache)
    /\ freeList' = <<>> /\ dirtyList' = <<>> /\ deletingList' = <<>>

----------------------------------------------------------------------------
(* Threads: mutex_ and the condition variable waitReqCon_.                 *)
(*                                                                         *)
(* A thread in "waitEnter" has found wait_for's predicate false and holds  *)
(* mutex_ until it blocks.  A thread in "attachRelock" holds mutex_ and    *)
(* asks for it again.  Every other step leaves mutex_ free.                *)

MutexFreeFaultWaiterReleasesEarly == \A t \in Threads : pc[t] # "attachRelock"
MutexFree == \A t \in Threads : pc[t] \notin {"waitEnter", "attachRelock"}

Idle(t) == pc[t] = "idle"
Goto(t, label, a) ==
    /\ pc' = [pc EXCEPT ![t] = label]
    /\ arg' = [arg EXCEPT ![t] = a]
Return(t) == Goto(t, "idle", NoArg)

(* waitReqCon_.notify_all(), then thread t goes on at label.               *)
NotifyAllAndGoto(t, label) ==
    /\ pc' = [u \in Threads |-> IF u = t THEN label
                                ELSE IF pc[u] = "waiting" THEN "woken" ELSE pc[u]]
    /\ arg' = [arg EXCEPT ![t] = NoArg]
NotifyAllAndReturn(t) == NotifyAllAndGoto(t, "idle")

----------------------------------------------------------------------------
(* RequestBuffer                                                           *)

(* ReuseBuffer's bookkeeping while the producer's own cache is known to be *)
(* empty: the flag falls when every buffer of the queue was handed out.    *)
NoteReturned(s) ==
    LET returned == producerCacheList \cup {s}
        complete == DOMAIN cache' \subseteq returned
    IN  IF producerCacheClean
        THEN /\ producerCacheClean' = ~complete
             /\ producerCacheList' = IF complete THEN {} ELSE returned
        ELSE UNCHANGED cleanVars

GiveToProducer(s) == producerHeld' = producerHeld \cup {s}

(* A buffer whose configuration is the one asked for is handed out again.  *)
ReuseSameConfig(p, s) ==
    /\ cache[s].config = arg[p]
    /\ cache' = [cache EXCEPT ![s].state = "REQUESTED"]
    /\ deletingList' = <<>>
    /\ NoteReturned(s)
    /\ GiveToProducer(s)
    /\ UNCHANGED nextSequence

(* Otherwise it is deleted and a new one allocated in its place ...        *)
ReuseReallocFaultShared(p, s) ==
    /\ cache[s].config # arg[p] /\ CanAlloc
    /\ cache' = Put(Erase(cache, {s}), nextSequence, NewElement("REQUESTED", arg[p]))
    /\ deletingList' = <<>>
    /\ NoteReturned(nextSequence)
    /\ GiveToProducer(nextSequence)
    /\ nextSequence' = nextSequence + 1
ReuseRealloc(p, s) ==
    /\ cache[s].config # arg[p] /\ ~isShared /\ CanAlloc
    /\ cache' = Put(Erase(cache, {s}), nextSequence, NewElement("REQUESTED", arg[p]))
    /\ deletingList' = <<>>
    /\ NoteReturned(nextSequence)
    /\ GiveToProducer(nextSequence)
    /\ nextSequence' = nextSequence + 1

(* ... which may fail, when the deleted buffer stays deleted.              *)
ReuseReallocFails(p, s) ==
    /\ cache[s].config # arg[p] /\ ~isShared /\ AllocMayFail
    /\ cache' = Erase(cache, {s})
    /\ deletingList' = Append(deletingList, s)
    /\ UNCHANGED <<cleanVars, producerHeld, nextSequence>>

(* A shared buffer is never replaced: INVALID_ARGUMENTS.                   *)
ReuseRefused(p, s) ==
    /\ cache[s].config # arg[p] /\ isShared
    /\ UNCHANGED <<cache, deletingList, cleanVars, producerHeld, nextSequence>>

ReuseBuffer(p, s) ==
    \/ ReuseSameConfig(p, s)
    \/ ReuseRealloc(p, s)
    \/ ReuseReallocFails(p, s)
    \/ ReuseRefused(p, s)

(* PopFromFreeList: the first free buffer of that configuration, or else   *)
(* the first free buffer.                                                  *)
PopIndex(i, config) ==
    LET Fits(j) == cache[freeList[j]].config = config
    IN  \/ Fits(i) /\ \A j \in 1..(i - 1) : ~Fits(j)
        \/ i = 1 /\ \A j \in DOMAIN freeList : ~Fits(j)

PopAndReuse(p) ==
    \/ /\ SharedHit
       /\ \E s \in DOMAIN cache : SharedBuffer(s) /\ ReuseBuffer(p, s)
       /\ UNCHANGED freeList
    \/ /\ ~SharedHit
       /\ \E i \in DOMAIN freeList :
            /\ PopIndex(i, arg[p])
            /\ ReuseBuffer(p, freeList[i])
            /\ freeList' = RemoveAt(freeList, i)

NothingFree == ~SharedHit /\ freeList = <<>>

AllocBuffer(p) ==
    /\ \/ /\ CanAlloc
          /\ cache' = Put(cache, nextSequence, NewElement("REQUESTED", arg[p]))
          /\ GiveToProducer(nextSequence)
          /\ nextSequence' = nextSequence + 1
       \/ /\ AllocMayFail
          /\ UNCHANGED <<cache, producerHeld, nextSequence>>
    /\ UNCHANGED <<freeList, deletingList, cleanVars>>

(* What both critical sections of RequestBuffer do with room or a buffer.  *)
TakeBuffer(p) ==
    /\ \/ PopAndReuse(p)
       \/ NothingFree /\ HasRoom /\ AllocBuffer(p)
    /\ Return(p)
    /\ UNCHANGED <<dirtyList, statusVars, consumerHeld, notifications>>

Full == NothingFree /\ ~HasRoom
WaitPredicate == freeList # <<>> \/ HasRoom \/ ~isValidStatus

noBufferVars == <<bufferVars, statusVars, cleanVars, nextSequence, clientVars>>

RequestBuffer(p, config) ==
    /\ Idle(p) /\ isValidStatus /\ listener
    /\ Goto(p, "requestLock", config)
    /\ UNCHANGED noBufferVars

(* A call refused at the door: NO_CONSUMER.                                *)
CallRefused(p) ==
    /\ Idle(p) /\ (~isValidStatus \/ ~listener)
    /\ UNCHANGED vars

RequestLocked(p) ==
    /\ pc[p] = "requestLock" /\ MutexFree
    /\ TakeBuffer(p)

RequestMustWait(p) ==
    /\ pc[p] = "requestLock" /\ MutexFree /\ Full
    /\ IF isValidStatus THEN Goto(p, "waitEnter", arg[p]) ELSE Return(p)
    /\ UNCHANGED noBufferVars

(* wait_for releases mutex_ and blocks; it may run out of time, and a      *)
(* notified thread blocks again unless the predicate holds.                *)
WaitBlock(p) ==
    /\ pc[p] = "waitEnter"
    /\ Goto(p, "waiting", arg[p])
    /\ UNCHANGED noBufferVars

WaitTimeout(p) ==
    /\ pc[p] = "waiting"
    /\ Goto(p, "timedOut", arg[p])
    /\ UNCHANGED noBufferVars

WaitAgain(p) ==
    /\ pc[p] = "woken" /\ MutexFree /\ ~WaitPredicate
    /\ Goto(p, "waitEnter", arg[p])
    /\ UNCHANGED noBufferVars

WaitOverFaultIgnoresTimeout(p) == pc[p] = "woken" /\ WaitPredicate
WaitOver(p) == (pc[p] = "woken" /\ WaitPredicate) \/ pc[p] = "timedOut"

RetryTakes(p) ==
    /\ WaitOver(p) /\ MutexFree /\ isValidStatus
    /\ TakeBuffer(p)

(* NO_CONSUMER after a wait, or NO_BUFFER when the wait brought nothing.   *)
RetryFails(p) ==
    /\ WaitOver(p) /\ MutexFree
    /\ ~isValidStatus \/ Full
    /\ Return(p)
    /\ UNCHANGED noBufferVars

----------------------------------------------------------------------------
(* CancelBuffer and FlushBuffer                                            *)

Requested(s) == s \in DOMAIN cache /\ cache[s].state = "REQUESTED"

CancelLocked(s) ==
    /\ cache' = [cache EXCEPT ![s].state = "RELEASED"]
    /\ freeList' = Append(freeList, s)
    /\ UNCHANGED <<dirtyList, deletingList>>

CancelBuffer(p, s) ==
    /\ "CancelBuffer" \in Calls
    /\ Idle(p) /\ s \in producerHeld /\ ~isShared /\ MutexFree
    /\ Requested(s)
    /\ CancelLocked(s)
    /\ NotifyAllAndReturn(p)
    /\ producerHeld' = producerHeld \ {s}
    /\ UNCHANGED <<statusVars, cleanVars, nextSequence, consumerHeld, notifications>>

(* First critical section of FlushBuffer: is the buffer in the queue, and  *)
(* with the producer?                                                      *)
Flushable(s) ==
    s \in DOMAIN cache /\ (isShared \/ cache[s].state \in {"REQUESTED", "ATTACHED"})

FlushBuffer(p, s) ==
    /\ Idle(p) /\ s \in producerHeld /\ isValidStatus /\ MutexFree
    /\ isShared => Len(dirtyList) < MaxListLength
    /\ IF Flushable(s) THEN Goto(p, "flushListener", s) ELSE Return(p)
    /\ producerHeld' = producerHeld \ {s}
    /\ UNCHANGED <<bufferVars, statusVars, cleanVars, nextSequence, consumerHeld, notifications>>

FlushHasListener(p) ==
    /\ pc[p] = "flushListener" /\ listener
    /\ Goto(p, "doFlush", arg[p])
    /\ UNCHANGED noBufferVars

(* Nobody listens: FlushBuffer cancels the buffer itself, which an         *)
(* attached or a shared buffer does not allow: the caller keeps it.        *)
FlushCancels(p) ==
    LET s == arg[p] IN
    /\ pc[p] = "flushListener" /\ ~listener /\ MutexFree
    /\ IF ~isShared /\ Requested(s)
       THEN CancelLocked(s) /\ NotifyAllAndReturn(p) /\ UNCHANGED producerHeld
       ELSE Return(p) /\ GiveToProducer(s) /\ UNCHANGED bufferVars
    /\ UNCHANGED <<statusVars, cleanVars, nextSequence, consumerHeld, notifications>>

(* DoFlushBuffer: the second critical section.  The queue may have been    *)
(* cleared since the check (NO_ENTRY); a buffer marked for deletion is     *)
(* deleted; else it is dirty, whether or not FlushCache then fails.        *)
DoFlushGoneFaultDeletingToo(p) ==
    /\ pc[p] = "doFlush" /\ MutexFree
    /\ arg[p] \in DOMAIN cache => cache[arg[p]].isDeleting
    /\ Return(p)
    /\ UNCHANGED noBufferVars
DoFlushGone(p) ==
    /\ pc[p] = "doFlush" /\ MutexFree
    /\ arg[p] \notin DOMAIN cache
    /\ Return(p)
    /\ UNCHANGED noBufferVars

DoFlushDeletes(p) ==
    LET s == arg[p] IN
    /\ pc[p] = "doFlush" /\ MutexFree
    /\ s \in DOMAIN cache /\ cache[s].isDeleting
    /\ cache' = Erase(cache, {s})
    /\ deletingList' = Append(deletingList, s)
    /\ Goto(p, "flushNotify", s)
    /\ UNCHANGED <<freeList, dirtyList, statusVars, cleanVars, nextSequence, clientVars>>

DoFlushBuffer(p) ==
    LET s == arg[p] IN
    /\ pc[p] = "doFlush" /\ MutexFree
    /\ s \in DOMAIN cache /\ ~cache[s].isDeleting
    /\ cache' = [cache EXCEPT ![s].state = "FLUSHED"]
    /\ dirtyList' = Append(dirtyList, s)
    /\ \/ Goto(p, "flushNotify", s)
       \/ "FlushCache" \in Failures /\ Return(p)
    /\ UNCHANGED <<freeList, deletingList, statusVars, cleanVars, nextSequence, clientVars>>

(* OnBufferAvailable                                                       *)
AnnouncedFaultNotCounted == IF listener THEN 1 ELSE notifications
Announced == IF listener THEN notifications + 1 ELSE notifications

FlushNotify(p) ==
    /\ pc[p] = "flushNotify"
    /\ isShared => notifications < MaxListLength
    /\ notifications' = Announced
    /\ Return(p)
    /\ UNCHANGED <<bufferVars, statusVars, cleanVars, nextSequence, producerHeld, consumerHeld>>

----------------------------------------------------------------------------
(* AcquireBuffer and ReleaseBuffer                                         *)

AcquireLocked(s) ==
    /\ cache' = [cache EXCEPT ![s].state = "ACQUIRED"]
    /\ consumerHeld' = consumerHeld \cup {s}
    /\ UNCHANGED <<freeList, deletingList>>

AcquireBuffer(c) ==
    /\ Idle(c) /\ MutexFree /\ notifications > 0
    /\ notifications' = notifications - 1
    /\ \/ /\ SharedHit
          /\ \E s \in DOMAIN cache : SharedBuffer(s) /\ AcquireLocked(s)
          /\ UNCHANGED dirtyList
       \/ /\ ~SharedHit /\ dirtyList # <<>>
          /\ AcquireLocked(Head(dirtyList))
          /\ dirtyList' = Tail(dirtyList)
       \/ /\ ~SharedHit /\ dirtyList = <<>>     \* NO_BUFFER
          /\ UNCHANGED <<bufferVars, consumerHeld>>
    /\ UNCHANGED <<statusVars, cleanVars, nextSequence, threadVars, producerHeld>>

Releasable(s) ==
    s \in DOMAIN cache /\ (isShared \/ cache[s].state \in {"ACQUIRED", "ATTACHED"})

ReleaseBuffer(c, s) ==
    /\ Idle(c) /\ s \in consumerHeld /\ MutexFree
    /\ isShared => Len(freeList) < MaxListLength
    /\ IF Releasable(s) THEN Goto(c, "releaseCallback", s) ELSE Return(c)
    /\ consumerHeld' = consumerHeld \ {s}
    /\ UNCHANGED <<bufferVars, statusVars, cleanVars, nextSequence, producerHeld, notifications>>

(* onBufferRelease, if registered, runs without mutex_; when it answers    *)
(* GSERROR_OK, ReleaseBuffer returns and the buffer keeps its state.       *)
ReleaseCallback(c) ==
    /\ pc[c] = "releaseCallback"
    /\ \E result \in ReleaseResults :
         IF result = "ok" THEN Return(c) ELSE Goto(c, "releaseLock", arg[c])
    /\ UNCHANGED noBufferVars

ReleaseGone(c) ==
    /\ pc[c] = "releaseLock" /\ MutexFree
    /\ arg[c] \notin DOMAIN cache
    /\ Return(c)
    /\ UNCHANGED noBufferVars

ReleaseLocked(c) ==
    LET s == arg[c] IN
    /\ pc[c] = "releaseLock" /\ MutexFree
    /\ s \in DOMAIN cache
    /\ IF cache[s].isDeleting
       THEN /\ cache' = Erase(cache, {s})
            /\ deletingList' = Append(deletingList, s)
            /\ UNCHANGED freeList
       ELSE /\ cache' = [cache EXCEPT ![s].state = "RELEASED"]
            /\ freeList' = Append(freeList, s)
            /\ UNCHANGED deletingList
    /\ NotifyAllAndReturn(c)
    /\ UNCHANGED <<dirtyList, statusVars, cleanVars, nextSequence, clientVars>>

----------------------------------------------------------------------------
(* AttachBuffer and DetachBuffer, called by a holder of the buffer         *)

Holder(t, s) == IF t \in Producers THEN s \in producerHeld ELSE s \in consumerHeld

(* A buffer from elsewhere: one detached before, or another queue's.       *)
Attachable(t, s) ==
    s \notin DOMAIN cache /\ (Holder(t, s) \/ (s = nextSequence /\ CanAlloc))

AttachBuffer(t, s, config) ==
    /\ "AttachBuffer" \in Calls
    /\ Idle(t) /\ Attachable(t, s) /\ ~isShared /\ MutexFree
    /\ HasRoom
    /\ cache' = Put(cache, s, NewElement("ATTACHED", config))
    /\ nextSequence' = IF s = nextSequence THEN s + 1 ELSE nextSequence
    /\ IF t \in Producers
       THEN GiveToProducer(s) /\ UNCHANGED consumerHeld
       ELSE consumerHeld' = consumerHeld \cup {s} /\ UNCHANGED producerHeld
    /\ UNCHANGED <<freeList, dirtyList, deletingList, statusVars, cleanVars, threadVars,
                   notifications>>

(* In a full queue AttachBuffer calls DeleteBuffers, which locks mutex_,   *)
(* with mutex_ held; std::mutex is not recursive, so no step leaves        *)
(* "attachRelock".  Without enough free and dirty buffers: OUT_OF_RANGE.   *)
AttachToFullQueue(t, s) ==
    /\ "AttachBuffer" \in Calls
    /\ Idle(t) /\ Attachable(t, s) /\ ~isShared /\ MutexFree
    /\ ~HasRoom
    /\ IF Len(freeList) + Len(dirtyList) >= UsedSize - queueSize + 1
       THEN Goto(t, "attachRelock", s)
       ELSE Return(t)
    /\ UNCHANGED noBufferVars

DetachBuffer(t, s) ==
    /\ "DetachBuffer" \in Calls
    /\ Idle(t) /\ Holder(t, s) /\ ~isShared /\ MutexFree
    /\ s \in DOMAIN cache /\ cache[s].state \in {"REQUESTED", "ACQUIRED"}
    /\ cache' = Erase(cache, {s})
    /\ UNCHANGED <<freeList, dirtyList, deletingList, statusVars, cleanVars, nextSequence,
                   threadVars, clientVars>>

----------------------------------------------------------------------------
(* SetQueueSize, clearing the queue, listeners and status                  *)

(* DeleteBuffers runs under mutex_ with a size read without it, and        *)
(* queueSize_ is written later, again without it.                          *)
SetQueueSize(m, size) ==
    /\ "SetQueueSize" \in Calls
    /\ Idle(m) /\ (isShared => size = 1)
    /\ IF size < queueSize
       THEN MutexFree /\ DeleteBuffers(queueSize - size)
       ELSE UNCHANGED bufferVars
    /\ Goto(m, "setSizeWrite", size)
    /\ UNCHANGED <<statusVars, cleanVars, nextSequence, clientVars>>

SetQueueSizeWrite(m) ==
    /\ pc[m] = "setSizeWrite"
    /\ queueSize' = arg[m]
    /\ IF arg[m] > queueSize THEN NotifyAllAndReturn(m) ELSE Return(m)
    /\ UNCHANGED <<bufferVars, isShared, isValidStatus, listener, cleanVars, nextSequence, clientVars>>

CleanCache(m) ==
    /\ "CleanCache" \in Calls
    /\ Idle(m) /\ MutexFree
    /\ ClearLocked
    /\ NotifyAllAndReturn(m)
    /\ UNCHANGED <<statusVars, cleanVars, nextSequence, clientVars>>

GoBackground(m) ==
    /\ "GoBackground" \in Calls
    /\ Idle(m) /\ MutexFree
    /\ ClearLocked
    /\ producerCacheClean' = FALSE /\ producerCacheList' = {}
    /\ NotifyAllAndReturn(m)
    /\ UNCHANGED <<statusVars, nextSequence, clientVars>>

(* ~ConsumerSurface: OnConsumerDied, then SetStatus(false).                *)
OnConsumerDied(m) ==
    /\ "ConsumerDied" \in Calls
    /\ Idle(m) /\ MutexFree /\ isValidStatus
    /\ ClearLocked
    /\ NotifyAllAndGoto(m, "setStatus")
    /\ UNCHANGED <<statusVars, cleanVars, nextSequence, clientVars>>

SetStatus(m) ==
    /\ pc[m] = "setStatus"
    /\ isValidStatus' = FALSE
    /\ NotifyAllAndReturn(m)
    /\ UNCHANGED <<bufferVars, isShared, queueSize, listener, cleanVars, nextSequence, clientVars>>

(* RegisterConsumerListener (on) and UnregisterConsumerListener.           *)
SetListener(m, on) ==
    /\ "SetListener" \in Calls
    /\ Idle(m) /\ listener # on
    /\ listener' = on
    /\ UNCHANGED <<bufferVars, isShared, queueSize, isValidStatus, cleanVars, nextSequence, threadVars,
                   clientVars>>

(* BufferQueueProducer::GoBackground; mutex_ is not taken.                 *)
SetProducerCacheCleanFlag(m) ==
    /\ "SetProducerCacheCleanFlag" \in Calls
    /\ Idle(m)
    /\ producerCacheClean' = TRUE /\ producerCacheList' = {}
    /\ UNCHANGED <<bufferVars, statusVars, nextSequence, threadVars, clientVars>>

----------------------------------------------------------------------------
(* Steps a thread takes inside a call, and the calls that begin.           *)

RequestStep(p) ==
    \/ RequestLocked(p) \/ RequestMustWait(p)
    \/ WaitBlock(p) \/ WaitAgain(p)
    \/ RetryTakes(p) \/ RetryFails(p)
FlushStep(p) ==
    \/ FlushHasListener(p) \/ FlushCancels(p)
    \/ DoFlushGone(p) \/ DoFlushDeletes(p) \/ DoFlushBuffer(p)
    \/ FlushNotify(p)
InCall(p) == RequestStep(p) \/ FlushStep(p)
ReleaseStep(c) == ReleaseCallback(c) \/ ReleaseGone(c) \/ ReleaseLocked(c)
ManagerStep(m) == SetQueueSizeWrite(m) \/ SetStatus(m)

ProducerCall(p) ==
    \/ \E config \in Configs : RequestBuffer(p, config)
    \/ CallRefused(p)
    \/ \E s \in SeqNumbers : CancelBuffer(p, s) \/ FlushBuffer(p, s)
ConsumerCall(c) == AcquireBuffer(c) \/ \E s \in SeqNumbers : ReleaseBuffer(c, s)
HolderCall(t) ==
    \E s \in SeqNumbers :
        \/ \E config \in Configs : AttachBuffer(t, s, config)
        \/ AttachToFullQueue(t, s)
        \/ DetachBuffer(t, s)
ManagerCall(m) ==
    \/ \E size \in 1..MaxQueueSize : SetQueueSize(m, size)
    \/ CleanCache(m) \/ GoBackground(m) \/ OnConsumerDied(m)
    \/ \E on \in BOOLEAN : SetListener(m, on)
    \/ SetProducerCacheCleanFlag(m)

Next ==
    \/ \E p \in Producers : ProducerCall(p) \/ InCall(p) \/ WaitTimeout(p) \/ HolderCall(p)
    \/ \E c \in Consumers : ConsumerCall(c) \/ ReleaseStep(c) \/ HolderCall(c)
    \/ \E m \in Managers : ManagerCall(m) \/ ManagerStep(m)

Spec == Init /\ [][Next]_vars

(* A thread inside a call keeps running.  It gets mutex_ in the end, since *)
(* every critical section is finite, and wait_for's deadline is absolute,  *)
(* however often the thread is notified: hence strong fairness.  The       *)
(* consumer acts on its notifications.                                     *)
Fairness ==
    /\ \A p \in Producers : SF_vars(InCall(p)) /\ SF_vars(WaitTimeout(p))
    /\ \A c \in Consumers : SF_vars(AcquireBuffer(c) \/ ReleaseStep(c))
    /\ \A m \in Managers : WF_vars(ManagerStep(m))

FairSpec == Spec /\ Fairness

=============================================================================
