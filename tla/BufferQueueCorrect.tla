------------------------- MODULE BufferQueueCorrect -------------------------
(***************************************************************************)
(* What makes BufferQueue correct.  The list and ownership properties are  *)
(* about ordinary queues: a shared queue gives its one buffer to everyone. *)
(***************************************************************************)
EXTENDS BufferQueue

CacheTypeOK ==
    /\ DOMAIN cache \subseteq SeqNumbers
    /\ \A s \in DOMAIN cache : cache[s] \in BufferElement
ListTypeOK ==
    /\ freeList \in Seq(SeqNumbers) /\ dirtyList \in Seq(SeqNumbers)
    /\ deletingList \in Seq(SeqNumbers)
StatusTypeOK ==
    /\ isShared \in BOOLEAN /\ queueSize \in 1..MaxQueueSize
    /\ isValidStatus \in BOOLEAN /\ listener \in BOOLEAN
    /\ producerCacheClean \in BOOLEAN /\ producerCacheList \subseteq SeqNumbers
    /\ nextSequence \in 1..(MaxSequence + 1)
Labels ==
    {"idle", "setSizeWrite", "setStatus", "attachRelock"}
    \cup RequestPcs \cup FlushPcs \cup ReleasePcs
ArgOK(label, a) ==
    /\ label \in Labels
    /\ label \in RequestPcs => a \in Configs
    /\ label \in FlushPcs \cup ReleasePcs => a \in SeqNumbers
    /\ label = "setSizeWrite" => a \in 1..MaxQueueSize
ThreadTypeOK ==
    /\ DOMAIN pc = Threads /\ DOMAIN arg = Threads
    /\ \A t \in Threads : ArgOK(pc[t], arg[t])
ClientTypeOK ==
    /\ producerHeld \subseteq SeqNumbers /\ consumerHeld \subseteq SeqNumbers
    /\ notifications \in Nat

(* The types: in particular a thread's argument fits the place it is at.   *)
TypeOK == CacheTypeOK /\ ListTypeOK /\ StatusTypeOK /\ ThreadTypeOK /\ ClientTypeOK

InState(states) == {s \in DOMAIN cache : cache[s].state \in states}

(* The buffers each side answers for: those it holds and those of its      *)
(* calls that have not returned.                                           *)
FlushingPcs  == {"flushListener", "doFlush"}
WithProducer == producerHeld \cup {arg[t] : t \in {u \in Threads : pc[u] \in FlushingPcs}}
WithConsumer == consumerHeld \cup {arg[t] : t \in {u \in Threads : pc[u] \in ReleasePcs}}

(* The free list holds exactly the released buffers, the dirty list        *)
(* exactly the flushed ones, each once: no step between the two critical   *)
(* sections of FlushBuffer or ReleaseBuffer makes DoFlushBuffer or         *)
(* ReleaseBuffer push a buffer that is already on a list.                  *)
ListsMatchStates ==
    ~isShared =>
      /\ IsInjective(freeList) /\ ToSet(freeList) = InState({"RELEASED"})
      /\ IsInjective(dirtyList) /\ ToSet(dirtyList) = InState({"FLUSHED"})

(* A buffer is never in the hands of both sides, two unfinished flushes or *)
(* releases are never of one buffer, and whoever has a buffer of the queue *)
(* has it in the state that lets him return it.                            *)
ExclusiveHolders ==
    ~isShared =>
      /\ WithProducer \cap WithConsumer = {}
      /\ WithProducer \cap DOMAIN cache \subseteq InState({"REQUESTED", "ATTACHED"})
      /\ WithConsumer \cap DOMAIN cache \subseteq InState({"ACQUIRED", "ATTACHED"})
      /\ \A t, u \in Threads :
           /\ t # u
           /\ pc[t] \in FlushingPcs \cup ReleasePcs
           /\ pc[u] \in FlushingPcs \cup ReleasePcs
           => arg[t] # arg[u]
      /\ \A t \in Threads :
           pc[t] \in FlushingPcs \cup ReleasePcs => arg[t] \notin producerHeld \cup consumerHeld

(* No slot is lost: a buffer that is neither free nor dirty has a holder   *)
(* who will return it.  Errors of Flush, Release, Attach and Alloc must    *)
(* not leave a requested or acquired buffer that nobody knows of.          *)
NoSlotLost ==
    ~isShared =>
      /\ InState({"REQUESTED"}) \subseteq WithProducer
      /\ InState({"ACQUIRED"}) \subseteq WithConsumer
      /\ InState({"ATTACHED"}) \subseteq WithProducer \cup WithConsumer

(* A thread that waits for a buffer does not sleep beside a free one:      *)
(* CancelBuffer and ReleaseBuffer reach every waiter, also the one that    *)
(* has tested the predicate and not blocked yet.                           *)
NoSleepBesideFree ==
    \A p \in Producers : pc[p] \in {"waitEnter", "waiting"} => freeList = <<>>

(* Every frame of the dirty list was announced by OnBufferAvailable or is  *)
(* about to be: no frame waits for a notification that does not come.      *)
Announcing == {p \in Producers : pc[p] = "flushNotify"}
EveryFrameAnnounced ==
    ~isShared => Len(dirtyList) <= notifications + Cardinality(Announcing)

(* Shrinking the queue or reusing a buffer never takes away a buffer that  *)
(* a client has: it leaves the queue by its holder's own call or when the  *)
(* queue is cleared.                                                       *)
HeldBuffersStay ==
    [][\A s \in DOMAIN cache \ DOMAIN cache' :
         \/ s \notin producerHeld \cup consumerHeld
         \/ DOMAIN cache' = {}
         \/ cache' = Erase(cache, {s}) /\ pc' = pc]_vars

(* A shared queue's one buffer is replaced only by clearing the queue,     *)
(* whatever configurations its clients ask for: all see the same memory.   *)
SharedBufferStays ==
    [][isShared /\ DOMAIN cache # {} => DOMAIN cache' \in {DOMAIN cache, {}}]_vars

(* Every RequestBuffer returns, whatever the other threads do.             *)
RequestReturns == \A p \in Producers : pc[p] \in RequestPcs ~> Idle(p)

(* Every flushed frame leaves the dirty list: it is acquired or dropped,   *)
(* as long as the consumer listens.                                        *)
FrameConsumed ==
    []listener => \A s \in SeqNumbers : []<>(isShared \/ s \notin ToSet(dirtyList))

(* The queue implements the lifecycle of BufferLifecycle, whatever threads *)
(* do between critical sections; in particular it never has more than      *)
(* SURFACE_MAX_QUEUE_SIZE buffers, although queueSize_ changes under the   *)
(* requests that compare with it.                                          *)
PlaceOf(state) ==
    CASE state = "RELEASED"  -> "free"     [] state = "REQUESTED" -> "producer"
      [] state = "FLUSHED"   -> "queued"   [] state = "ACQUIRED"  -> "consumer"
      [] state = "ATTACHED"  -> "attached"
Lifecycle == INSTANCE BufferLifecycle
    WITH Buffers  <- SeqNumbers,
         Capacity <- MaxQueueSize,
         frames   <- dirtyList,
         place    <- [s \in SeqNumbers |->
                        IF s \in DOMAIN cache THEN PlaceOf(cache[s].state) ELSE "outside"]
LifecycleSpec == Lifecycle!Spec
----------------------------------------------------------------------------
(* A statement of the repository that the code does not keep.              *)

(* buffer_queue.cpp:739, "if increase the queue size, try to wakeup the    *)
(* blocked thread": no thread is left blocked when there is room again.    *)
GrowthWakesWaiters == \A p \in Producers : pc[p] = "waiting" => UsedSize >= queueSize

=============================================================================
