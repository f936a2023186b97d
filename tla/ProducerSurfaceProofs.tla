------------------------ MODULE ProducerSurfaceProofs ------------------------
(***************************************************************************)
(* Theorems about the client's cache of a buffer queue, for every number   *)
(* of client and consumer threads, every configuration, queue size and     *)
(* failure profile.                                                        *)
(*                                                                         *)
(* The queue's own invariants are those of BufferQueueProofs.  A step of   *)
(* the surface is a step of the queue, by threads that the queue's own     *)
(* specification does not let make it, or gives up a reply; so they are    *)
(* shown of the surface's steps here, from the lemmas about single         *)
(* actions.                                                                *)
(***************************************************************************)
EXTENDS ProducerSurfaceCorrect, BufferQueueProofs

----------------------------------------------------------------------------
(* What the steps do to the queue's numbers.                               *)

Listed == ToSet(freeList) \cup ToSet(dirtyList)

(* Buffers leave the map: into the deleting list, or all of them at once.  *)
Moved ==
    /\ DOMAIN cache' \subseteq DOMAIN cache
    /\ nextSequence' = nextSequence
    /\ Listed' \subseteq Listed \cup DOMAIN cache
    /\ ToSet(deletingList) \cup (DOMAIN cache \ DOMAIN cache') \subseteq ToSet(deletingList')
    /\ ToSet(deletingList')
          \subseteq ToSet(deletingList) \cup ((DOMAIN cache \cup Listed) \ DOMAIN cache')
Cleared ==
    /\ DOMAIN cache' = {}
    /\ nextSequence' = nextSequence
    /\ Listed' = {} /\ ToSet(deletingList') = {}

(* Buffer s is handed to the producer: a free one again, a new one in the  *)
(* place of a free one, or one more.                                       *)
HandedAgain(s) ==
    /\ s \in ToSet(freeList) /\ DOMAIN cache' = DOMAIN cache
    /\ ToSet(deletingList') = {} /\ nextSequence' = nextSequence
    /\ NoteReturned(s)
HandedNew(s) ==
    /\ s = nextSequence /\ nextSequence' = nextSequence + 1
    /\ \E old \in ToSet(freeList) : DOMAIN cache' = (DOMAIN cache \ {old}) \cup {s}
    /\ ToSet(deletingList') = {}
    /\ NoteReturned(s)
HandedMore(s) ==
    /\ s = nextSequence /\ nextSequence' = nextSequence + 1
    /\ DOMAIN cache' = DOMAIN cache \cup {s}
    /\ UNCHANGED <<deletingList, cleanVars>>
Handed(s) ==
    /\ producerHeld' = producerHeld \cup {s}
    /\ Listed' \subseteq Listed
    /\ HandedAgain(s) \/ HandedNew(s) \/ HandedMore(s)

LEMMA EmptySet == ToSet(<<>>) = {}
BY DEF ToSet

LEMMA RemoveAtSubset ==
    ASSUME NEW S, NEW list \in Seq(S), NEW i \in DOMAIN list
    PROVE  ToSet(RemoveAt(list, i)) \subseteq ToSet(list)
<1> DEFINE front == SubSeq(list, 1, i - 1)
           back  == SubSeq(list, i + 1, Len(list))
<1>1. /\ i - 1 \in 0..Len(list) /\ i \in 0..Len(list)
      /\ front \in Seq(S) /\ back \in Seq(S) /\ RemoveAt(list, i) = front \o back
  BY DEF RemoveAt
<1>2. ToSet(front) \subseteq ToSet(list) /\ ToSet(back) \subseteq ToSet(list)
  BY <1>1, SplitSet
<1> HIDE DEF front, back
<1> QED
  BY <1>1, <1>2, ConcatSet

LEMMA KeptMoves ==
    ASSUME UNCHANGED bufferVars, UNCHANGED nextSequence
    PROVE  Moved
BY DEF Moved, Listed, bufferVars

LEMMA ClearClears ==
    ASSUME ClearLocked, UNCHANGED nextSequence
    PROVE  Cleared
BY EmptySet DEF Cleared, Listed, ClearLocked, Erase

(* A buffer is deleted: DoFlushBuffer and ReleaseBuffer of a marked one.   *)
LEMMA DeleteOneMoves ==
    ASSUME TypeOK, NEW s \in SeqNumbers, s \in DOMAIN cache \cup Listed,
           cache' = Erase(cache, {s}), deletingList' = Append(deletingList, s),
           UNCHANGED <<dirtyList, nextSequence>>, Listed' \subseteq Listed
    PROVE  Moved
<1>1. ToSet(deletingList') = ToSet(deletingList) \cup {s}
  BY AppendSet DEF TypeOK, ListTypeOK
<1>2. DOMAIN cache' = DOMAIN cache \ {s}
  BY DEF Erase
<1> QED
  BY <1>1, <1>2 DEF Moved

(* A buffer of the map changes its state and is put on a list, or not.     *)
LEMMA StateMoves ==
    ASSUME TypeOK, NEW s \in SeqNumbers, s \in DOMAIN cache,
           DOMAIN cache' = DOMAIN cache, UNCHANGED <<deletingList, nextSequence>>,
           freeList' = Append(freeList, s) \/ UNCHANGED freeList,
           dirtyList' = Append(dirtyList, s) \/ ToSet(dirtyList') \subseteq ToSet(dirtyList)
    PROVE  Moved
<1>0. freeList \in Seq(SeqNumbers) /\ dirtyList \in Seq(SeqNumbers)
  BY DEF TypeOK, ListTypeOK
<1>a. /\ ToSet(Append(freeList, s)) = ToSet(freeList) \cup {s}
      /\ ToSet(Append(dirtyList, s)) = ToSet(dirtyList) \cup {s}
  BY <1>0, AppendSet
<1>1. ToSet(freeList') \subseteq ToSet(freeList) \cup {s}
  BY <1>a, Zenon
<1>2. ToSet(dirtyList') \subseteq ToSet(dirtyList) \cup {s}
  BY <1>a, Zenon
<1> QED
  BY <1>1, <1>2 DEF Moved, Listed

LEMMA DeleteBuffersMoves ==
    ASSUME TypeOK, NEW count \in Nat, DeleteBuffers(count), UNCHANGED nextSequence
    PROVE  Moved /\ DOMAIN cache \ DOMAIN cache' \subseteq Listed
<1> DEFINE fromFree  == Lesser(count, Len(freeList))
           fromDirty == Lesser(count - fromFree, Len(dirtyList))
           popped  == SubSeq(freeList, 1, fromFree)
           shed    == SubSeq(dirtyList, 1, fromDirty)
           dropped == popped \o shed
           toMark  == count - fromFree - fromDirty
<1>1. /\ freeList' = SubSeq(freeList, fromFree + 1, Len(freeList))
      /\ dirtyList' = SubSeq(dirtyList, fromDirty + 1, Len(dirtyList))
      /\ deletingList' = deletingList \o dropped
      /\ cache' = MarkFirst(Erase(cache, ToSet(dropped)), toMark)
  BY DEF DeleteBuffers
<1>n. /\ freeList \in Seq(SeqNumbers) /\ dirtyList \in Seq(SeqNumbers)
      /\ deletingList \in Seq(SeqNumbers)
      /\ Len(freeList) \in Nat /\ Len(dirtyList) \in Nat
  BY DEF TypeOK, ListTypeOK
<1>2. fromFree \in 0..Len(freeList) /\ count - fromFree \in Nat
  BY <1>n, LesserType
<1>3. fromDirty \in 0..Len(dirtyList)
  BY <1>n, <1>2, LesserType
<1> HIDE DEF fromFree, fromDirty
<1>4. popped \in Seq(SeqNumbers) /\ shed \in Seq(SeqNumbers)
  BY <1>n, <1>2, <1>3, DropFirstType
<1>5. ToSet(freeList) = ToSet(popped) \cup ToSet(freeList')
  BY <1>1, <1>2, <1>n, SplitSet
<1>6. ToSet(dirtyList) = ToSet(shed) \cup ToSet(dirtyList')
  BY <1>1, <1>3, <1>n, SplitSet
<1> HIDE DEF popped, shed
<1>7. ToSet(dropped) = ToSet(popped) \cup ToSet(shed) /\ dropped \in Seq(SeqNumbers)
  BY <1>4, ConcatSet
<1> HIDE DEF dropped, toMark
<1>8. ToSet(deletingList') = ToSet(deletingList) \cup ToSet(dropped)
  BY <1>1, <1>n, <1>7, ConcatSet
<1>9. DOMAIN cache' = DOMAIN cache \ ToSet(dropped)
  BY <1>1 DEF MarkFirst, Erase
<1> QED
  BY <1>5, <1>6, <1>7, <1>8, <1>9 DEF Moved, Listed

(* What a step takes out of the map may be nothing the producer holds.     *)
Gone == DOMAIN cache \ DOMAIN cache'
Spares == Gone \cap producerHeld = {}

LEMMA ListedSpares ==
    ASSUME TypeOK, Owned
    PROVE  Listed \cap producerHeld = {}
<1>1. \A s \in Listed : s \in SeqNumbers
  BY ToSetMeans DEF Listed, TypeOK, ListTypeOK
<1>2. \A s \in Listed : status[s] \in {"RELEASED", "FLUSHED"}
  BY <1>1 DEF Owned, ListsOK, Listed
<1> QED
  BY <1>2 DEF Owned, HandsOK, ProducerStates

LEMMA HandsSpare ==
    ASSUME Owned, NEW t \in Threads, pc[t] \in FlushingPcs \cup ReleasePcs
    PROVE  arg[t] \notin producerHeld
<1>1. arg[t] \in flushing[t] \/ arg[t] \in releasing[t]
  BY DEF flushing, releasing
<1> QED
  BY <1>1 DEF Owned, HandsOK

LEMMA ReuseHands ==
    ASSUME TypeOK, ~isShared, NEW p \in Producers, NEW i \in DOMAIN freeList,
           ReuseBuffer(p, freeList[i]), freeList' = RemoveAt(freeList, i), UNCHANGED dirtyList
    PROVE  \/ \E s \in SeqNumbers : Handed(s)
           \/ /\ Moved /\ Gone \subseteq ToSet(freeList)
              /\ UNCHANGED <<producerHeld, cleanVars>>
<1> DEFINE x == freeList[i]
<1>1. /\ freeList \in Seq(SeqNumbers) /\ x \in SeqNumbers /\ x \in ToSet(freeList)
      /\ nextSequence \in Nat
  BY ToSetMeans DEF TypeOK, ListTypeOK, StatusTypeOK
<1>2. Listed' \subseteq Listed /\ x \in Listed
  BY <1>1, RemoveAtSubset DEF Listed
<1> HIDE DEF x
<1>3. CASE ReuseSameConfig(p, x)
  <2>1. DOMAIN cache' = DOMAIN cache /\ ToSet(deletingList') = {}
    BY <1>3, EmptySet DEF ReuseSameConfig
  <2>2. HandedAgain(x) /\ producerHeld' = producerHeld \cup {x}
    BY <1>1, <1>3, <2>1 DEF ReuseSameConfig, HandedAgain, GiveToProducer
  <2> QED
    BY <1>1, <1>2, <2>2 DEF Handed
<1>4. CASE ReuseRealloc(p, x)
  <2>0. nextSequence \in SeqNumbers
    BY <1>1, <1>4, QueueAssumption DEF ReuseRealloc, CanAlloc, SeqNumbers, TypeOK, StatusTypeOK
  <2>1. DOMAIN cache' = (DOMAIN cache \ {x}) \cup {nextSequence} /\ ToSet(deletingList') = {}
    BY <1>4, EmptySet DEF ReuseRealloc, Put, Erase
  <2>2. HandedNew(nextSequence) /\ producerHeld' = producerHeld \cup {nextSequence}
    BY <1>1, <1>4, <2>1 DEF ReuseRealloc, HandedNew, GiveToProducer
  <2> QED
    BY <2>0, <1>2, <2>2 DEF Handed
<1>5. CASE ReuseReallocFails(p, x)
  <2>1. /\ cache' = Erase(cache, {x}) /\ deletingList' = Append(deletingList, x)
        /\ UNCHANGED <<producerHeld, cleanVars>> /\ UNCHANGED nextSequence
    BY <1>5 DEF ReuseReallocFails
  <2>2. Moved
    BY <1>1, <1>2, <2>1, DeleteOneMoves
  <2>3. Gone \subseteq ToSet(freeList)
    BY <1>1, <2>1 DEF Gone, Erase
  <2> QED
    BY <2>1, <2>2, <2>3
<1> QED
  BY <1>3, <1>4, <1>5 DEF ReuseBuffer, ReuseRefused, x

LEMMA TakeHands ==
    ASSUME TypeOK, ~isShared, NEW p \in Producers, TakeBuffer(p)
    PROVE  \/ \E s \in SeqNumbers : Handed(s)
           \/ /\ Moved /\ Gone \subseteq ToSet(freeList)
              /\ UNCHANGED <<producerHeld, cleanVars>>
<1>0. UNCHANGED dirtyList
  BY DEF TakeBuffer
<1>1. CASE PopAndReuse(p)
  BY <1>0, <1>1, ReuseHands DEF PopAndReuse, SharedHit
<1>2. CASE AllocBuffer(p)
  <2>1. UNCHANGED <<freeList, deletingList, cleanVars>> /\ Listed' = Listed
    BY <1>0, <1>2 DEF AllocBuffer, Listed
  <2>2. CASE /\ CanAlloc /\ GiveToProducer(nextSequence) /\ nextSequence' = nextSequence + 1
             /\ cache' = Put(cache, nextSequence, NewElement("REQUESTED", arg[p]))
    <3>1. nextSequence \in SeqNumbers
      BY <2>2, QueueAssumption DEF CanAlloc, SeqNumbers, TypeOK, StatusTypeOK
    <3>2. DOMAIN cache' = DOMAIN cache \cup {nextSequence}
      BY <2>2 DEF Put
    <3>3. HandedMore(nextSequence)
      BY <2>1, <2>2, <3>2 DEF HandedMore
    <3> QED
      BY <2>1, <2>2, <3>1, <3>3 DEF Handed, GiveToProducer
  <2>3. CASE UNCHANGED <<cache, producerHeld, nextSequence>>
    BY <1>0, <2>1, <2>3, KeptMoves DEF bufferVars, Gone
  <2> QED
    BY <1>2, <2>2, <2>3 DEF AllocBuffer
<1> QED
  BY <1>1, <1>2 DEF TakeBuffer

(* A step of a request that hands out nothing.                             *)
LEMMA WaitKeeps ==
    ASSUME NEW p \in Producers,
           \/ \E config \in Configs : RequestBuffer(p, config)
           \/ CallRefused(p) \/ RequestMustWait(p) \/ WaitBlock(p) \/ WaitAgain(p)
           \/ WaitTimeout(p) \/ RetryFails(p)
    PROVE  UNCHANGED noBufferVars
BY DEF RequestBuffer, CallRefused, RequestMustWait, WaitBlock, WaitAgain, WaitTimeout, RetryFails,
       vars, noBufferVars

(* The rest of the queue: the frames and the consumer.                     *)
LEMMA ReturnMoves ==
    ASSUME TypeOK, NEW p \in Producers,
           \/ FlushStep(p)
           \/ \E s \in SeqNumbers : CancelBuffer(p, s) \/ FlushBuffer(p, s)
    PROVE  /\ Moved /\ UNCHANGED <<statusVars, cleanVars>>
           /\ Owned => Spares
<1> USE DEF noBufferVars
<1>p. p \in Threads
  BY DEF Threads
<1>a. pc[p] \in FlushPcs => arg[p] \in SeqNumbers
  BY <1>p DEF TypeOK, ThreadTypeOK, ArgOK
<1>0. UNCHANGED <<statusVars, cleanVars>> /\ UNCHANGED nextSequence
  BY DEF FlushStep, FlushHasListener, FlushCancels, DoFlushGone, DoFlushDeletes, DoFlushBuffer,
         FlushNotify, CancelBuffer, FlushBuffer
<1>k. ASSUME UNCHANGED bufferVars PROVE Moved /\ Spares
  BY <1>0, <1>k, KeptMoves DEF Spares, Gone, bufferVars
<1>c. ASSUME NEW s \in SeqNumbers, Requested(s), CancelLocked(s)
      PROVE  Moved /\ Spares
  <2>1. /\ s \in DOMAIN cache /\ DOMAIN cache' = DOMAIN cache
        /\ freeList' = Append(freeList, s) /\ UNCHANGED <<dirtyList, deletingList>>
    BY <1>c DEF Requested, CancelLocked
  <2>2. ToSet(dirtyList') \subseteq ToSet(dirtyList)
    BY <2>1
  <2> QED
    BY <1>0, <2>1, <2>2, StateMoves DEF Spares, Gone
<1>1. ASSUME NEW s \in SeqNumbers, CancelBuffer(p, s)
      PROVE  Moved /\ Spares
  BY <1>1, <1>c DEF CancelBuffer
<1>2. CASE (\E s \in SeqNumbers : FlushBuffer(p, s)) \/ FlushHasListener(p) \/ DoFlushGone(p)
           \/ FlushNotify(p)
  BY <1>2, <1>k DEF FlushBuffer, FlushHasListener, DoFlushGone, FlushNotify
<1>3. CASE FlushCancels(p)
  <2>0. arg[p] \in SeqNumbers
    BY <1>3, <1>a DEF FlushCancels, FlushPcs
  <2> QED
    BY <1>3, <2>0, <1>c, <1>k DEF FlushCancels
<1>4. CASE DoFlushDeletes(p)
  <2>0. arg[p] \in SeqNumbers /\ pc[p] \in FlushingPcs
    BY <1>4, <1>a DEF DoFlushDeletes, FlushPcs, FlushingPcs
  <2>1. /\ cache' = Erase(cache, {arg[p]}) /\ deletingList' = Append(deletingList, arg[p])
        /\ arg[p] \in DOMAIN cache /\ UNCHANGED <<freeList, dirtyList>>
    BY <1>4 DEF DoFlushDeletes
  <2>2. Moved
    BY <1>0, <2>0, <2>1, DeleteOneMoves DEF Listed
  <2>3. Gone \subseteq {arg[p]}
    BY <2>1 DEF Gone, Erase
  <2> QED
    BY <1>0, <1>p, <2>0, <2>2, <2>3, HandsSpare DEF Spares
<1>5. CASE DoFlushBuffer(p)
  <2>0. arg[p] \in SeqNumbers
    BY <1>5, <1>a DEF DoFlushBuffer, FlushPcs
  <2>1. /\ arg[p] \in DOMAIN cache /\ DOMAIN cache' = DOMAIN cache
        /\ dirtyList' = Append(dirtyList, arg[p]) /\ UNCHANGED <<freeList, deletingList>>
    BY <1>5 DEF DoFlushBuffer
  <2> QED
    BY <1>0, <2>0, <2>1, StateMoves DEF Spares, Gone
<1> QED
  BY <1>0, <1>1, <1>2, <1>3, <1>4, <1>5 DEF FlushStep

LEMMA ConsumerMoves ==
    ASSUME TypeOK, ~isShared, NEW c \in Consumers, ConsumerCall(c) \/ ReleaseStep(c)
    PROVE  /\ Moved /\ UNCHANGED <<statusVars, cleanVars, producerHeld>>
           /\ Owned => Spares
<1> USE DEF noBufferVars
<1>p. c \in Threads
  BY DEF Threads
<1>a. pc[c] \in ReleasePcs => arg[c] \in SeqNumbers
  BY <1>p DEF TypeOK, ThreadTypeOK, ArgOK
<1>0. UNCHANGED <<statusVars, cleanVars, producerHeld>> /\ UNCHANGED nextSequence
  BY DEF ConsumerCall, AcquireBuffer, ReleaseBuffer, ReleaseStep, ReleaseCallback, ReleaseGone,
         ReleaseLocked, clientVars
<1>k. ASSUME UNCHANGED bufferVars PROVE Moved /\ Spares
  BY <1>0, <1>k, KeptMoves DEF Spares, Gone, bufferVars
<1>1. CASE AcquireBuffer(c)
  <2>1. CASE dirtyList = <<>>
    BY <1>0, <1>1, <1>k, <2>1 DEF AcquireBuffer, SharedHit
  <2>2. CASE dirtyList # <<>>
    <3>1. /\ DOMAIN cache' = DOMAIN cache /\ UNCHANGED <<freeList, deletingList>>
          /\ dirtyList' = Tail(dirtyList)
      BY <1>1, <2>2 DEF AcquireBuffer, SharedHit, AcquireLocked
    <3>2. ToSet(dirtyList') \subseteq ToSet(dirtyList)
      <4>1. /\ dirtyList \in Seq(SeqNumbers) /\ dirtyList' \in Seq(SeqNumbers)
            /\ \A i \in 1..Len(dirtyList') :
                 i + 1 \in 1..Len(dirtyList) /\ dirtyList'[i] = dirtyList[i + 1]
        BY <2>2, <3>1 DEF TypeOK, ListTypeOK
      <4>2. ASSUME NEW s \in ToSet(dirtyList')
            PROVE  s \in ToSet(dirtyList)
        BY <4>1, ToSetMeans
      <4> QED
        BY <4>2
    <3> QED
      BY <1>0, <3>1, <3>2 DEF Moved, Listed, Spares, Gone
  <2> QED
    BY <2>1, <2>2, <1>0
<1>2. CASE (\E s \in SeqNumbers : ReleaseBuffer(c, s)) \/ ReleaseCallback(c) \/ ReleaseGone(c)
  BY <1>0, <1>2, <1>k DEF ReleaseBuffer, ReleaseCallback, ReleaseGone
<1>3. CASE ReleaseLocked(c)
  <2>0. arg[c] \in SeqNumbers /\ pc[c] \in ReleasePcs /\ arg[c] \in DOMAIN cache
    BY <1>3, <1>a DEF ReleaseLocked, ReleasePcs
  <2>1. CASE cache[arg[c]].isDeleting
    <3>1. /\ cache' = Erase(cache, {arg[c]}) /\ deletingList' = Append(deletingList, arg[c])
          /\ UNCHANGED <<freeList, dirtyList>>
      BY <1>3, <2>1 DEF ReleaseLocked
    <3>2. Moved
      BY <1>0, <2>0, <3>1, DeleteOneMoves DEF Listed
    <3>3. Gone \subseteq {arg[c]}
      BY <3>1 DEF Gone, Erase
    <3> QED
      BY <1>0, <1>p, <2>0, <3>2, <3>3, HandsSpare DEF Spares
  <2>2. CASE ~cache[arg[c]].isDeleting
    <3>1. /\ DOMAIN cache' = DOMAIN cache /\ freeList' = Append(freeList, arg[c])
          /\ UNCHANGED <<dirtyList, deletingList>>
      BY <1>3, <2>2 DEF ReleaseLocked
    <3> QED
      BY <1>0, <2>0, <3>1, StateMoves DEF Spares, Gone
  <2> QED
    BY <2>1, <2>2
<1> QED
  BY <1>1, <1>2, <1>3 DEF ConsumerCall, ReleaseStep

LEMMA ManagerMoves ==
    ASSUME TypeOK, NEW m \in Threads, ManagerCall(m) \/ ManagerStep(m)
    PROVE  /\ UNCHANGED <<isShared, producerHeld>>
           /\ \/ Moved /\ (Owned => Spares)
              \/ Cleared /\ (CleanCache(m) \/ GoBackground(m) \/ OnConsumerDied(m))
<1>0. UNCHANGED <<isShared, producerHeld>> /\ UNCHANGED nextSequence
  BY DEF ManagerCall, ManagerStep, SetQueueSize, SetQueueSizeWrite, CleanCache, GoBackground,
         OnConsumerDied, SetStatus, SetListener, SetProducerCacheCleanFlag, statusVars, clientVars
<1>k. ASSUME UNCHANGED bufferVars PROVE Moved /\ Spares
  BY <1>0, <1>k, KeptMoves DEF Spares, Gone, bufferVars
<1>1. ASSUME NEW size \in 1..MaxQueueSize, SetQueueSize(m, size)
      PROVE  Moved /\ (Owned => Spares)
  <2>1. CASE size < queueSize
    <3>1. queueSize - size \in Nat
      BY <2>1, QueueAssumption DEF TypeOK, StatusTypeOK
    <3>2. DeleteBuffers(queueSize - size)
      BY <1>1, <2>1 DEF SetQueueSize
    <3>3. Moved /\ Gone \subseteq Listed
      BY <1>0, <3>1, <3>2, DeleteBuffersMoves DEF Gone
    <3> QED
      BY <3>3, ListedSpares DEF Spares
  <2>2. CASE ~(size < queueSize)
    BY <1>1, <1>k, <2>2 DEF SetQueueSize
  <2> QED
    BY <2>1, <2>2
<1>2. CASE SetQueueSizeWrite(m) \/ SetStatus(m) \/ (\E on \in BOOLEAN : SetListener(m, on))
           \/ SetProducerCacheCleanFlag(m)
  BY <1>0, <1>2, <1>k DEF SetQueueSizeWrite, SetStatus, SetListener, SetProducerCacheCleanFlag
<1>3. CASE CleanCache(m) \/ GoBackground(m) \/ OnConsumerDied(m)
  <2>1. ClearLocked
    BY <1>3 DEF CleanCache, GoBackground, OnConsumerDied
  <2> QED
    BY <1>0, <1>3, <2>1, ClearClears
<1> QED
  BY <1>0, <1>1, <1>2, <1>3 DEF ManagerCall, ManagerStep

----------------------------------------------------------------------------
(* Types, of the queue and of the surface.                                 *)

Places == {"app"} \cup RequestPlaces \cup ClearPlaces
Replies ==
    [sequence : SeqNumbers \cup {0}, buffer : BOOLEAN, deletingBuffers : SUBSET SeqNumbers]
SurfaceTypeOK ==
    /\ TypeOK /\ ~isShared
    /\ at \in [Producers -> Places] /\ reply \in [Producers -> Replies]
    /\ \A p \in Producers : at[p] # "reply" => reply[p] = NoReply

(* The steps of the surface that are a member function of the queue's.     *)
Clears(p) == CleanCache(p) \/ GoBackground(p) \/ SetProducerCacheCleanFlag(p)
Manages(m) ==
    \/ \E size \in 1..MaxQueueSize : SetQueueSize(m, size)
    \/ OnConsumerDied(m)
    \/ \E on \in BOOLEAN : SetListener(m, on)
    \/ GoBackground(m)
    \/ ManagerStep(m)
Takes(p) == RequestLocked(p) \/ RetryTakes(p)
Waits(p) ==
    \/ \E config \in Configs : RequestBuffer(p, config)
    \/ CallRefused(p) \/ RequestMustWait(p) \/ WaitBlock(p) \/ WaitAgain(p)
    \/ WaitTimeout(p) \/ RetryFails(p)
Returns(p) ==
    \/ FlushStep(p)
    \/ \E s \in SeqNumbers : Delivered(s) /\ (CancelBuffer(p, s) \/ FlushBuffer(p, s))
GivesUp(p) ==
    /\ ApplyReply(p) /\ at[p] = "reply" /\ ~Resolves(reply[p])
    /\ producerHeld' = producerHeld \ {reply[p].sequence}
    /\ UNCHANGED <<bufferVars, statusVars, cleanVars, nextSequence, threadVars, consumerHeld,
                   notifications>>

(* Every step of the surface, by what the queue does meanwhile.            *)
LEMMA QueueSteps ==
    ASSUME SurfaceNext
    PROVE  \/ \E p \in Producers : Takes(p) \/ Waits(p) \/ Returns(p) \/ Clears(p) \/ GivesUp(p)
           \/ \E c \in Consumers : ConsumerCall(c) \/ ReleaseStep(c)
           \/ \E m \in Managers : Manages(m)
           \/ UNCHANGED vars
<1>1. ASSUME NEW p \in Producers,
             \/ \E config \in Configs : SurfaceRequest(p, config)
             \/ RequestServed(p) \/ RequestWaits(p) \/ SurfaceReturns(p)
      PROVE  Takes(p) \/ Waits(p) \/ Returns(p)
  BY <1>1 DEF SurfaceRequest, RequestServed, RequestWaits, SurfaceReturns, Takes, Waits, Returns
<1>2. ASSUME NEW p \in Producers, ApplyReply(p)
      PROVE  GivesUp(p) \/ UNCHANGED vars
  BY <1>2 DEF ApplyReply, GivesUp
<1>3. ASSUME NEW p \in Producers,
             ProducerCleanCache(p) \/ ProducerGoBackground(p) \/ DisconnectClears(p)
      PROVE  Clears(p)
  BY <1>3 DEF ProducerCleanCache, ProducerGoBackground, DisconnectClears, Clears
<1>4. ASSUME NEW p \in Producers,
             \/ RequestRefused(p) \/ SurfaceCleanCache(p) \/ SurfaceGoBackground(p)
             \/ SurfaceDisconnect(p) \/ NotConnected(p) \/ ProducerDisconnect(p)
             \/ SetDisconnected(p)
      PROVE  UNCHANGED vars
  BY <1>4 DEF RequestRefused, SurfaceCleanCache, SurfaceGoBackground, SurfaceDisconnect, Forgets,
              NotConnected, ProducerDisconnect, SetDisconnected
<1>5. CASE OtherSide
  BY <1>5 DEF OtherSide, ConsumerGoBackground, Manages
<1> QED
  BY <1>1, <1>2, <1>3, <1>4, <1>5 DEF SurfaceNext, ClientStep

LEMMA ManagesIsManager ==
    ASSUME NEW t \in Threads, Clears(t) \/ Manages(t)
    PROVE  ManagerCall(t) \/ ManagerStep(t)
BY DEF Clears, Manages, ManagerCall

LEMMA TakesIsTake ==
    ASSUME NEW p \in Producers, Takes(p)
    PROVE  TakeBuffer(p) /\ RequestStep(p) /\ pc[p] \in RequestPcs
BY DEF Takes, RequestLocked, RetryTakes, RequestStep, WaitOver, RequestPcs

LEMMA QueueTypeStep ==
    ASSUME TypeOK, ~isShared, SurfaceNext
    PROVE  TypeOK' /\ ~isShared'
<1>1. ASSUME NEW p \in Producers, Takes(p)
      PROVE  TypeOK' /\ ~isShared'
  BY <1>1, TakesIsTake, RequestType DEF TakeBuffer, statusVars
<1>2. ASSUME NEW p \in Producers, Waits(p)
      PROVE  TypeOK' /\ ~isShared'
  <2>1. UNCHANGED noBufferVars
    BY <1>2, WaitKeeps DEF Waits
  <2> QED
    BY <1>2, <2>1, RequestType DEF Waits, RequestStep, noBufferVars, statusVars
<1>3. ASSUME NEW p \in Producers, Returns(p)
      PROVE  TypeOK' /\ ~isShared'
  BY <1>3, FlushType, ReturnMoves DEF Returns, statusVars
<1>4. ASSUME NEW p \in Producers, GivesUp(p)
      PROVE  TypeOK' /\ ~isShared'
  <2>1. /\ UNCHANGED bufferVars /\ UNCHANGED <<statusVars, cleanVars, nextSequence>>
        /\ UNCHANGED threadVars /\ UNCHANGED <<consumerHeld, notifications>>
        /\ producerHeld' \subseteq producerHeld
    BY <1>4 DEF GivesUp
  <2>2. ClientTypeOK' /\ ThreadTypeOK'
    BY <2>1 DEF TypeOK, ClientTypeOK, ThreadTypeOK, threadVars
  <2> QED
    BY <2>1, <2>2, UnchangedBuffers, UnchangedStatus DEF TypeOK, statusVars
<1>5. ASSUME NEW t \in Threads, Clears(t) \/ Manages(t)
      PROVE  TypeOK' /\ ~isShared'
  BY <1>5, ManagesIsManager, ManagerType, ManagerMoves
<1>6. ASSUME NEW c \in Consumers, ConsumerCall(c) \/ ReleaseStep(c)
      PROVE  TypeOK' /\ ~isShared'
  BY <1>6, ConsumerType, ConsumerMoves DEF statusVars
<1>7. CASE UNCHANGED vars
  BY <1>7, StutterType DEF vars, statusVars
<1> QED
  BY <1>1, <1>2, <1>3, <1>4, <1>5, <1>6, <1>7, QueueSteps DEF Threads

(* Every step of the surface, by what becomes of the replies.              *)
ServesReply(p, s) ==
    /\ at[p] = "request" /\ Takes(p) /\ MoveTo(p, "reply")
    /\ s \in producerHeld' \ producerHeld
    /\ reply' = [reply EXCEPT ![p] =
                   [sequence |-> s, buffer |-> Sends(s), deletingBuffers |-> Reported]]
    /\ UNCHANGED <<clientCache, isDisconnected, connected>>

LEMMA ReplySteps ==
    ASSUME SurfaceNext
    PROVE  \/ UNCHANGED <<at, reply>>
           \/ \E p \in Producers : \E l \in Places \ {"reply"} :
                  at[p] # "reply" /\ MoveTo(p, l) /\ UNCHANGED reply
           \/ \E p \in Producers : ApplyReply(p)
           \/ \E p \in Producers : \E s : ServesReply(p, s)
<1> DEFINE Moves(p) == \E l \in Places \ {"reply"} :
                         at[p] # "reply" /\ MoveTo(p, l) /\ UNCHANGED reply
<1> USE DEF Places, RequestPlaces, ClearPlaces
<1>1. ASSUME NEW p \in Producers, NEW config \in Configs, SurfaceRequest(p, config)
      PROVE  Moves(p)
  BY <1>1 DEF SurfaceRequest, InApp
<1>2. ASSUME NEW p \in Producers, RequestServed(p)
      PROVE  Moves(p) \/ \E s : ServesReply(p, s)
  BY <1>2 DEF RequestServed, ServesReply, Takes
<1>3. ASSUME NEW p \in Producers, RequestWaits(p)
      PROVE  Moves(p) \/ UNCHANGED <<at, reply>>
  <2>1. at[p] = "request" /\ UNCHANGED reply
    BY <1>3 DEF RequestWaits
  <2>2. UNCHANGED at \/ MoveTo(p, "app") \/ MoveTo(p, "refused")
    BY <1>3 DEF RequestWaits
  <2> QED
    BY <2>1, <2>2
<1>4. ASSUME NEW p \in Producers,
             \/ RequestRefused(p) \/ SurfaceCleanCache(p) \/ SurfaceGoBackground(p)
             \/ SurfaceDisconnect(p)
      PROVE  Moves(p)
  BY <1>4 DEF RequestRefused, SurfaceCleanCache, SurfaceGoBackground, SurfaceDisconnect, Forgets,
              InApp
<1>5. ASSUME NEW p \in Producers, NotConnected(p)
      PROVE  Moves(p)
  BY <1>5 DEF NotConnected
<1>6. ASSUME NEW p \in Producers,
             \/ ProducerCleanCache(p) \/ ProducerGoBackground(p) \/ ProducerDisconnect(p)
             \/ DisconnectClears(p) \/ SetDisconnected(p)
      PROVE  Moves(p)
  BY <1>6 DEF ProducerCleanCache, ProducerGoBackground, ProducerDisconnect, DisconnectClears,
              SetDisconnected
<1>7. ASSUME NEW p \in Producers, SurfaceReturns(p)
      PROVE  UNCHANGED <<at, reply>>
  BY <1>7 DEF SurfaceReturns, surfaceVars
<1>8. CASE OtherSide
  BY <1>8 DEF OtherSide, ConsumerGoBackground, surfaceVars
<1> QED
  BY <1>1, <1>2, <1>3, <1>4, <1>5, <1>6, <1>7, <1>8 DEF SurfaceNext, ClientStep

LEMMA SurfaceTypeStep ==
    ASSUME SurfaceTypeOK, SurfaceNext
    PROVE  SurfaceTypeOK'
<1>1. TypeOK' /\ ~isShared'
  BY QueueTypeStep DEF SurfaceTypeOK
<1>t. at \in [Producers -> Places] /\ reply \in [Producers -> Replies]
  BY DEF SurfaceTypeOK
<1>2. CASE UNCHANGED <<at, reply>>
  BY <1>1, <1>2 DEF SurfaceTypeOK
<1>3. ASSUME NEW p \in Producers, NEW l \in Places \ {"reply"}, at[p] # "reply", MoveTo(p, l),
             UNCHANGED reply
      PROVE  SurfaceTypeOK'
  BY <1>1, <1>3 DEF SurfaceTypeOK, MoveTo
<1>4. ASSUME NEW p \in Producers, ApplyReply(p)
      PROVE  SurfaceTypeOK'
  <2>1. NoReply \in Replies /\ "app" \in Places
    BY DEF NoReply, Replies, Places
  <2>2. at' = [at EXCEPT ![p] = "app"] /\ reply' = [reply EXCEPT ![p] = NoReply]
    BY <1>4 DEF ApplyReply, MoveTo
  <2> QED
    BY <1>1, <2>1, <2>2 DEF SurfaceTypeOK
<1>5. ASSUME NEW p \in Producers, NEW s, ServesReply(p, s)
      PROVE  SurfaceTypeOK'
  <2> DEFINE r == [sequence |-> s, buffer |-> Sends(s), deletingBuffers |-> Reported]
  <2>1. at' = [at EXCEPT ![p] = "reply"] /\ reply' = [reply EXCEPT ![p] = r]
    BY <1>5 DEF ServesReply, MoveTo
  <2>2. s \in SeqNumbers
    BY <1>1, <1>5 DEF ServesReply, TypeOK, ClientTypeOK
  <2>3. Reported \in SUBSET SeqNumbers
    <3>1. ToSet(deletingList) \subseteq SeqNumbers
      BY ToSetMeans DEF SurfaceTypeOK, TypeOK, ListTypeOK
    <3> QED
      BY <3>1 DEF Reported, SurfaceTypeOK, TypeOK, CacheTypeOK
  <2>4. Sends(s) \in BOOLEAN
    BY DEF Sends
  <2>5. r \in Replies /\ "reply" \in Places
    BY <2>2, <2>3, <2>4 DEF Replies, Places, RequestPlaces
  <2> HIDE DEF r
  <2> QED
    BY <1>1, <2>1, <2>5 DEF SurfaceTypeOK
<1> QED
  BY <1>2, <1>3, <1>4, <1>5, ReplySteps

----------------------------------------------------------------------------
(* What a reply reports is not in use.                                     *)

(* No number is used that was not given out.                               *)
Numbered == \A s \in BeingReported \cup DOMAIN cache \cup Listed : s < nextSequence

ReportInv == SurfaceTypeOK /\ Numbered /\ ReportedNotInUse

(* What a step takes from the map, or from the lists, may become reported; *)
(* what it puts into the map is new.                                       *)
LEMMA ReportGrows ==
    ASSUME Numbered, ReportedNotInUse, nextSequence \in Nat,
           \A s \in BeingReported \cup DOMAIN cache \cup Listed : s \in Nat,
           BeingReported' \subseteq BeingReported \cup ((DOMAIN cache \cup Listed) \ DOMAIN cache'),
           Listed' \subseteq Listed \cup DOMAIN cache,
           \/ DOMAIN cache' \subseteq DOMAIN cache /\ nextSequence' = nextSequence
           \/ /\ DOMAIN cache' \subseteq DOMAIN cache \cup {nextSequence}
              /\ nextSequence' = nextSequence + 1
    PROVE  Numbered' /\ ReportedNotInUse'
<1>1. /\ nextSequence' \in {nextSequence, nextSequence + 1}
      /\ DOMAIN cache' \subseteq DOMAIN cache \cup {nextSequence}
      /\ nextSequence \in DOMAIN cache' => nextSequence' = nextSequence + 1
  BY DEF Numbered
<1>2. Numbered'
  BY <1>1 DEF Numbered
<1>3. nextSequence \notin BeingReported
  BY DEF Numbered
<1>4. ReportedNotInUse'
  BY <1>1, <1>3 DEF ReportedNotInUse
<1> QED
  BY <1>2, <1>4

LEMMA QueueGrows ==
    ASSUME TypeOK, ~isShared, SurfaceNext
    PROVE  /\ ToSet(deletingList')
                 \subseteq ToSet(deletingList) \cup ((DOMAIN cache \cup Listed) \ DOMAIN cache')
           /\ Listed' \subseteq Listed \cup DOMAIN cache
           /\ \/ DOMAIN cache' \subseteq DOMAIN cache /\ nextSequence' = nextSequence
              \/ /\ DOMAIN cache' \subseteq DOMAIN cache \cup {nextSequence}
                 /\ nextSequence' = nextSequence + 1
<1> DEFINE Grows ==
       /\ ToSet(deletingList')
             \subseteq ToSet(deletingList) \cup ((DOMAIN cache \cup Listed) \ DOMAIN cache')
       /\ Listed' \subseteq Listed \cup DOMAIN cache
       /\ \/ DOMAIN cache' \subseteq DOMAIN cache /\ nextSequence' = nextSequence
          \/ /\ DOMAIN cache' \subseteq DOMAIN cache \cup {nextSequence}
             /\ nextSequence' = nextSequence + 1
<1>1. Moved \/ Cleared => Grows
  BY DEF Moved, Cleared
<1>2. ASSUME NEW s, Handed(s)
      PROVE  Grows
  <2>1. /\ \/ DOMAIN cache' \subseteq DOMAIN cache /\ nextSequence' = nextSequence
           \/ /\ DOMAIN cache' \subseteq DOMAIN cache \cup {nextSequence}
              /\ nextSequence' = nextSequence + 1
        /\ Listed' \subseteq Listed
    BY <1>2 DEF Handed, HandedAgain, HandedNew, HandedMore
  <2>2. ToSet(deletingList') = {} \/ deletingList' = deletingList
    BY <1>2 DEF Handed, HandedAgain, HandedNew, HandedMore
  <2>3. ToSet(deletingList') \subseteq ToSet(deletingList)
    BY <2>2
  <2> QED
    BY <2>1, <2>3
<1> HIDE DEF Grows
<1>3. ASSUME NEW p \in Producers, Takes(p) PROVE Grows
  BY <1>1, <1>2, <1>3, TakesIsTake, TakeHands
<1>4. ASSUME NEW p \in Producers, Waits(p) PROVE Grows
  BY <1>1, <1>4, WaitKeeps, KeptMoves DEF Waits, noBufferVars
<1>5. ASSUME NEW p \in Producers, Returns(p) PROVE Grows
  BY <1>1, <1>5, ReturnMoves DEF Returns
<1>6. ASSUME NEW p \in Producers, GivesUp(p) PROVE Grows
  BY <1>1, <1>6, KeptMoves DEF GivesUp
<1>7. ASSUME NEW m \in Threads, Clears(m) \/ Manages(m) PROVE Grows
  BY <1>1, <1>7, ManagesIsManager, ManagerMoves
<1>8. ASSUME NEW c \in Consumers, ConsumerCall(c) \/ ReleaseStep(c) PROVE Grows
  BY <1>1, <1>8, ConsumerMoves
<1>9. ASSUME UNCHANGED vars PROVE Grows
  <2>1. UNCHANGED bufferVars /\ UNCHANGED nextSequence
    BY <1>9 DEF vars
  <2> QED
    BY <1>1, <2>1, KeptMoves
<1> QED
  <2>1. Grows
    BY <1>3, <1>4, <1>5, <1>6, <1>7, <1>8, <1>9, QueueSteps DEF Threads
  <2> QED
    BY <2>1 DEF Grows

LEMMA RepliesGrow ==
    ASSUME SurfaceTypeOK, SurfaceNext
    PROVE  BeingReported' \subseteq BeingReported \cup Gone \cup ToSet(deletingList')
<1>t. reply \in [Producers -> Replies]
  BY DEF SurfaceTypeOK
<1>1. ASSUME NEW p \in Producers
      PROVE  reply'[p].deletingBuffers \subseteq BeingReported \cup Gone
  <2>0. reply[p].deletingBuffers \subseteq BeingReported
    BY DEF BeingReported
  <2>1. CASE UNCHANGED reply
    BY <2>0, <2>1
  <2>2. ASSUME NEW q \in Producers, ApplyReply(q)
        PROVE  reply'[p].deletingBuffers \subseteq BeingReported \cup Gone
    <3>1. reply' = [reply EXCEPT ![q] = NoReply] /\ NoReply.deletingBuffers = {}
      BY <2>2 DEF ApplyReply, NoReply
    <3>2. reply'[p] = IF p = q THEN NoReply ELSE reply[p]
      BY <1>t, <3>1
    <3> QED
      BY <2>0, <3>1, <3>2
  <2>3. ASSUME NEW q \in Producers, NEW s, ServesReply(q, s)
        PROVE  reply'[p].deletingBuffers \subseteq BeingReported \cup Gone
    <3> DEFINE r == [sequence |-> s, buffer |-> Sends(s), deletingBuffers |-> Reported]
    <3>1. reply' = [reply EXCEPT ![q] = r]
      BY <2>3 DEF ServesReply
    <3>2. r.deletingBuffers = Reported
      OBVIOUS
    <3>3. Reported \subseteq BeingReported \cup Gone
      BY DEF Reported, BeingReported, Gone
    <3> HIDE DEF r
    <3>4. reply'[p] = IF p = q THEN r ELSE reply[p]
      BY <1>t, <3>1
    <3> QED
      BY <2>0, <3>2, <3>3, <3>4
  <2> QED
    BY <2>1, <2>2, <2>3, ReplySteps
<1> QED
  BY <1>1 DEF BeingReported

LEMMA ReportStep == ReportInv /\ [SurfaceNext]_allVars => ReportInv'
<1> SUFFICES ASSUME ReportInv, [SurfaceNext]_allVars PROVE ReportInv'
  OBVIOUS
<1> USE DEF ReportInv
<1>1. CASE SurfaceNext
  <2>1. SurfaceTypeOK'
    BY <1>1, SurfaceTypeStep
  <2>2. TypeOK /\ ~isShared /\ nextSequence \in Nat
    BY DEF SurfaceTypeOK, TypeOK, StatusTypeOK
  <2>3. \A s \in BeingReported \cup DOMAIN cache \cup Listed : s \in Nat
    <3>1. /\ ToSet(deletingList) \subseteq SeqNumbers /\ ToSet(freeList) \subseteq SeqNumbers
          /\ ToSet(dirtyList) \subseteq SeqNumbers
      BY <2>2, ToSetMeans DEF TypeOK, ListTypeOK
    <3>2. \A p \in Producers : reply[p].deletingBuffers \subseteq SeqNumbers
      BY DEF SurfaceTypeOK, Replies
    <3>3. DOMAIN cache \subseteq SeqNumbers /\ SeqNumbers \subseteq Nat
      BY <2>2 DEF TypeOK, CacheTypeOK, SeqNumbers
    <3> QED
      BY <3>1, <3>2, <3>3 DEF BeingReported, Listed
  <2>4. BeingReported' \subseteq BeingReported \cup Gone \cup ToSet(deletingList')
    BY <1>1, RepliesGrow
  <2>5. /\ ToSet(deletingList')
               \subseteq ToSet(deletingList) \cup ((DOMAIN cache \cup Listed) \ DOMAIN cache')
        /\ Listed' \subseteq Listed \cup DOMAIN cache
        /\ \/ DOMAIN cache' \subseteq DOMAIN cache /\ nextSequence' = nextSequence
           \/ /\ DOMAIN cache' \subseteq DOMAIN cache \cup {nextSequence}
              /\ nextSequence' = nextSequence + 1
    BY <1>1, <2>2, QueueGrows
  <2>6. BeingReported' \subseteq BeingReported \cup ((DOMAIN cache \cup Listed) \ DOMAIN cache')
    <3>1. ToSet(deletingList) \subseteq BeingReported
      BY DEF BeingReported
    <3> QED
      BY <2>4, <2>5, <3>1 DEF Gone
  <2>7. Numbered' /\ ReportedNotInUse'
    BY <2>2, <2>3, <2>5, <2>6, ReportGrows
  <2> QED
    BY <2>1, <2>7
<1>2. CASE UNCHANGED allVars
  <2>1. UNCHANGED vars /\ UNCHANGED <<at, reply>>
    BY <1>2 DEF allVars, surfaceVars
  <2>2. SurfaceTypeOK'
    BY <2>1, StutterType DEF SurfaceTypeOK, vars, statusVars
  <2>3. UNCHANGED <<cache, freeList, dirtyList, deletingList, nextSequence, reply>>
    BY <2>1 DEF vars, bufferVars
  <2> QED
    BY <2>2, <2>3 DEF Numbered, ReportedNotInUse, BeingReported, Listed
<1> QED
  BY <1>1, <1>2

LEMMA ReportInit == SurfaceInit => ReportInv
<1> SUFFICES ASSUME SurfaceInit PROVE ReportInv
  OBVIOUS
<1>1. Init /\ TypeOK /\ ~isShared
  BY InitType, OwnBuffers DEF SurfaceInit, Init
<1>2. NoReply \in Replies /\ "app" \in Places
  BY DEF NoReply, Replies, Places
<1>3. SurfaceTypeOK
  BY <1>1, <1>2 DEF SurfaceInit, SurfaceTypeOK
<1>4. \A p \in Producers : reply[p].deletingBuffers = {}
  BY DEF SurfaceInit, NoReply
<1>5. BeingReported = {} /\ DOMAIN cache = {} /\ Listed = {}
  BY <1>1, <1>4, EmptySet DEF Init, BeingReported, Listed
<1> QED
  BY <1>3, <1>5 DEF ReportInv, Numbered, ReportedNotInUse

LEMMA ReportHolds == SurfaceSpec => []ReportInv
BY ReportInit, ReportStep, PTL DEF SurfaceSpec

(* In every reachable state the buffers that a reply tells the client to   *)
(* forget, or will tell it to, are not in the queue: whatever is deleted,  *)
(* replaced, cleared or given up between RequestBuffer's answer and its    *)
(* application, the cache of a client in whatever habit never loses a      *)
(* buffer in use to a late reply.                                          *)
THEOREM ReportsUnused == SurfaceSpec => []ReportedNotInUse
<1>1. ReportInv => ReportedNotInUse
  BY DEF ReportInv
<1> QED
  BY <1>1, ReportHolds, PTL

----------------------------------------------------------------------------
(* Where the client's threads are, when no thread clears while another     *)
(* requests and the consumer's listener stays.                             *)

Alone ==
    \A p, q \in Producers :
        p # q /\ at[p] \in ClearPlaces => at[q] \notin RequestPlaces \cup ClearPlaces
Forgotten == \A p \in Producers : at[p] \in ClearPlaces => clientCache = {}
Connection ==
    \A p \in Producers :
        /\ at[p] \in RequestPlaces => connected
        /\ at[p] \in {"queueGoBackground", "setDisconnected"} => ~connected
RefusedGone == \A p \in Producers : at[p] = "refused" => ~isValidStatus

PlaceInv == Alone /\ Forgotten /\ Connection /\ listener /\ RefusedGone

LEMMA StatusSteps ==
    ASSUME "SetListener" \notin Calls, SurfaceNext
    PROVE  UNCHANGED listener /\ (isValidStatus' => isValidStatus)
<1> USE DEF statusVars
<1>1. ASSUME NEW p \in Producers, Takes(p)
      PROVE  UNCHANGED <<listener, isValidStatus>>
  BY <1>1, TakesIsTake DEF TakeBuffer
<1>2. ASSUME NEW p \in Producers, Waits(p)
      PROVE  UNCHANGED <<listener, isValidStatus>>
  BY <1>2, WaitKeeps DEF Waits, noBufferVars
<1>3. ASSUME NEW p \in Producers, Returns(p)
      PROVE  UNCHANGED <<listener, isValidStatus>>
  BY <1>3 DEF Returns, FlushStep, FlushHasListener, FlushCancels, DoFlushGone, DoFlushDeletes,
              DoFlushBuffer, FlushNotify, CancelBuffer, FlushBuffer, noBufferVars
<1>4. ASSUME NEW p \in Producers, GivesUp(p) \/ Clears(p)
      PROVE  UNCHANGED <<listener, isValidStatus>>
  BY <1>4 DEF GivesUp, Clears, CleanCache, GoBackground, SetProducerCacheCleanFlag
<1>5. ASSUME NEW c \in Consumers, ConsumerCall(c) \/ ReleaseStep(c)
      PROVE  UNCHANGED <<listener, isValidStatus>>
  BY <1>5 DEF ConsumerCall, AcquireBuffer, ReleaseBuffer, ReleaseStep, ReleaseCallback,
              ReleaseGone, ReleaseLocked, noBufferVars
<1>6. ASSUME NEW m \in Managers, Manages(m)
      PROVE  UNCHANGED listener /\ (isValidStatus' => isValidStatus)
  BY <1>6 DEF Manages, SetQueueSize, OnConsumerDied, SetListener, GoBackground, ManagerStep,
              SetQueueSizeWrite, SetStatus
<1>7. CASE UNCHANGED vars
  BY <1>7 DEF vars
<1> QED
  BY <1>1, <1>2, <1>3, <1>4, <1>5, <1>6, <1>7, QueueSteps

(* One thread moves: which moves keep the threads' places in order.        *)
LEMMA PlaceMove ==
    ASSUME SurfaceTypeOK, PlaceInv, NEW p \in Producers, NEW l \in Places, MoveTo(p, l),
           UNCHANGED listener, isValidStatus' => isValidStatus,
           l \in ClearPlaces =>
              /\ clientCache' = {}
              /\ \A q \in Producers \ {p} : at[q] \notin RequestPlaces \cup ClearPlaces,
           l \in RequestPlaces =>
              connected' /\ \A q \in Producers \ {p} : at[q] \notin ClearPlaces,
           l \in {"queueGoBackground", "setDisconnected"} => ~connected',
           l = "refused" => ~isValidStatus,
           clientCache' \in {clientCache, {}} \/ \A q \in Producers : at[q] \notin ClearPlaces,
           \/ UNCHANGED connected
           \/ /\ connected'
              /\ \A q \in Producers : at[q] \notin {"queueGoBackground", "setDisconnected"}
           \/ ~connected' /\ \A q \in Producers \ {p} : at[q] \notin RequestPlaces
    PROVE  PlaceInv'
<1>0. /\ at' = [at EXCEPT ![p] = l] /\ at \in [Producers -> Places]
  BY DEF MoveTo, SurfaceTypeOK
<1>1. \A q \in Producers : at'[q] = IF q = p THEN l ELSE at[q]
  BY <1>0
<1>c. RequestPlaces \cap ClearPlaces = {} /\ "refused" \in RequestPlaces
      /\ {"queueGoBackground", "setDisconnected"} \subseteq ClearPlaces
  BY DEF RequestPlaces, ClearPlaces
<1>2. Alone'
  BY <1>1, <1>c DEF PlaceInv, Alone
<1>3. Forgotten'
  BY <1>1 DEF PlaceInv, Forgotten
<1>4. Connection'
  BY <1>1, <1>c DEF PlaceInv, Connection
<1>5. RefusedGone'
  BY <1>1 DEF PlaceInv, RefusedGone
<1>6. listener'
  BY DEF PlaceInv
<1> QED
  BY <1>2, <1>3, <1>4, <1>5, <1>6 DEF PlaceInv

LEMMA PlaceStep ==
    ASSUME "ClearWhileRequesting" \notin Habits, "SetListener" \notin Calls,
           SurfaceTypeOK, PlaceInv, SurfaceNext
    PROVE  PlaceInv'
<1>s. UNCHANGED listener /\ (isValidStatus' => isValidStatus)
  BY StatusSteps
<1>c. /\ RequestPlaces = {"request", "reply", "refused"}
      /\ ClearPlaces
           = {"cleanCache", "goBackground", "disconnect", "queueGoBackground", "setDisconnected"}
      /\ Places = {"app"} \cup RequestPlaces \cup ClearPlaces
  BY DEF RequestPlaces, ClearPlaces, Places
<1>i. /\ \A p, q \in Producers :
            p # q /\ at[p] \in ClearPlaces => at[q] \notin RequestPlaces \cup ClearPlaces
      /\ \A p \in Producers : at[p] \in ClearPlaces => clientCache = {}
      /\ \A p \in Producers : at[p] \in RequestPlaces => connected
      /\ \A p \in Producers : at[p] \in {"queueGoBackground", "setDisconnected"} => ~connected
      /\ listener
  BY DEF PlaceInv, Alone, Forgotten, Connection
<1>1. ASSUME NEW p \in Producers, NEW config \in Configs, SurfaceRequest(p, config)
      PROVE  PlaceInv'
  <2>1. /\ connected' = TRUE /\ UNCHANGED clientCache
        /\ \A q \in Producers : at[q] \notin ClearPlaces
    BY <1>1 DEF SurfaceRequest, MayRequest
  <2>2. MoveTo(p, "request") \/ (MoveTo(p, "refused") /\ ~isValidStatus)
    BY <1>1, <1>i DEF SurfaceRequest, CallRefused
  <2> QED
    BY <2>1, <2>2, <1>s, <1>c, PlaceMove
<1>2. ASSUME NEW p \in Producers, RequestServed(p)
      PROVE  PlaceInv'
  <2>1. /\ at[p] = "request" /\ UNCHANGED <<clientCache, connected>>
        /\ MoveTo(p, "app") \/ MoveTo(p, "reply")
    BY <1>2 DEF RequestServed
  <2>2. connected /\ \A q \in Producers \ {p} : at[q] \notin ClearPlaces
    BY <1>i, <1>c, <2>1
  <2> QED
    BY <2>1, <2>2, <1>s, <1>c, PlaceMove
<1>k. ASSUME UNCHANGED <<at, clientCache, connected>>
      PROVE  PlaceInv'
  BY <1>k, <1>s DEF PlaceInv, Alone, Forgotten, Connection, RefusedGone
<1>3. ASSUME NEW p \in Producers, RequestWaits(p)
      PROVE  PlaceInv'
  <2>1. at[p] = "request" /\ UNCHANGED <<clientCache, connected>>
    BY <1>3 DEF RequestWaits
  <2>2. UNCHANGED at \/ MoveTo(p, "app") \/ (MoveTo(p, "refused") /\ ~isValidStatus)
    BY <1>3 DEF RequestWaits
  <2>3. connected /\ \A q \in Producers \ {p} : at[q] \notin ClearPlaces
    BY <1>i, <1>c, <2>1
  <2>4. CASE MoveTo(p, "app") \/ (MoveTo(p, "refused") /\ ~isValidStatus)
    BY <2>1, <2>3, <2>4, <1>s, <1>c, PlaceMove
  <2> QED
    BY <2>1, <2>2, <2>4, <1>k
<1>4. ASSUME NEW p \in Producers, RequestRefused(p) \/ ApplyReply(p)
      PROVE  PlaceInv'
  <2>1. /\ at[p] \in {"refused", "reply"} /\ MoveTo(p, "app") /\ UNCHANGED connected
    BY <1>4 DEF RequestRefused, ApplyReply
  <2>2. \A q \in Producers : at[q] \notin ClearPlaces
    BY <1>i, <1>c, <2>1
  <2> QED
    BY <2>1, <2>2, <1>s, <1>c, PlaceMove
<1>5. ASSUME NEW p \in Producers,
             SurfaceCleanCache(p) \/ SurfaceGoBackground(p) \/ SurfaceDisconnect(p)
      PROVE  PlaceInv'
  <2>1. /\ clientCache' = {} /\ UNCHANGED connected
        /\ \A q \in Producers : at[q] \notin RequestPlaces \cup ClearPlaces
        /\ MoveTo(p, "cleanCache") \/ MoveTo(p, "goBackground") \/ MoveTo(p, "disconnect")
    BY <1>5 DEF SurfaceCleanCache, SurfaceGoBackground, SurfaceDisconnect, Forgets, MayClear
  <2> QED
    BY <2>1, <1>s, <1>c, PlaceMove
<1>6. ASSUME NEW p \in Producers,
             \/ NotConnected(p) \/ ProducerCleanCache(p) \/ ProducerGoBackground(p)
             \/ SetDisconnected(p)
      PROVE  PlaceInv'
  <2>1. UNCHANGED <<clientCache, connected>> /\ MoveTo(p, "app")
    BY <1>6 DEF NotConnected, ProducerCleanCache, ProducerGoBackground, SetDisconnected
  <2> QED
    BY <2>1, <1>s, <1>c, PlaceMove
<1>7. ASSUME NEW p \in Producers, ProducerDisconnect(p)
      PROVE  PlaceInv'
  <2>1. /\ at[p] = "disconnect" /\ connected' = FALSE /\ UNCHANGED clientCache
        /\ MoveTo(p, "queueGoBackground")
    BY <1>7 DEF ProducerDisconnect
  <2>2. /\ \A q \in Producers \ {p} : at[q] \notin RequestPlaces \cup ClearPlaces
        /\ clientCache = {}
    BY <1>i, <1>c, <2>1
  <2> QED
    BY <2>1, <2>2, <1>s, <1>c, PlaceMove
<1>8. ASSUME NEW p \in Producers, DisconnectClears(p)
      PROVE  PlaceInv'
  <2>1. /\ at[p] = "queueGoBackground" /\ UNCHANGED <<clientCache, connected>>
        /\ MoveTo(p, "setDisconnected")
    BY <1>8 DEF DisconnectClears
  <2>2. /\ \A q \in Producers \ {p} : at[q] \notin RequestPlaces \cup ClearPlaces
        /\ clientCache = {} /\ ~connected
    BY <1>i, <1>c, <2>1
  <2> QED
    BY <2>1, <2>2, <1>s, <1>c, PlaceMove
<1>9. ASSUME NEW p \in Producers, SurfaceReturns(p)
      PROVE  PlaceInv'
  BY <1>9, <1>k DEF SurfaceReturns, surfaceVars
<1>10. CASE OtherSide
  BY <1>10, <1>k DEF OtherSide, ConsumerGoBackground, surfaceVars
<1> QED
  BY <1>1, <1>2, <1>3, <1>4, <1>5, <1>6, <1>7, <1>8, <1>9, <1>10 DEF SurfaceNext, ClientStep

----------------------------------------------------------------------------
(* A buffer whose reply has not been applied is held for its thread alone. *)

PendingHeld ==
    \A p \in Producers : at[p] = "reply" =>
        /\ reply[p].sequence \in producerHeld
        /\ \A q \in Producers \ {p} : reply[q].sequence # reply[p].sequence

LEMMA HeldKept ==
    ASSUME SurfaceTypeOK, SurfaceNext, NEW p \in Producers, reply[p].sequence \in producerHeld
    PROVE  \/ reply[p].sequence \in producerHeld'
           \/ \E q \in Producers : ApplyReply(q) /\ reply[q].sequence = reply[p].sequence
<1> DEFINE s == reply[p].sequence
<1>t. TypeOK /\ ~isShared
  BY DEF SurfaceTypeOK
<1>1. ASSUME NEW q \in Producers, Takes(q)
      PROVE  s \in producerHeld'
  BY <1>1, <1>t, TakesIsTake, TakeHands DEF Handed
<1>2. ASSUME NEW q \in Producers, Waits(q)
      PROVE  s \in producerHeld'
  BY <1>2, WaitKeeps DEF Waits, noBufferVars, clientVars
<1>3. ASSUME NEW q \in Producers, Returns(q)
      PROVE  s \in producerHeld'
  <2>1. CASE FlushStep(q)
    BY <2>1 DEF FlushStep, FlushHasListener, FlushCancels, DoFlushGone, DoFlushDeletes,
                DoFlushBuffer, FlushNotify, noBufferVars, clientVars, GiveToProducer
  <2>2. ASSUME NEW x \in SeqNumbers, Delivered(x), CancelBuffer(q, x) \/ FlushBuffer(q, x)
        PROVE  s \in producerHeld'
    <3>1. producerHeld' = producerHeld \ {x} /\ s # x
      BY <2>2 DEF Delivered, CancelBuffer, FlushBuffer
    <3> QED
      BY <3>1
  <2> QED
    BY <1>3, <2>1, <2>2 DEF Returns
<1>4. ASSUME NEW m \in Threads, Clears(m) \/ Manages(m)
      PROVE  s \in producerHeld'
  BY <1>4, <1>t, ManagesIsManager, ManagerMoves
<1>5. ASSUME NEW c \in Consumers, ConsumerCall(c) \/ ReleaseStep(c)
      PROVE  s \in producerHeld'
  BY <1>5, <1>t, ConsumerMoves
<1>6. ASSUME NEW q \in Producers, GivesUp(q)
      PROVE  s \in producerHeld' \/ (ApplyReply(q) /\ reply[q].sequence = s)
  BY <1>6 DEF GivesUp
<1>7. CASE UNCHANGED vars
  BY <1>7 DEF vars, clientVars
<1> QED
  BY <1>1, <1>2, <1>3, <1>4, <1>5, <1>6, <1>7, QueueSteps DEF Threads

LEMMA PendingStep ==
    ASSUME SurfaceTypeOK, PendingHeld, SurfaceNext
    PROVE  PendingHeld'
<1>t. at \in [Producers -> Places] /\ reply \in [Producers -> Replies]
  BY DEF SurfaceTypeOK
<1>1. ASSUME \A q \in Producers : ~ApplyReply(q)
      PROVE  \A p \in Producers : at[p] = "reply" => reply[p].sequence \in producerHeld'
  BY <1>1, HeldKept DEF PendingHeld
<1>2. CASE UNCHANGED <<at, reply>>
  <2>1. ASSUME NEW q \in Producers, ApplyReply(q)
        PROVE  FALSE
    BY <1>2, <2>1, <1>t DEF ApplyReply, MoveTo
  <2> QED
    BY <1>1, <1>2, <2>1 DEF PendingHeld
<1>3. ASSUME NEW p \in Producers, NEW l \in Places \ {"reply"}, at[p] # "reply", MoveTo(p, l),
             UNCHANGED reply
      PROVE  PendingHeld'
  <2>1. \A q \in Producers : at'[q] = IF q = p THEN l ELSE at[q]
    BY <1>3, <1>t DEF MoveTo
  <2>2. ASSUME NEW q \in Producers, ApplyReply(q)
        PROVE  FALSE
    <3>1. at[q] = "reply" /\ at'[q] = "app"
      BY <2>2, <1>t DEF ApplyReply, MoveTo
    <3> QED
      BY <1>3, <2>1, <3>1
  <2> QED
    BY <1>1, <1>3, <2>1, <2>2 DEF PendingHeld
<1>4. ASSUME NEW p \in Producers, ApplyReply(p)
      PROVE  PendingHeld'
  <2>0. NoReply.sequence = 0
    BY DEF NoReply
  <2>1. /\ at[p] = "reply"
        /\ \A q \in Producers :
             /\ at'[q] = IF q = p THEN "app" ELSE at[q]
             /\ reply'[q] = IF q = p THEN NoReply ELSE reply[q]
    BY <1>4, <1>t DEF ApplyReply, MoveTo
  <2>2. ASSUME NEW q \in Producers, at'[q] = "reply"
        PROVE  /\ reply'[q].sequence \in producerHeld'
               /\ \A x \in Producers \ {q} : reply'[x].sequence # reply'[q].sequence
    <3>1. q # p /\ at[q] = "reply" /\ reply'[q] = reply[q]
      BY <2>1, <2>2
    <3>2. /\ reply[q].sequence \in producerHeld
          /\ \A x \in Producers \ {q} : reply[x].sequence # reply[q].sequence
      BY <3>1 DEF PendingHeld
    <3>3. producerHeld' = producerHeld \/ producerHeld' = producerHeld \ {reply[p].sequence}
      BY <1>4 DEF ApplyReply, vars, clientVars
    <3>4. reply[q].sequence # 0
      BY <3>2 DEF SurfaceTypeOK, TypeOK, ClientTypeOK, SeqNumbers
    <3> QED
      BY <2>0, <2>1, <3>1, <3>2, <3>3, <3>4
  <2> QED
    BY <2>2 DEF PendingHeld
<1>5. ASSUME NEW p \in Producers, NEW s, ServesReply(p, s)
      PROVE  PendingHeld'
  <2> DEFINE r == [sequence |-> s, buffer |-> Sends(s), deletingBuffers |-> Reported]
  <2>1. /\ at[p] = "request" /\ r.sequence = s
        /\ s \in producerHeld' /\ s \notin producerHeld
        /\ at' = [at EXCEPT ![p] = "reply"] /\ reply' = [reply EXCEPT ![p] = r]
    BY <1>5 DEF ServesReply, MoveTo
  <2> HIDE DEF r
  <2>2. \A q \in Producers :
          /\ at'[q] = IF q = p THEN "reply" ELSE at[q]
          /\ reply'[q] = IF q = p THEN r ELSE reply[q]
    BY <2>1, <1>t
  <2>3. ASSUME NEW q \in Producers, ApplyReply(q)
        PROVE  FALSE
    <3>1. at[q] = "reply" /\ at'[q] = "app"
      BY <2>3, <1>t DEF ApplyReply, MoveTo
    <3> QED
      BY <2>1, <2>2, <3>1
  <2>4. \A q \in Producers \ {p} : reply[q].sequence # s
    <3>1. ASSUME NEW q \in Producers \ {p}, reply[q].sequence = s
          PROVE  FALSE
      <4>1. CASE at[q] = "reply"
        BY <2>1, <3>1, <4>1 DEF PendingHeld
      <4>2. CASE at[q] # "reply"
        <5>1. reply[q].sequence = 0
          BY <4>2 DEF SurfaceTypeOK, NoReply
        <5>2. TypeOK'
          BY QueueTypeStep DEF SurfaceTypeOK
        <5>3. s \in SeqNumbers
          BY <2>1, <5>2 DEF TypeOK, ClientTypeOK
        <5> QED
          BY <3>1, <5>1, <5>3 DEF SeqNumbers
      <4> QED
        BY <4>1, <4>2
    <3> QED
      BY <3>1
  <2>5. \A q \in Producers : at[q] = "reply" => reply[q].sequence \in producerHeld'
    BY <1>1, <2>3
  <2>6. ASSUME NEW q \in Producers, at'[q] = "reply"
        PROVE  /\ reply'[q].sequence \in producerHeld'
               /\ \A x \in Producers \ {q} : reply'[x].sequence # reply'[q].sequence
    <3>1. CASE q = p
      BY <2>1, <2>2, <2>4, <3>1
    <3>2. CASE q # p
      <4>1. at[q] = "reply" /\ reply'[q] = reply[q]
        BY <2>2, <2>6, <3>2
      <4>2. \A x \in Producers \ {q} : reply[x].sequence # reply[q].sequence
        BY <4>1 DEF PendingHeld
      <4> QED
        BY <2>1, <2>2, <2>4, <2>5, <3>2, <4>1, <4>2
    <3> QED
      BY <3>1, <3>2
  <2> QED
    BY <2>6 DEF PendingHeld
<1> QED
  BY <1>2, <1>3, <1>4, <1>5, ReplySteps

----------------------------------------------------------------------------
(* What the client and the queue know of each other.                       *)

(* The queue's ledger is in order while the consumer lives.                *)
Ordered == isValidStatus => Owned

(* Whom nothing connects to the queue has no buffer in it, from the time   *)
(* on when his disconnecting clears it.                                    *)
Emptied ==
    ~connected => DOMAIN cache = {} \/ \E p \in Producers : at[p] = "queueGoBackground"

(* A buffer of the queue is in the client's cache, or a reply brings it,   *)
(* or the queue knows that it must be sent again.                          *)
Coming(s) ==
    \E p \in Producers : at[p] = "reply" /\ reply[p].sequence = s /\ reply[p].buffer
Due(s) == producerCacheClean /\ s \notin producerCacheList
SentOnce ==
    isValidStatus /\ ~Clearing =>
        \A s \in DOMAIN cache : s \in clientCache \/ Coming(s) \/ Due(s)

SentInv ==
    ReportInv /\ PlaceInv /\ PendingHeld /\ Ordered /\ Emptied /\ SentOnce /\ ReplyResolves

LEMMA OrderedStep ==
    ASSUME "SetListener" \notin Calls, SurfaceTypeOK, Ordered, ReplyResolves, SurfaceNext
    PROVE  Ordered'
<1> SUFFICES ASSUME isValidStatus' PROVE Owned'
  BY DEF Ordered
<1>t. TypeOK /\ ~isShared
  BY DEF SurfaceTypeOK
<1>v. isValidStatus /\ Owned
  BY StatusSteps DEF Ordered
<1>1. ASSUME NEW p \in Producers, Takes(p)
      PROVE  Owned'
  BY <1>1, <1>t, <1>v, TakesIsTake, RequestOwned
<1>2. ASSUME NEW p \in Producers, Waits(p)
      PROVE  Owned'
  BY <1>2, <1>t, <1>v, RequestOwned DEF Waits, RequestStep
<1>3. ASSUME NEW p \in Producers, Returns(p)
      PROVE  Owned'
  BY <1>3, <1>t, <1>v, FlushStepOwned, CancelOwned, FlushOwned DEF Returns
<1>4. ASSUME NEW p \in Producers, GivesUp(p)
      PROVE  Owned'
  <2> DEFINE s == reply[p].sequence
  <2>1. s \notin DOMAIN cache
    BY <1>4, <1>v DEF GivesUp, ReplyResolves
  <2>2. UNCHANGED <<status, flushing, releasing>>
    BY <1>4, LedgerKept DEF GivesUp, bufferVars
  <2>3. /\ UNCHANGED <<freeList, dirtyList, consumerHeld, nextSequence>>
        /\ producerHeld' = producerHeld \ {s}
    BY <1>4 DEF GivesUp, bufferVars
  <2>4. \A x \in SeqNumbers : status[x] # "outside" => x # s
    BY <2>1, <1>t, LedgerType
  <2> HIDE DEF s
  <2>5. ListsOK'
    BY <1>v, <2>2, <2>3 DEF Owned, ListsOK
  <2>6. HandsOK'
    BY <1>v, <2>2, <2>3 DEF Owned, HandsOK
  <2>7. FreshOK'
    BY <1>v, <2>2, <2>3 DEF Owned, FreshOK
  <2>8. SlotsOK'
    BY <1>v, <2>2, <2>3, <2>4 DEF Owned, SlotsOK
  <2> QED
    BY <2>5, <2>6, <2>7, <2>8 DEF Owned
<1>5. ASSUME NEW t \in Threads, Clears(t) \/ Manages(t)
      PROVE  Owned'
  BY <1>5, <1>t, <1>v, ManagesIsManager, ManagerOwned
<1>6. ASSUME NEW c \in Consumers, ConsumerCall(c) \/ ReleaseStep(c)
      PROVE  Owned'
  BY <1>6, <1>t, <1>v, ConsumerCallOwned, ReleaseStepOwned
<1>7. CASE UNCHANGED vars
  <2>1. UNCHANGED <<status, flushing, releasing>>
    BY <1>7, LedgerKept DEF vars, bufferVars
  <2> QED
    BY <1>7, <1>v, <2>1, QuietOwned DEF vars, bufferVars, clientVars
<1> QED
  BY <1>1, <1>2, <1>3, <1>4, <1>5, <1>6, <1>7, QueueSteps DEF Threads

(* Steps that bring no reply take buffers out of the map only, and the     *)
(* record of what was sent again goes with all of them.                    *)
Loses ==
    /\ DOMAIN cache' \subseteq DOMAIN cache
    /\ UNCHANGED cleanVars \/ DOMAIN cache' = {}

LEMMA QuietLoses == UNCHANGED bufferVars /\ UNCHANGED cleanVars => Loses
BY DEF Loses, bufferVars

LEMMA WaitLoses ==
    ASSUME NEW p \in Producers, Waits(p)
    PROVE  Loses
BY WaitKeeps, QuietLoses DEF Waits, noBufferVars

LEMMA ReturnLoses ==
    ASSUME TypeOK, NEW p \in Producers, SurfaceReturns(p)
    PROVE  Loses
BY ReturnMoves DEF SurfaceReturns, Loses, Moved

LEMMA OtherLoses ==
    ASSUME TypeOK, ~isShared, OtherSide
    PROVE  Loses
<1>1. ASSUME NEW c \in Consumers, ConsumerCall(c) \/ ReleaseStep(c)
      PROVE  Loses
  BY <1>1, ConsumerMoves DEF Loses, Moved
<1>2. ASSUME NEW m \in Managers, Manages(m)
      PROVE  Loses
  <2>1. m \in Threads
    BY DEF Threads
  <2>2. DOMAIN cache' \subseteq DOMAIN cache
    BY <1>2, <2>1, ManagesIsManager, ManagerMoves DEF Moved, Cleared
  <2>3. UNCHANGED cleanVars \/ DOMAIN cache' = {}
    BY <1>2 DEF Manages, SetQueueSize, OnConsumerDied, SetListener, GoBackground, ManagerStep,
                SetQueueSizeWrite, SetStatus, ClearLocked, Erase
  <2> QED
    BY <2>2, <2>3 DEF Loses
<1> QED
  BY <1>1, <1>2 DEF OtherSide, ConsumerGoBackground, Manages

(* What a step that serves a request does, of a queue in order.            *)
LEMMA ServesHands ==
    ASSUME SurfaceTypeOK, PendingHeld, Owned, NEW p \in Producers, NEW s, ServesReply(p, s)
    PROVE  /\ Handed(s) /\ s \in SeqNumbers /\ s \notin producerHeld
           /\ \A q \in Producers : at[q] = "reply" => reply[q].sequence # s
<1>1. TypeOK /\ ~isShared /\ TakeBuffer(p)
  BY TakesIsTake DEF SurfaceTypeOK, ServesReply
<1>2. s \in producerHeld' /\ s \notin producerHeld
  BY DEF ServesReply
<1>3. PICK x \in SeqNumbers : Handed(x)
  BY <1>1, <1>2, TakeHands
<1>4. x = s
  BY <1>2, <1>3 DEF Handed
<1>5. \A q \in Producers : at[q] = "reply" => reply[q].sequence # s
  BY <1>2 DEF PendingHeld
<1> QED
  BY <1>2, <1>3, <1>4, <1>5

(* A request that is not answered with a buffer took none.                 *)
LEMMA TakeLoses ==
    ASSUME TypeOK, ~isShared, Owned, NEW p \in Producers, Takes(p), producerHeld' = producerHeld
    PROVE  /\ Moved /\ Gone \subseteq ToSet(freeList) /\ UNCHANGED cleanVars
<1>1. ASSUME NEW s \in SeqNumbers, Handed(s)
      PROVE  s \notin producerHeld
  <2>1. CASE s \in ToSet(freeList)
    BY <2>1, ListedSpares DEF Listed
  <2>2. CASE s = nextSequence
    <3>1. s >= nextSequence
      BY <2>2, LedgerType
    <3> QED
      BY <3>1 DEF Owned, FreshOK
  <2> QED
    BY <1>1, <2>1, <2>2 DEF Handed, HandedAgain, HandedNew, HandedMore
<1>2. ~ \E s \in SeqNumbers : Handed(s)
  BY <1>1 DEF Handed
<1> QED
  BY <1>2, TakesIsTake, TakeHands

LEMMA EmptiedStep ==
    ASSUME SurfaceTypeOK, Connection, Emptied, SurfaceNext
    PROVE  Emptied'
<1>t. TypeOK /\ ~isShared /\ at \in [Producers -> Places]
  BY DEF SurfaceTypeOK
<1>k. ASSUME Loses, UNCHANGED connected,
             \A q \in Producers : at[q] = "queueGoBackground" => at'[q] = at[q]
      PROVE  Emptied'
  BY <1>k DEF Emptied, Loses
<1>v. UNCHANGED vars => Loses
  BY QuietLoses DEF vars
<1>1. ASSUME NEW p \in Producers, NEW config \in Configs, SurfaceRequest(p, config)
      PROVE  Emptied'
  BY <1>1 DEF SurfaceRequest, Emptied
<1>2. ASSUME NEW p \in Producers, RequestServed(p) \/ RequestWaits(p)
      PROVE  Emptied'
  <2>1. at[p] = "request" /\ UNCHANGED connected
    BY <1>2 DEF RequestServed, RequestWaits
  <2> QED
    BY <2>1 DEF Emptied, Connection, RequestPlaces
<1>3. ASSUME NEW p \in Producers, RequestRefused(p) \/ ApplyReply(p)
      PROVE  Emptied'
  <2>1. at[p] \in RequestPlaces /\ UNCHANGED connected
    BY <1>3 DEF RequestRefused, ApplyReply, RequestPlaces
  <2> QED
    BY <2>1 DEF Emptied, Connection
<1>m. ASSUME NEW p \in Producers, NEW l, MoveTo(p, l), at[p] # "queueGoBackground"
      PROVE  \A q \in Producers : at[q] = "queueGoBackground" => at'[q] = at[q]
  BY <1>m, <1>t DEF MoveTo
<1>4. ASSUME NEW p \in Producers, NEW l \in ClearPlaces, Forgets(p, l)
      PROVE  Emptied'
  BY <1>4, <1>k, <1>v, <1>m DEF Forgets, InApp
<1>5. ASSUME NEW p \in Producers, NotConnected(p) \/ SetDisconnected(p)
      PROVE  Emptied'
  <2>1. MoveTo(p, "app") /\ at[p] # "queueGoBackground" /\ UNCHANGED connected /\ UNCHANGED vars
    BY <1>5 DEF NotConnected, SetDisconnected
  <2> QED
    BY <2>1, <1>k, <1>v, <1>m
<1>6. ASSUME NEW p \in Producers, ProducerCleanCache(p) \/ ProducerGoBackground(p)
      PROVE  Emptied'
  <2>1. connected' = connected /\ connected
    BY <1>6 DEF ProducerCleanCache, ProducerGoBackground
  <2> QED
    BY <2>1 DEF Emptied
<1>7. ASSUME NEW p \in Producers, ProducerDisconnect(p)
      PROVE  Emptied'
  <2>1. at'[p] = "queueGoBackground"
    BY <1>7, <1>t DEF ProducerDisconnect, MoveTo
  <2> QED
    BY <2>1 DEF Emptied
<1>8. ASSUME NEW p \in Producers, DisconnectClears(p)
      PROVE  Emptied'
  <2>1. DOMAIN cache' = {}
    BY <1>8 DEF DisconnectClears, GoBackground, ClearLocked, Erase
  <2> QED
    BY <2>1 DEF Emptied
<1>9. ASSUME NEW p \in Producers, SurfaceReturns(p)
      PROVE  Emptied'
  BY <1>9, <1>t, <1>k, ReturnLoses DEF SurfaceReturns, surfaceVars
<1>10. CASE OtherSide
  BY <1>10, <1>t, <1>k, OtherLoses DEF OtherSide, ConsumerGoBackground, surfaceVars
<1> QED
  BY <1>1, <1>2, <1>3, <1>4, <1>5, <1>6, <1>7, <1>8, <1>9, <1>10
  DEF SurfaceNext, ClientStep, SurfaceCleanCache, SurfaceGoBackground, SurfaceDisconnect,
      ClearPlaces

(* Where the threads' moves leave what is coming and who clears.           *)
LEMMA MoveKeeps ==
    ASSUME SurfaceTypeOK, NEW p \in Producers, NEW l, MoveTo(p, l),
           at[p] \notin ClearPlaces, at[p] # "reply", UNCHANGED reply
    PROVE  /\ Clearing => Clearing'
           /\ \A s : Coming(s) => Coming(s)'
<1>1. \A q \in Producers : q # p => at'[q] = at[q]
  BY DEF SurfaceTypeOK, MoveTo
<1>2. Clearing => Clearing'
  BY <1>1 DEF Clearing
<1>3. ASSUME NEW s, Coming(s)
      PROVE  Coming(s)'
  BY <1>1, <1>3 DEF Coming
<1> QED
  BY <1>2, <1>3

LEMMA SentKept ==
    ASSUME SentOnce, isValidStatus' => isValidStatus, Loses, UNCHANGED clientCache,
           Clearing => Clearing', \A s : Coming(s) => Coming(s)'
    PROVE  SentOnce'
<1> SUFFICES ASSUME isValidStatus', ~Clearing', NEW s \in DOMAIN cache'
             PROVE  (s \in clientCache \/ Coming(s) \/ Due(s))'
  BY DEF SentOnce
<1>1. s \in DOMAIN cache /\ UNCHANGED cleanVars
  BY DEF Loses
<1>2. s \in clientCache \/ Coming(s) \/ Due(s)
  BY <1>1 DEF SentOnce
<1>3. Due(s) => Due(s)'
  BY <1>1 DEF Due, cleanVars
<1> QED
  BY <1>2, <1>3

LEMMA ServedSent ==
    ASSUME SurfaceTypeOK, Alone, PendingHeld, Owned, SentOnce, isValidStatus,
           NEW p \in Producers, NEW s, ServesReply(p, s)
    PROVE  /\ s \in clientCache \/ Sends(s)
           /\ SentOnce'
<1> DEFINE r == [sequence |-> s, buffer |-> Sends(s), deletingBuffers |-> Reported]
<1>1. /\ at[p] = "request" /\ UNCHANGED clientCache /\ r.sequence = s /\ r.buffer = Sends(s)
      /\ at' = [at EXCEPT ![p] = "reply"] /\ reply' = [reply EXCEPT ![p] = r]
  BY DEF ServesReply, MoveTo
<1> HIDE DEF r
<1>2. \A q \in Producers :
        /\ at'[q] = IF q = p THEN "reply" ELSE at[q]
        /\ reply'[q] = IF q = p THEN r ELSE reply[q]
  BY <1>1 DEF SurfaceTypeOK
<1>3. ~Clearing
  BY <1>1 DEF Alone, Clearing, RequestPlaces, ClearPlaces
<1>4. Handed(s) /\ ~Coming(s)
  BY ServesHands DEF Coming
<1>5. s \in clientCache \/ Sends(s)
  BY <1>3, <1>4 DEF SentOnce, Sends, Due
<1>6. ASSUME NEW x, Coming(x)
      PROVE  Coming(x)'
  BY <1>1, <1>2, <1>6 DEF Coming
<1>7. Sends(s) => Coming(s)'
  BY <1>1, <1>2 DEF Coming
<1>8. ASSUME NEW x \in DOMAIN cache', x # s
      PROVE  (x \in clientCache \/ Coming(x) \/ Due(x))'
  <2>1. x \in DOMAIN cache
    <3>1. CASE HandedAgain(s) \/ HandedNew(s)
      BY <1>8, <3>1 DEF HandedAgain, HandedNew
    <3>2. CASE HandedMore(s)
      BY <1>8, <3>2 DEF HandedMore
    <3> QED
      BY <1>4, <3>1, <3>2 DEF Handed
  <2>2. x \in clientCache \/ Coming(x) \/ Due(x)
    BY <1>3, <2>1 DEF SentOnce
  <2>3. ASSUME Due(x)
        PROVE  Due(x)'
    <3>1. CASE UNCHANGED cleanVars
      BY <2>3, <3>1 DEF Due, cleanVars
    <3>2. CASE NoteReturned(s)
      <4>1. producerCacheClean /\ x \notin producerCacheList
        BY <2>3 DEF Due
      <4>2. ~(DOMAIN cache' \subseteq producerCacheList \cup {s})
        BY <1>8, <4>1
      <4>3. producerCacheClean' /\ producerCacheList' = producerCacheList \cup {s}
        BY <3>2, <4>1, <4>2, Zenon DEF NoteReturned
      <4>4. x \notin producerCacheList'
        BY <1>8, <4>1, <4>3
      <4> QED
        BY <4>3, <4>4 DEF Due
    <3> QED
      BY <1>4, <3>1, <3>2 DEF Handed, HandedAgain, HandedNew, HandedMore
  <2> QED
    BY <1>1, <1>6, <2>2, <2>3
<1>9. \A x \in DOMAIN cache' : (x \in clientCache \/ Coming(x) \/ Due(x))'
  BY <1>1, <1>5, <1>7, <1>8
<1> QED
  BY <1>5, <1>9 DEF SentOnce

LEMMA AppliedSent ==
    ASSUME SurfaceTypeOK, ReportedNotInUse, SentOnce, NEW p \in Producers, ApplyReply(p)
    PROVE  SentOnce'
<1> DEFINE r == reply[p]
<1>1. /\ at[p] = "reply" /\ UNCHANGED <<cache, isValidStatus>> /\ UNCHANGED cleanVars
      /\ at' = [at EXCEPT ![p] = "app"] /\ reply' = [reply EXCEPT ![p] = NoReply]
      /\ clientCache' = IF Resolves(r) THEN Known(r) ELSE clientCache
  BY DEF ApplyReply, MoveTo, vars, bufferVars, statusVars
<1>2. \A q \in Producers :
        /\ at'[q] = IF q = p THEN "app" ELSE at[q]
        /\ reply'[q] = IF q = p THEN NoReply ELSE reply[q]
  BY <1>1 DEF SurfaceTypeOK
<1>3. Clearing => Clearing'
  BY <1>1, <1>2 DEF Clearing, ClearPlaces
<1>4. ASSUME isValidStatus', ~Clearing', NEW s \in DOMAIN cache'
      PROVE  (s \in clientCache \/ Coming(s) \/ Due(s))'
  <2>1. s \in DOMAIN cache /\ (s \in clientCache \/ Coming(s) \/ Due(s))
    BY <1>1, <1>3, <1>4 DEF SentOnce
  <2>2. s \notin r.deletingBuffers
    BY <2>1 DEF ReportedNotInUse, BeingReported
  <2>3. CASE s \in clientCache
    BY <1>1, <2>2, <2>3 DEF Known
  <2>4. CASE Due(s)
    BY <1>1, <2>4 DEF Due, cleanVars
  <2>5. ASSUME NEW q \in Producers, at[q] = "reply", reply[q].sequence = s, reply[q].buffer
        PROVE  s \in clientCache' \/ Coming(s)'
    <3>1. CASE q = p
      BY <1>1, <2>2, <2>5, <3>1 DEF Known, Resolves
    <3>2. CASE q # p
      BY <1>2, <2>5, <3>2 DEF Coming
    <3> QED
      BY <3>1, <3>2
  <2> QED
    BY <2>1, <2>3, <2>4, <2>5 DEF Coming
<1> QED
  BY <1>4 DEF SentOnce

LEMMA SentStep ==
    ASSUME "ClearWhileRequesting" \notin Habits, "SetListener" \notin Calls, SentInv, SurfaceNext
    PROVE  SentOnce'
<1>s. UNCHANGED listener /\ (isValidStatus' => isValidStatus)
  BY StatusSteps
<1>t. SurfaceTypeOK /\ TypeOK /\ ~isShared /\ SentOnce /\ at \in [Producers -> Places]
  BY DEF SentInv, ReportInv, SurfaceTypeOK
<1>c. \A p, q \in Producers :
        p # q /\ at[p] \in ClearPlaces => at[q] \notin RequestPlaces \cup ClearPlaces
  BY DEF SentInv, PlaceInv, Alone
<1>v. UNCHANGED vars => Loses
  BY QuietLoses DEF vars
<1>m. ASSUME NEW p \in Producers, NEW l, MoveTo(p, l) \/ UNCHANGED at,
             at[p] \in {"app", "request"}, Loses, UNCHANGED <<clientCache, reply>>
      PROVE  SentOnce'
  <2>1. /\ Clearing => Clearing'
        /\ \A s : Coming(s) => Coming(s)'
    <3>1. CASE MoveTo(p, l)
      BY <1>m, <1>t, <3>1, MoveKeeps DEF ClearPlaces
    <3>2. CASE UNCHANGED at
      BY <1>m, <3>2 DEF Clearing, Coming
    <3> QED
      BY <1>m, <3>1, <3>2
  <2> QED
    BY <1>m, <1>s, <1>t, <2>1, SentKept
<1>e. ASSUME DOMAIN cache' = {} PROVE SentOnce'
  BY <1>e DEF SentOnce
<1>b. ASSUME NEW p \in Producers, NEW l \in ClearPlaces, MoveTo(p, l)
      PROVE  SentOnce'
  <2>1. at'[p] = l
    BY <1>b, <1>t DEF MoveTo
  <2> QED
    BY <2>1 DEF SentOnce, Clearing
<1>1. ASSUME NEW p \in Producers, NEW config \in Configs, SurfaceRequest(p, config)
      PROVE  SentOnce'
  <2>1. Waits(p) /\ at[p] = "app" /\ (MoveTo(p, "request") \/ MoveTo(p, "refused"))
    BY <1>1 DEF SurfaceRequest, Waits, InApp
  <2> QED
    BY <1>1, <1>m, <2>1, WaitLoses DEF SurfaceRequest
<1>2. ASSUME NEW p \in Producers, RequestServed(p)
      PROVE  SentOnce'
  <2> SUFFICES ASSUME isValidStatus' PROVE SentOnce'
    BY DEF SentOnce
  <2>1. isValidStatus /\ Owned
    BY <1>s DEF SentInv, Ordered
  <2>2. at[p] = "request" /\ Takes(p)
    BY <1>2 DEF RequestServed, Takes
  <2>3. CASE producerHeld' = producerHeld
    <3>1. Loses
      BY <1>t, <2>1, <2>2, <2>3, TakeLoses DEF Loses, Moved
    <3> QED
      BY <1>2, <1>m, <2>2, <2>3, <3>1 DEF RequestServed
  <2>4. CASE producerHeld' # producerHeld
    <3>1. \E s : ServesReply(p, s)
      BY <1>2, <2>2, <2>4 DEF RequestServed, ServesReply
    <3> QED
      BY <1>t, <2>1, <3>1, ServedSent DEF SentInv, PlaceInv
  <2> QED
    BY <2>3, <2>4
<1>3. ASSUME NEW p \in Producers, RequestWaits(p)
      PROVE  SentOnce'
  <2>1. at[p] = "request" /\ UNCHANGED <<clientCache, reply>> /\ Waits(p)
    BY <1>3 DEF RequestWaits, Waits
  <2>2. UNCHANGED at \/ MoveTo(p, "app") \/ MoveTo(p, "refused")
    BY <1>3 DEF RequestWaits
  <2> QED
    BY <1>m, <2>1, <2>2, WaitLoses
<1>4. ASSUME NEW p \in Producers, RequestRefused(p)
      PROVE  SentOnce'
  <2>1. ~isValidStatus
    BY <1>4 DEF RequestRefused, SentInv, PlaceInv, RefusedGone
  <2> QED
    BY <1>s, <2>1 DEF SentOnce
<1>5. ASSUME NEW p \in Producers, ApplyReply(p)
      PROVE  SentOnce'
  BY <1>t, <1>5, AppliedSent DEF SentInv, ReportInv
<1>6. ASSUME NEW p \in Producers, NEW l \in ClearPlaces, Forgets(p, l)
      PROVE  SentOnce'
  BY <1>6, <1>b DEF Forgets
<1>7. ASSUME NEW p \in Producers, NotConnected(p) \/ SetDisconnected(p)
      PROVE  SentOnce'
  <2>1. at[p] \in ClearPlaces \ {"queueGoBackground"} /\ ~connected /\ UNCHANGED vars
    <3>1. CASE NotConnected(p)
      BY <3>1 DEF NotConnected, ClearPlaces
    <3>2. CASE SetDisconnected(p)
      BY <3>2 DEF SetDisconnected, ClearPlaces, SentInv, PlaceInv, Connection
    <3> QED
      BY <1>7, <3>1, <3>2
  <2>2. \A q \in Producers : at[q] # "queueGoBackground"
    BY <1>c, <2>1 DEF ClearPlaces
  <2>3. DOMAIN cache = {}
    BY <2>1, <2>2 DEF SentInv, Emptied
  <2> QED
    BY <1>e, <2>1, <2>3 DEF vars, bufferVars
<1>8. ASSUME NEW p \in Producers, ProducerCleanCache(p)
      PROVE  SentOnce'
  BY <1>8, <1>e DEF ProducerCleanCache, CleanCache, ClearLocked, Erase
<1>9. ASSUME NEW p \in Producers, ProducerGoBackground(p)
      PROVE  SentOnce'
  BY <1>9 DEF ProducerGoBackground, SetProducerCacheCleanFlag, SentOnce, Due
<1>10. ASSUME NEW p \in Producers, ProducerDisconnect(p) \/ DisconnectClears(p)
       PROVE  SentOnce'
  BY <1>10, <1>b DEF ProducerDisconnect, DisconnectClears, ClearPlaces
<1>k. ASSUME UNCHANGED <<at, clientCache, reply>>, Loses
      PROVE  SentOnce'
  <2>1. /\ Clearing => Clearing'
        /\ \A s : Coming(s) => Coming(s)'
    BY <1>k DEF Clearing, Coming
  <2> QED
    BY <1>k, <1>s, <1>t, <2>1, SentKept
<1>11. ASSUME NEW p \in Producers, SurfaceReturns(p)
       PROVE  SentOnce'
  BY <1>11, <1>k, <1>t, ReturnLoses DEF SurfaceReturns, surfaceVars
<1>12. CASE OtherSide
  BY <1>12, <1>k, <1>t, OtherLoses DEF OtherSide, ConsumerGoBackground, surfaceVars
<1> QED
  BY <1>1, <1>2, <1>3, <1>4, <1>5, <1>6, <1>7, <1>8, <1>9, <1>10, <1>11, <1>12
  DEF SurfaceNext, ClientStep, SurfaceCleanCache, SurfaceGoBackground, SurfaceDisconnect,
      ClearPlaces

(* How a step can change what the client knows, while a reply is due.      *)
LEMMA CacheSteps ==
    ASSUME "ClearWhileRequesting" \notin Habits, SurfaceNext
    PROVE  \/ UNCHANGED clientCache
           \/ \E p \in Producers : ApplyReply(p) \/ RequestRefused(p)
           \/ \E p \in Producers : \E l \in ClearPlaces : Forgets(p, l)
<1>1. OtherSide \/ (\E p \in Producers : SurfaceReturns(p)) => UNCHANGED clientCache
  BY DEF OtherSide, ConsumerGoBackground, SurfaceReturns, surfaceVars
<1>2. ASSUME NEW p \in Producers,
             \/ \E config \in Configs : SurfaceRequest(p, config)
             \/ RequestServed(p) \/ RequestWaits(p)
             \/ NotConnected(p) \/ ProducerCleanCache(p) \/ ProducerGoBackground(p)
             \/ ProducerDisconnect(p) \/ DisconnectClears(p) \/ SetDisconnected(p)
      PROVE  UNCHANGED clientCache
  BY <1>2 DEF SurfaceRequest, RequestServed, RequestWaits, NotConnected, ProducerCleanCache,
              ProducerGoBackground, ProducerDisconnect, DisconnectClears, SetDisconnected
<1> QED
  BY <1>1, <1>2
  DEF SurfaceNext, ClientStep, SurfaceCleanCache, SurfaceGoBackground, SurfaceDisconnect,
      ClearPlaces

(* A reply on its way still resolves.                                      *)
LEMMA PendingResolves ==
    ASSUME "ClearWhileRequesting" \notin Habits, "SetListener" \notin Calls, SentInv, SurfaceNext,
           isValidStatus', NEW p \in Producers, at[p] = "reply", UNCHANGED <<at[p], reply[p]>>,
           reply[p].sequence \in DOMAIN cache'
    PROVE  Resolves(reply[p])'
<1> DEFINE s == reply[p].sequence
<1>v. isValidStatus /\ Owned
  BY StatusSteps DEF SentInv, Ordered
<1>t. SurfaceTypeOK /\ TypeOK /\ ~isShared
  BY DEF SentInv, ReportInv, SurfaceTypeOK
<1>1. s \in DOMAIN cache
  <2>1. s \in producerHeld /\ s \in SeqNumbers
    BY <1>t DEF SentInv, PendingHeld, TypeOK, ClientTypeOK
  <2>2. s < nextSequence
    <3>1. nextSequence \in Nat /\ s \in Nat
      BY <1>t, <2>1, LedgerType
    <3>2. ~(s >= nextSequence)
      BY <1>v, <2>1 DEF Owned, FreshOK
    <3> QED
      BY <3>1, <3>2
  <2>3. DOMAIN cache' \subseteq DOMAIN cache \cup {nextSequence}
    BY <1>t, QueueGrows
  <2>4. s # nextSequence
    BY <2>2, <1>t, <2>1, LedgerType
  <2> QED
    BY <2>3, <2>4
<1>2. reply[p].buffer \/ s \in clientCache
  BY <1>v, <1>1 DEF SentInv, ReplyResolves, Resolves
<1>3. s \in clientCache => s \in clientCache'
  <2>1. ASSUME NEW q \in Producers, ApplyReply(q), s \in clientCache
        PROVE  s \in clientCache'
    <3>1. s \notin reply[q].deletingBuffers
      BY <1>1 DEF SentInv, ReportInv, ReportedNotInUse, BeingReported
    <3> QED
      BY <2>1, <3>1 DEF ApplyReply, Known
  <2>2. ASSUME NEW q \in Producers, RequestRefused(q)
        PROVE  FALSE
    BY <1>v, <2>2 DEF RequestRefused, SentInv, PlaceInv, RefusedGone
  <2>3. ASSUME NEW q \in Producers, NEW l \in ClearPlaces, Forgets(q, l)
        PROVE  FALSE
    BY <2>3 DEF Forgets, MayClear, RequestPlaces
  <2> QED
    BY <2>1, <2>2, <2>3, CacheSteps
<1> QED
  BY <1>2, <1>3 DEF Resolves

LEMMA ResolvesStep ==
    ASSUME "ClearWhileRequesting" \notin Habits, "SetListener" \notin Calls, SentInv, SurfaceNext
    PROVE  ReplyResolves'
<1> SUFFICES ASSUME isValidStatus', NEW p \in Producers, at'[p] = "reply",
                    reply'[p].sequence \in DOMAIN cache'
             PROVE  Resolves(reply[p])'
  BY DEF ReplyResolves
<1>v. isValidStatus /\ Owned
  BY StatusSteps DEF SentInv, Ordered
<1>t. SurfaceTypeOK /\ at \in [Producers -> Places] /\ reply \in [Producers -> Replies]
  BY DEF SentInv, ReportInv, SurfaceTypeOK
<1>k. ASSUME at[p] = "reply", UNCHANGED reply[p]
      PROVE  Resolves(reply[p])'
  BY <1>k, PendingResolves
<1>1. CASE UNCHANGED <<at, reply>>
  BY <1>1, <1>k
<1>2. ASSUME NEW q \in Producers, NEW l \in Places \ {"reply"}, at[q] # "reply", MoveTo(q, l),
             UNCHANGED reply
      PROVE  Resolves(reply[p])'
  <2>1. at[p] = "reply"
    BY <1>2, <1>t DEF MoveTo
  <2> QED
    BY <1>2, <1>k, <2>1
<1>3. ASSUME NEW q \in Producers, ApplyReply(q)
      PROVE  Resolves(reply[p])'
  <2>1. at[p] = "reply" /\ reply'[p] = reply[p]
    BY <1>3, <1>t DEF ApplyReply, MoveTo
  <2> QED
    BY <1>k, <2>1
<1>4. ASSUME NEW q \in Producers, NEW s, ServesReply(q, s)
      PROVE  Resolves(reply[p])'
  <2> DEFINE r == [sequence |-> s, buffer |-> Sends(s), deletingBuffers |-> Reported]
  <2>1. /\ r.sequence = s /\ r.buffer = Sends(s) /\ UNCHANGED clientCache
        /\ at' = [at EXCEPT ![q] = "reply"] /\ reply' = [reply EXCEPT ![q] = r]
    BY <1>4 DEF ServesReply, MoveTo
  <2> HIDE DEF r
  <2>2. CASE p = q
    <3>1. reply'[p] = r
      BY <1>t, <2>1, <2>2
    <3>2. s \in clientCache \/ Sends(s)
      BY <1>4, <1>t, <1>v, ServedSent DEF SentInv, PlaceInv
    <3> QED
      BY <2>1, <3>1, <3>2 DEF Resolves
  <2>3. CASE p # q
    <3>1. at[p] = "reply" /\ reply'[p] = reply[p]
      BY <1>t, <2>1, <2>3
    <3> QED
      BY <1>k, <3>1
  <2> QED
    BY <2>2, <2>3
<1> QED
  BY <1>1, <1>2, <1>3, <1>4, <1>t, ReplySteps

LEMMA SentInvStep ==
    ASSUME "ClearWhileRequesting" \notin Habits, "SetListener" \notin Calls
    PROVE  SentInv /\ [SurfaceNext]_allVars => SentInv'
<1> SUFFICES ASSUME SentInv, [SurfaceNext]_allVars PROVE SentInv'
  OBVIOUS
<1>r. ReportInv'
  BY ReportStep DEF SentInv
<1>1. CASE SurfaceNext
  <2>0. SurfaceTypeOK /\ Connection
    BY DEF SentInv, ReportInv, PlaceInv
  <2>1. PlaceInv' /\ PendingHeld' /\ Ordered' /\ Emptied'
    BY <1>1, <2>0, PlaceStep, PendingStep, OrderedStep, EmptiedStep DEF SentInv
  <2>2. SentOnce' /\ ReplyResolves'
    BY <1>1, SentStep, ResolvesStep
  <2> QED
    BY <1>r, <2>1, <2>2 DEF SentInv
<1>2. CASE UNCHANGED allVars
  <2>1. UNCHANGED vars /\ UNCHANGED <<clientCache, connected, at, reply>>
    BY <1>2 DEF allVars, surfaceVars
  <2>2. /\ UNCHANGED <<cache, freeList, dirtyList, isValidStatus, listener, nextSequence>>
        /\ UNCHANGED <<producerHeld, consumerHeld>> /\ UNCHANGED threadVars
        /\ UNCHANGED <<producerCacheClean, producerCacheList>>
    BY <2>1 DEF vars, bufferVars, statusVars, cleanVars, clientVars
  <2>3. UNCHANGED <<status, flushing, releasing>>
    BY <2>2, LedgerKept
  <2>4. Ordered'
    BY <2>2, <2>3, QuietOwned DEF SentInv, Ordered
  <2>5. PlaceInv' /\ PendingHeld' /\ Emptied'
    BY <2>1, <2>2 DEF SentInv, PlaceInv, Alone, Forgotten, Connection, RefusedGone, PendingHeld,
                      Emptied
  <2>6. SentOnce' /\ ReplyResolves'
    BY <2>1, <2>2 DEF SentInv, SentOnce, ReplyResolves, Clearing, Coming, Due, Resolves
  <2> QED
    BY <1>r, <2>4, <2>5, <2>6 DEF SentInv
<1> QED
  BY <1>1, <1>2

LEMMA SentInit == SurfaceInit => SentInv
<1> SUFFICES ASSUME SurfaceInit PROVE SentInv
  OBVIOUS
<1>1. /\ DOMAIN cache = {} /\ listener /\ ~isShared
      /\ \A p \in Producers : at[p] = "app"
  BY OwnBuffers DEF SurfaceInit, Init
<1>2. Ordered
  BY <1>1, InitOwned DEF SurfaceInit, Ordered, OwnershipInv
<1>3. PlaceInv /\ PendingHeld
  BY <1>1 DEF PlaceInv, Alone, Forgotten, Connection, RefusedGone, PendingHeld, RequestPlaces,
              ClearPlaces
<1>4. Emptied /\ SentOnce /\ ReplyResolves
  BY <1>1 DEF Emptied, SentOnce, ReplyResolves
<1> QED
  BY <1>2, <1>3, <1>4, ReportInit DEF SentInv

LEMMA SentHolds ==
    ASSUME "ClearWhileRequesting" \notin Habits, "SetListener" \notin Calls
    PROVE  SurfaceSpec => []SentInv
BY SentInit, SentInvStep, PTL DEF SurfaceSpec

(* In every reachable state a reply that names a buffer by its number only *)
(* names one the client knows, if the buffer is still in the queue of a    *)
(* living consumer: so RequestBuffer never loses a slot as API_FAILED.     *)
(* This needs that no thread clears while another requests and that the    *)
(* listener stays; README.md shows what happens without.  The consumer     *)
(* may clear the queue behind the client's back.                           *)
THEOREM RepliesResolve ==
    ASSUME "ClearWhileRequesting" \notin Habits, "SetListener" \notin Calls
    PROVE  SurfaceSpec => []ReplyResolves
<1>1. SentInv => ReplyResolves
  BY DEF SentInv
<1> QED
  BY <1>1, SentHolds, PTL

----------------------------------------------------------------------------
(* The client keeps no memory of a buffer that left the queue.             *)

(* A consumer that is going stays so: only its own thread moves it.        *)
DyingStay == \A m \in Managers : pc[m] = "setStatus" => pc'[m] = "setStatus"

LEMMA DyingStaysGoto ==
    ASSUME ThreadTypeOK, NEW t \in Threads, NEW label, NEW a,
           Goto(t, label, a) \/ NotifyAllAndGoto(t, label),
           t \notin Managers \/ pc[t] # "setStatus"
    PROVE  DyingStay
BY DEF DyingStay, Goto, NotifyAllAndGoto, ThreadTypeOK, Threads

LEMMA DyingStaysReturn ==
    ASSUME ThreadTypeOK, NEW t \in Threads, Return(t) \/ NotifyAllAndReturn(t),
           t \notin Managers \/ pc[t] # "setStatus"
    PROVE  DyingStay
BY DyingStaysGoto DEF Return, NotifyAllAndReturn

LEMMA DyingStaysKept == UNCHANGED threadVars => DyingStay
BY DEF DyingStay, threadVars

LEMMA DyingStep ==
    ASSUME TypeOK, SurfaceNext
    PROVE  DyingStay \/ \E m \in Managers : SetStatus(m)
<1>t. ThreadTypeOK
  BY DEF TypeOK
<1>p. \A t \in Producers \cup Consumers : t \in Threads /\ t \notin Managers
  BY ThreadAssumption DEF Threads
<1>1. ASSUME NEW p \in Producers, Takes(p)
      PROVE  DyingStay
  BY <1>1, <1>t, <1>p, TakesIsTake, DyingStaysReturn DEF TakeBuffer
<1>2. ASSUME NEW p \in Producers, Waits(p)
      PROVE  DyingStay
  <2>1. CASE CallRefused(p)
    BY <2>1, DyingStaysKept DEF CallRefused, vars
  <2>2. CASE ~CallRefused(p)
    BY <1>2, <2>2, <1>t, <1>p, DyingStaysGoto, DyingStaysReturn
    DEF Waits, RequestBuffer, RequestMustWait, WaitBlock, WaitAgain, WaitTimeout, RetryFails
  <2> QED
    BY <2>1, <2>2
<1>3. ASSUME NEW p \in Producers, Returns(p)
      PROVE  DyingStay
  <2>1. CASE FlushStep(p)
    BY <2>1, <1>t, <1>p, DyingStaysGoto, DyingStaysReturn
    DEF FlushStep, FlushHasListener, FlushCancels, DoFlushGone, DoFlushDeletes, DoFlushBuffer,
        FlushNotify
  <2>2. ASSUME NEW s \in SeqNumbers, CancelBuffer(p, s) \/ FlushBuffer(p, s)
        PROVE  DyingStay
    BY <2>2, <1>t, <1>p, DyingStaysGoto, DyingStaysReturn DEF CancelBuffer, FlushBuffer
  <2> QED
    BY <1>3, <2>1, <2>2 DEF Returns
<1>4. ASSUME NEW t \in Threads, CleanCache(t) \/ GoBackground(t)
      PROVE  DyingStay
  BY <1>4, <1>t, DyingStaysReturn DEF CleanCache, GoBackground, Idle
<1>5. ASSUME NEW p \in Producers, Clears(p)
      PROVE  DyingStay
  BY <1>4, <1>5, <1>p, DyingStaysKept DEF Clears, SetProducerCacheCleanFlag
<1>6. ASSUME NEW p \in Producers, GivesUp(p)
      PROVE  DyingStay
  BY <1>6, DyingStaysKept DEF GivesUp
<1>7. ASSUME NEW c \in Consumers, ConsumerCall(c) \/ ReleaseStep(c)
      PROVE  DyingStay
  BY <1>7, <1>t, <1>p, DyingStaysGoto, DyingStaysReturn, DyingStaysKept
  DEF ConsumerCall, AcquireBuffer, ReleaseBuffer, ReleaseStep, ReleaseCallback, ReleaseGone,
      ReleaseLocked
<1>8. ASSUME NEW m \in Managers, Manages(m)
      PROVE  DyingStay \/ SetStatus(m)
  <2>0. m \in Threads
    BY DEF Threads
  <2>1. ASSUME NEW size \in 1..MaxQueueSize, SetQueueSize(m, size)
        PROVE  DyingStay
    BY <2>0, <2>1, <1>t, DyingStaysGoto DEF SetQueueSize, Idle
  <2>2. CASE OnConsumerDied(m)
    BY <2>0, <2>2, <1>t, DyingStaysGoto DEF OnConsumerDied, Idle
  <2>3. ASSUME NEW on \in BOOLEAN, SetListener(m, on)
        PROVE  DyingStay
    BY <2>3, DyingStaysKept DEF SetListener
  <2>4. CASE SetQueueSizeWrite(m)
    BY <2>0, <2>4, <1>t, DyingStaysReturn DEF SetQueueSizeWrite
  <2> QED
    BY <1>8, <1>4, <2>0, <2>1, <2>2, <2>3, <2>4 DEF Manages, ManagerStep
<1>9. CASE UNCHANGED vars
  BY <1>9, DyingStaysKept DEF vars
<1> QED
  BY <1>1, <1>2, <1>3, <1>5, <1>6, <1>7, <1>8, <1>9, QueueSteps

LEMMA GoneStays ==
    ASSUME "SetListener" \notin Calls, TypeOK, SurfaceNext, ~ConsumerGone'
    PROVE  /\ isValidStatus /\ ~ConsumerGone
           /\ \A m \in Managers : ~OnConsumerDied(m)
<1>0. isValidStatus' /\ isValidStatus
  BY StatusSteps DEF ConsumerGone
<1>1. ASSUME NEW m \in Managers, SetStatus(m)
      PROVE  FALSE
  BY <1>0, <1>1 DEF SetStatus
<1>2. \A m \in Managers : pc[m] # "setStatus"
  BY <1>1, DyingStep DEF ConsumerGone, DyingStay
<1>3. ASSUME NEW m \in Managers, OnConsumerDied(m)
      PROVE  FALSE
  <2>1. pc'[m] = "setStatus"
    BY <1>3 DEF OnConsumerDied, NotifyAllAndGoto, Threads
  <2> QED
    BY <2>1 DEF ConsumerGone
<1> QED
  BY <1>0, <1>2, <1>3 DEF ConsumerGone

(* What the client knows is in the queue, is being reported, or was taken  *)
(* by the consumer's clearing; and a reply can be applied and names a      *)
(* buffer that no other one reports, so that what it reports itself is not *)
(* lost with it.                                                           *)
GhostFree ==
    ConsumerGone \/ clientCache \subseteq DOMAIN cache \cup BeingReported \cup untold
Applicable(p) ==
    /\ Resolves(reply[p])
    /\ reply[p].sequence \in DOMAIN cache \cup untold
    /\ reply[p].sequence \notin BeingReported
PendingIn == ConsumerGone \/ \A p \in Producers : at[p] = "reply" => Applicable(p)

GhostInv == SentInv /\ GhostFree /\ PendingIn

(* What the producer holds stays unreported.                               *)
LEMMA HeldUnreported ==
    ASSUME SentInv, Owned, SurfaceNext, Spares,
           NEW s \in producerHeld, s \notin BeingReported
    PROVE  s \notin BeingReported'
<1>t. SurfaceTypeOK /\ TypeOK /\ ~isShared
  BY DEF SentInv, ReportInv, SurfaceTypeOK
<1>1. BeingReported' \subseteq BeingReported \cup Gone \cup ToSet(deletingList')
  BY <1>t, RepliesGrow
<1>2. ToSet(deletingList')
           \subseteq ToSet(deletingList) \cup ((DOMAIN cache \cup Listed) \ DOMAIN cache')
  BY <1>t, QueueGrows
<1>3. s \notin Listed /\ s \notin Gone
  BY <1>t, ListedSpares DEF Spares
<1>4. ToSet(deletingList) \subseteq BeingReported
  BY DEF BeingReported
<1> QED
  BY <1>1, <1>2, <1>3, <1>4 DEF Gone

(* The steps that bring no reply, when no client clears: what leaves the   *)
(* map is remembered in the deleting list, and was nobody's.               *)
LEMMA MovesKeep ==
    ASSUME GhostInv, Owned, ~ConsumerGone, SurfaceNext, Moved, Spares,
           UNCHANGED <<clientCache, reply, untold>>,
           \A p \in Producers : at'[p] = "reply" => at[p] = "reply"
    PROVE  GhostFree' /\ PendingIn'
<1>1. BeingReported \cup Gone \subseteq BeingReported'
  BY DEF BeingReported, Moved, Gone
<1>2. GhostFree'
  BY <1>1 DEF GhostInv, GhostFree, Gone
<1>3. ASSUME NEW p \in Producers, at'[p] = "reply"
      PROVE  Applicable(p)'
  <2>1. at[p] = "reply" /\ reply'[p] = reply[p] /\ Applicable(p)
    BY <1>3 DEF GhostInv, PendingIn
  <2>2. reply[p].sequence \in producerHeld
    BY <2>1 DEF GhostInv, SentInv, PendingHeld
  <2>3. reply[p].sequence \notin BeingReported'
    BY <2>1, <2>2, HeldUnreported DEF GhostInv, Applicable
  <2>4. reply[p].sequence \in DOMAIN cache' \cup untold'
    BY <2>1, <2>2 DEF Applicable, Spares, Gone
  <2>5. Resolves(reply[p])'
    BY <2>1 DEF Applicable, Resolves
  <2> QED
    BY <2>1, <2>3, <2>4, <2>5 DEF Applicable
<1>4. PendingIn'
  BY <1>3 DEF PendingIn
<1> QED
  BY <1>2, <1>4

LEMMA ForgottenKeep ==
    ASSUME clientCache' = {}, \A p \in Producers : at'[p] # "reply"
    PROVE  GhostFree' /\ PendingIn'
BY DEF GhostFree, PendingIn

(* The consumer's clearing takes everything, and reports nothing of it.    *)
LEMMA UntoldKeep ==
    ASSUME GhostInv, ~ConsumerGone, NEW m \in Managers, ConsumerGoBackground(m)
    PROVE  GhostFree' /\ PendingIn'
<1>t. TypeOK /\ m \in Threads
  BY DEF GhostInv, SentInv, ReportInv, SurfaceTypeOK, Threads
<1>1. Cleared /\ UNCHANGED <<clientCache, at, reply>>
  <2>1. ClearLocked /\ UNCHANGED nextSequence
    BY DEF ConsumerGoBackground, GoBackground
  <2> QED
    BY <2>1, ClearClears DEF ConsumerGoBackground, surfaceVars
<1>2. untold' = untold \cup DOMAIN cache \cup ToSet(deletingList)
  BY DEF ConsumerGoBackground
<1>3. /\ BeingReported' \subseteq BeingReported
      /\ BeingReported \subseteq BeingReported' \cup ToSet(deletingList)
  BY <1>1 DEF BeingReported, Cleared
<1>4. GhostFree'
  BY <1>1, <1>2, <1>3 DEF GhostInv, GhostFree
<1>5. PendingIn'
  BY <1>1, <1>2, <1>3 DEF GhostInv, PendingIn, Applicable, Resolves
<1> QED
  BY <1>4, <1>5

(* A step that serves a request hands on what it deletes.                  *)
LEMMA ServedKeep ==
    ASSUME GhostInv, ~ConsumerGone, Owned, SurfaceNext, ReplyResolves', isValidStatus',
           ReportedNotInUse', UNCHANGED untold,
           NEW p \in Producers, NEW s, ServesReply(p, s)
    PROVE  GhostFree' /\ PendingIn'
<1> DEFINE r == [sequence |-> s, buffer |-> Sends(s), deletingBuffers |-> Reported]
<1>t. SurfaceTypeOK /\ PendingHeld /\ TypeOK
  BY DEF GhostInv, SentInv, ReportInv, SurfaceTypeOK
<1>1. /\ at[p] = "request" /\ UNCHANGED clientCache
      /\ r.sequence = s /\ r.deletingBuffers = Reported
      /\ at' = [at EXCEPT ![p] = "reply"] /\ reply' = [reply EXCEPT ![p] = r]
  BY DEF ServesReply, MoveTo
<1> HIDE DEF r
<1>2. \A q \in Producers :
        /\ at'[q] = IF q = p THEN "reply" ELSE at[q]
        /\ reply'[q] = IF q = p THEN r ELSE reply[q]
  BY <1>1, <1>t DEF SurfaceTypeOK
<1>3. Handed(s) /\ s \notin producerHeld
  BY <1>t, ServesHands
<1>4. s \in DOMAIN cache' /\ Gone \subseteq ToSet(freeList)
  <2>1. CASE HandedAgain(s)
    <3>1. s \in SeqNumbers
      BY <1>t, ServesHands
    <3>2. s \in DOMAIN cache
      BY <1>t, <2>1, <3>1, LedgerType DEF Owned, ListsOK, HandedAgain
    <3> QED
      BY <2>1, <3>2 DEF HandedAgain, Gone
  <2>2. CASE HandedNew(s)
    BY <2>2 DEF HandedNew, Gone
  <2>3. CASE HandedMore(s)
    BY <2>3 DEF HandedMore, Gone
  <2> QED
    BY <1>3, <2>1, <2>2, <2>3 DEF Handed
<1>5. ToSet(deletingList') = {} \/ (UNCHANGED deletingList /\ Gone = {})
  <2>1. CASE HandedAgain(s) \/ HandedNew(s)
    BY <2>1 DEF HandedAgain, HandedNew
  <2>2. CASE HandedMore(s)
    BY <2>2 DEF HandedMore, Gone
  <2> QED
    BY <1>3, <2>1, <2>2 DEF Handed
<1>6. ToSet(deletingList) \cup Gone \subseteq BeingReported'
  <2>1. Reported \cup ToSet(deletingList') \subseteq BeingReported'
    <3>1. reply'[p].deletingBuffers = Reported
      BY <1>1, <1>2
    <3> QED
      BY <3>1 DEF BeingReported
  <2>2. ToSet(deletingList) \cup Gone \subseteq Reported \cup ToSet(deletingList')
    BY DEF Reported, Gone
  <2> QED
    BY <2>1, <2>2
<1>7. \A q \in Producers : reply[q].deletingBuffers \subseteq BeingReported'
  <2>1. ASSUME NEW q \in Producers
        PROVE  reply[q].deletingBuffers \subseteq BeingReported'
    <3>1. CASE q = p
      <4>1. reply[q].deletingBuffers = {}
        BY <1>1, <1>t, <3>1 DEF SurfaceTypeOK, NoReply
      <4> QED
        BY <4>1
    <3>2. CASE q # p
      <4>1. reply'[q].deletingBuffers = reply[q].deletingBuffers
        BY <1>2, <3>2
      <4> QED
        BY <4>1 DEF BeingReported
    <3> QED
      BY <3>1, <3>2
  <2> QED
    BY <2>1
<1>8. GhostFree'
  <2>1. clientCache \subseteq DOMAIN cache \cup BeingReported \cup untold
    BY DEF GhostInv, GhostFree
  <2>2. BeingReported \subseteq BeingReported'
    BY <1>6, <1>7 DEF BeingReported
  <2>3. DOMAIN cache \subseteq DOMAIN cache' \cup BeingReported'
    BY <1>6 DEF Gone
  <2> QED
    BY <1>1, <2>1, <2>2, <2>3 DEF GhostFree
<1>9. PendingIn'
  <2>1. ASSUME NEW q \in Producers, at'[q] = "reply"
        PROVE  Applicable(q)'
    <3>1. CASE q = p
      <4>1. reply'[q].sequence = s
        BY <1>1, <1>2, <3>1
      <4>2. Resolves(reply[q])'
        BY <1>4, <2>1, <4>1 DEF ReplyResolves
      <4>3. s \notin BeingReported'
        BY <1>4 DEF ReportedNotInUse
      <4> QED
        BY <1>4, <4>1, <4>2, <4>3 DEF Applicable
    <3>2. CASE q # p
      <4>1. at[q] = "reply" /\ reply'[q] = reply[q]
        BY <1>2, <2>1, <3>2
      <4>2. Applicable(q) /\ reply[q].sequence \in producerHeld
        BY <1>t, <4>1 DEF GhostInv, PendingIn, PendingHeld
      <4>3. Spares
        BY <1>4, <1>t, ListedSpares DEF Spares, Listed
      <4>4. reply[q].sequence \notin BeingReported'
        BY <4>2, <4>3, HeldUnreported DEF GhostInv, Applicable
      <4>5. reply[q].sequence \in DOMAIN cache' \cup untold'
        BY <4>2, <4>3 DEF Applicable, Spares, Gone
      <4>6. Resolves(reply[q])'
        BY <1>1, <4>1, <4>2 DEF Applicable, Resolves
      <4> QED
        BY <4>1, <4>4, <4>5, <4>6 DEF Applicable
    <3> QED
      BY <3>1, <3>2
  <2> QED
    BY <2>1 DEF PendingIn
<1> QED
  BY <1>8, <1>9

LEMMA AppliedKeep ==
    ASSUME GhostInv, ~ConsumerGone, NEW p \in Producers, ApplyReply(p), UNCHANGED untold
    PROVE  GhostFree' /\ PendingIn'
<1> DEFINE r == reply[p]
<1>t. SurfaceTypeOK
  BY DEF GhostInv, SentInv, ReportInv
<1>1. at[p] = "reply" /\ Applicable(p)
  BY DEF ApplyReply, GhostInv, PendingIn
<1>2. /\ clientCache' = (clientCache \cup {r.sequence}) \ r.deletingBuffers
      /\ UNCHANGED <<cache, deletingList>>
      /\ at' = [at EXCEPT ![p] = "app"] /\ reply' = [reply EXCEPT ![p] = NoReply]
  BY <1>1 DEF Applicable, ApplyReply, MoveTo, Known, vars, bufferVars
<1>3. \A q \in Producers :
        /\ at'[q] = IF q = p THEN "app" ELSE at[q]
        /\ reply'[q] = IF q = p THEN NoReply ELSE reply[q]
  BY <1>2, <1>t DEF SurfaceTypeOK
<1>4. BeingReported \subseteq BeingReported' \cup r.deletingBuffers
  BY <1>2, <1>3 DEF BeingReported
<1>5. GhostFree'
  BY <1>1, <1>2, <1>4 DEF GhostInv, GhostFree, Applicable
<1>6. BeingReported' \subseteq BeingReported
  BY <1>2, <1>3 DEF BeingReported, NoReply
<1>7. ASSUME NEW q \in Producers, at'[q] = "reply"
      PROVE  Applicable(q)'
  <2>1. at[q] = "reply" /\ reply'[q] = reply[q] /\ Applicable(q)
    BY <1>3, <1>7 DEF GhostInv, PendingIn
  <2>2. reply[q].sequence \notin r.deletingBuffers
    BY <2>1 DEF Applicable, BeingReported
  <2>3. Resolves(reply[q])'
    BY <1>2, <2>1, <2>2 DEF Applicable, Resolves
  <2> QED
    BY <1>2, <1>6, <2>1, <2>3 DEF Applicable
<1>8. PendingIn'
  BY <1>7 DEF PendingIn
<1> QED
  BY <1>5, <1>8

LEMMA GhostStep ==
    ASSUME "ClearWhileRequesting" \notin Habits, "SetListener" \notin Calls, GhostInv, SentInv',
           SurfaceNext
    PROVE  GhostFree' /\ PendingIn'
<1> SUFFICES ASSUME ~ConsumerGone' PROVE GhostFree' /\ PendingIn'
  BY DEF GhostFree, PendingIn
<1>t. SurfaceTypeOK /\ TypeOK /\ ~isShared /\ at \in [Producers -> Places] /\ PendingHeld
  BY DEF GhostInv, SentInv, ReportInv, SurfaceTypeOK
<1>g. /\ isValidStatus /\ ~ConsumerGone
      /\ \A m \in Managers : ~OnConsumerDied(m)
  BY <1>t, GoneStays
<1>o. Owned
  BY <1>g DEF GhostInv, SentInv, Ordered
<1>r. ReplyResolves' /\ ReportedNotInUse' /\ isValidStatus'
  BY DEF SentInv, ReportInv, ConsumerGone
<1>c. \A p, q \in Producers :
        p # q /\ at[p] \in ClearPlaces => at[q] \notin RequestPlaces \cup ClearPlaces
  BY DEF GhostInv, SentInv, PlaceInv, Alone
<1>v. UNCHANGED bufferVars /\ UNCHANGED nextSequence => Moved /\ Spares
  BY KeptMoves DEF Spares, Gone, bufferVars
<1>m. ASSUME NEW p \in Producers, NEW l, MoveTo(p, l) \/ UNCHANGED at, l # "reply",
             Moved, Spares, UNCHANGED <<clientCache, reply, untold>>
      PROVE  GhostFree' /\ PendingIn'
  <2>1. \A q \in Producers : at'[q] = "reply" => at[q] = "reply"
    BY <1>m, <1>t DEF MoveTo
  <2> QED
    BY <1>m, <1>g, <1>o, <2>1, MovesKeep
<1>1. ASSUME NEW p \in Producers, NEW config \in Configs, SurfaceRequest(p, config),
             UNCHANGED untold
      PROVE  GhostFree' /\ PendingIn'
  <2>1. Waits(p) /\ UNCHANGED <<clientCache, reply>> /\ (MoveTo(p, "request") \/ MoveTo(p, "refused"))
    BY <1>1 DEF SurfaceRequest, Waits
  <2>2. Moved /\ Spares
    BY <2>1, <1>v, WaitKeeps DEF Waits, noBufferVars
  <2> QED
    BY <1>1, <1>m, <2>1, <2>2
<1>2. ASSUME NEW p \in Producers, RequestServed(p), UNCHANGED untold
      PROVE  GhostFree' /\ PendingIn'
  <2>2. at[p] = "request" /\ Takes(p)
    BY <1>2 DEF RequestServed, Takes
  <2>3. CASE producerHeld' = producerHeld
    <3>1. Moved /\ Spares
      BY <1>t, <1>o, <2>2, <2>3, TakeLoses, ListedSpares DEF Spares, Listed
    <3>2. MoveTo(p, "app") /\ UNCHANGED <<clientCache, reply>>
      BY <1>2, <2>3 DEF RequestServed
    <3> QED
      BY <1>2, <1>m, <3>1, <3>2
  <2>4. CASE producerHeld' # producerHeld
    <3>1. \E s : ServesReply(p, s)
      BY <1>2, <2>2, <2>4 DEF RequestServed, ServesReply
    <3> QED
      BY <1>2, <1>g, <1>o, <1>r, <3>1, ServedKeep
  <2> QED
    BY <2>3, <2>4
<1>3. ASSUME NEW p \in Producers, RequestWaits(p), UNCHANGED untold
      PROVE  GhostFree' /\ PendingIn'
  <2>1. UNCHANGED <<clientCache, reply>> /\ Waits(p)
    BY <1>3 DEF RequestWaits, Waits
  <2>2. UNCHANGED at \/ MoveTo(p, "app") \/ MoveTo(p, "refused")
    BY <1>3 DEF RequestWaits
  <2>3. Moved /\ Spares
    BY <2>1, <1>v, WaitKeeps DEF Waits, noBufferVars
  <2> QED
    BY <1>3, <1>m, <2>1, <2>2, <2>3
<1>4. ASSUME NEW p \in Producers, RequestRefused(p)
      PROVE  FALSE
  BY <1>4, <1>g DEF RequestRefused, GhostInv, SentInv, PlaceInv, RefusedGone
<1>5. ASSUME NEW p \in Producers, ApplyReply(p), UNCHANGED untold
      PROVE  GhostFree' /\ PendingIn'
  BY <1>5, <1>g, AppliedKeep
<1>6. ASSUME NEW p \in Producers, NEW l \in ClearPlaces, Forgets(p, l)
      PROVE  GhostFree' /\ PendingIn'
  <2>1. clientCache' = {} /\ MoveTo(p, l) /\ l # "reply"
    BY <1>6 DEF Forgets, ClearPlaces
  <2>2. \A q \in Producers : at[q] # "reply"
    BY <1>6 DEF Forgets, MayClear, RequestPlaces
  <2>3. \A q \in Producers : at'[q] # "reply"
    BY <1>t, <2>1, <2>2 DEF MoveTo
  <2> QED
    BY <2>1, <2>3, ForgottenKeep
<1>7. ASSUME NEW p \in Producers,
             \/ NotConnected(p) \/ SetDisconnected(p) \/ ProducerCleanCache(p)
             \/ ProducerGoBackground(p) \/ ProducerDisconnect(p) \/ DisconnectClears(p)
      PROVE  GhostFree' /\ PendingIn'
  <2>1. /\ at[p] \in ClearPlaces /\ UNCHANGED clientCache
        /\ \E l : MoveTo(p, l) /\ l # "reply"
    BY <1>7 DEF NotConnected, SetDisconnected, ProducerCleanCache, ProducerGoBackground,
                ProducerDisconnect, DisconnectClears, ClearPlaces
  <2>2. clientCache' = {}
    BY <2>1 DEF GhostInv, SentInv, PlaceInv, Forgotten
  <2>3. \A q \in Producers \ {p} : at[q] # "reply"
    BY <1>c, <2>1 DEF RequestPlaces
  <2>4. \A q \in Producers : at'[q] # "reply"
    BY <1>t, <2>1, <2>3 DEF MoveTo
  <2> QED
    BY <2>2, <2>4, ForgottenKeep
<1>k. ASSUME UNCHANGED surfaceVars, UNCHANGED untold, Moved, Spares
      PROVE  GhostFree' /\ PendingIn'
  BY <1>k, <1>g, <1>o, MovesKeep DEF surfaceVars
<1>8. ASSUME NEW p \in Producers, SurfaceReturns(p), UNCHANGED untold
      PROVE  GhostFree' /\ PendingIn'
  BY <1>8, <1>k, <1>t, <1>o, ReturnMoves DEF SurfaceReturns
<1>9. CASE OtherSide
  <2>1. ASSUME NEW c \in Consumers, ConsumerCall(c) \/ ReleaseStep(c)
        PROVE  Moved /\ Spares
    BY <2>1, <1>t, <1>o, ConsumerMoves
  <2>2. ASSUME NEW m \in Managers,
               \/ \E size \in 1..MaxQueueSize : SetQueueSize(m, size)
               \/ \E on \in BOOLEAN : SetListener(m, on)
               \/ ManagerStep(m)
        PROVE  Moved /\ Spares
    <3>1. m \in Threads /\ TypeOK
      BY <1>t DEF Threads
    <3>2. CASE ManagerStep(m)
      <4>1. UNCHANGED bufferVars /\ UNCHANGED nextSequence
        BY <3>2 DEF ManagerStep, SetQueueSizeWrite, SetStatus
      <4> QED
        BY <1>v, <4>1
    <3>3. ASSUME NEW size \in 1..MaxQueueSize, SetQueueSize(m, size)
          PROVE  Moved /\ Spares
      <4>1. /\ UNCHANGED nextSequence
            /\ \/ DeleteBuffers(queueSize - size) /\ size < queueSize
               \/ UNCHANGED bufferVars
        BY <3>3 DEF SetQueueSize
      <4>2. CASE DeleteBuffers(queueSize - size) /\ size < queueSize
        <5>1. queueSize - size \in Nat
          BY <4>2, <3>1, QueueAssumption DEF TypeOK, StatusTypeOK
        <5> QED
          BY <3>1, <1>o, <4>1, <4>2, <5>1, DeleteBuffersMoves, ListedSpares DEF Spares, Gone
      <4> QED
        BY <1>v, <4>1, <4>2
    <3>4. ASSUME NEW on \in BOOLEAN, SetListener(m, on)
          PROVE  FALSE
      BY <3>4 DEF SetListener
    <3> QED
      BY <2>2, <3>2, <3>3, <3>4
  <2>3. CASE \E m \in Managers : ConsumerGoBackground(m)
    BY <1>g, <2>3, UntoldKeep
  <2> QED
    BY <1>9, <1>g, <1>k, <2>1, <2>2, <2>3 DEF OtherSide
<1> QED
  BY <1>1, <1>2, <1>3, <1>4, <1>5, <1>6, <1>7, <1>8, <1>9
  DEF SurfaceNext, ClientStep, SurfaceCleanCache, SurfaceGoBackground, SurfaceDisconnect,
      ClearPlaces

LEMMA GhostHolds ==
    ASSUME "ClearWhileRequesting" \notin Habits, "SetListener" \notin Calls
    PROVE  SurfaceSpec => []GhostInv
<1>1. SurfaceInit => GhostInv
  <2>1. SurfaceInit => clientCache = {} /\ \A p \in Producers : at[p] # "reply"
    BY DEF SurfaceInit
  <2> QED
    BY <2>1, SentInit DEF GhostInv, GhostFree, PendingIn
<1>2. GhostInv /\ [SurfaceNext]_allVars => GhostInv'
  <2> SUFFICES ASSUME GhostInv, [SurfaceNext]_allVars PROVE GhostInv'
    OBVIOUS
  <2>1. SentInv'
    BY SentInvStep DEF GhostInv
  <2>2. CASE SurfaceNext
    BY <2>1, <2>2, GhostStep DEF GhostInv
  <2>3. CASE UNCHANGED allVars
    <3>1. /\ UNCHANGED <<cache, deletingList, isValidStatus, pc>>
          /\ UNCHANGED <<clientCache, at, reply, untold>>
      BY <2>3 DEF allVars, vars, bufferVars, statusVars, threadVars, surfaceVars
    <3> QED
      BY <2>1, <3>1
      DEF GhostInv, GhostFree, PendingIn, Applicable, Resolves, ConsumerGone, BeingReported
  <2> QED
    BY <2>2, <2>3
<1> QED
  BY <1>1, <1>2, PTL DEF SurfaceSpec

(* In every reachable state what the client's cache has is in the queue,   *)
(* or will be reported as deleted, or was taken from the queue by the      *)
(* consumer's clearing, until the consumer dies or the client itself is    *)
(* clearing: resizing, failing allocations, replaced buffers and the       *)
(* client's own clearing leave no memory behind for buffers nobody uses.   *)
THEOREM NoGhostsKept ==
    ASSUME "ClearWhileRequesting" \notin Habits, "SetListener" \notin Calls
    PROVE  SurfaceSpec => []NoGhosts
<1>1. GhostInv => NoGhosts
  BY DEF GhostInv, GhostFree, NoGhosts
<1> QED
  BY <1>1, GhostHolds, PTL
=============================================================================
