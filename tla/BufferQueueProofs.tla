------------------------- MODULE BufferQueueProofs -------------------------
(***************************************************************************)
(* Theorems about BufferQueue, for every number of threads, every          *)
(* configuration, queue size, call profile and failure profile.            *)
(*                                                                         *)
(* The first part is about types, sleeping threads and announcements.      *)
(*                                                                         *)
(* The second is about who has which buffer.  Its argument is about a      *)
(* ledger of the queue: the state of every buffer, the members of the two  *)
(* lists, what each side holds, and what each thread's unfinished flush or *)
(* release is about.  The effect lemmas say what an action does to the     *)
(* ledger; Owned is the inductive invariant.  The action properties follow *)
(* from the effects, and so does the refinement of BufferLifecycle, which  *)
(* follows one buffer.                                                     *)
(***************************************************************************)
EXTENDS BufferQueueCorrect, FiniteSetTheorems, TLAPS

----------------------------------------------------------------------------
(* Lemmas about the operators on the buffer map and the lists.             *)

MapOK(elements) ==
    /\ DOMAIN elements \subseteq SeqNumbers
    /\ \A s \in DOMAIN elements : elements[s] \in BufferElement

LEMMA NewElementType ==
    ASSUME NEW state \in BufferStates, NEW config \in Configs
    PROVE  NewElement(state, config) \in BufferElement
BY DEF NewElement, BufferElement

LEMMA PutType ==
    ASSUME NEW elements, MapOK(elements), NEW s \in SeqNumbers,
           NEW element \in BufferElement
    PROVE  MapOK(Put(elements, s, element))
BY DEF MapOK, Put

LEMMA EraseType ==
    ASSUME NEW elements, MapOK(elements), NEW gone
    PROVE  MapOK(Erase(elements, gone))
BY DEF MapOK, Erase

LEMMA SetStateType ==
    ASSUME NEW elements, MapOK(elements), NEW s, NEW state \in BufferStates
    PROVE  MapOK([elements EXCEPT ![s].state = state])
BY DEF MapOK, BufferElement

LEMMA MarkFirstType ==
    ASSUME NEW elements, MapOK(elements), NEW n
    PROVE  MapOK(MarkFirst(elements, n))
<1> DEFINE F == FirstEntries(elements, n)
           marked == MarkFirst(elements, n)
<1>1. DOMAIN marked = DOMAIN elements
  BY DEF MarkFirst
<1>2. ASSUME NEW s \in DOMAIN elements
      PROVE  marked[s] \in BufferElement
  <2>1. elements[s] \in BufferElement
    BY DEF MapOK
  <2>2. marked[s] = [elements[s] EXCEPT !.isDeleting = elements[s].isDeleting \/ s \in F]
    BY DEF MarkFirst
  <2>3. (elements[s].isDeleting \/ s \in F) \in BOOLEAN
    OBVIOUS
  <2> QED
    BY <2>1, <2>2, <2>3 DEF BufferElement
<1> QED
  BY <1>1, <1>2 DEF MapOK

LEMMA RemoveAtType ==
    ASSUME NEW S, NEW list \in Seq(S), NEW i \in DOMAIN list
    PROVE  RemoveAt(list, i) \in Seq(S)
BY DEF RemoveAt

LEMMA DropFirstType ==
    ASSUME NEW S, NEW list \in Seq(S), NEW n \in 0..Len(list)
    PROVE  /\ SubSeq(list, 1, n) \in Seq(S)
           /\ SubSeq(list, n + 1, Len(list)) \in Seq(S)
OBVIOUS

----------------------------------------------------------------------------
(* A thread's argument fits its place, whichever way its step ends.        *)

LEMMA GotoType ==
    ASSUME ThreadTypeOK, NEW t \in Threads, NEW label, NEW a, ArgOK(label, a),
           Goto(t, label, a)
    PROVE  ThreadTypeOK'
BY DEF ThreadTypeOK, Goto

LEMMA IdleArg == \A a : ArgOK("idle", a)
BY DEF ArgOK, Labels, RequestPcs, FlushPcs, ReleasePcs

LEMMA WokenArg == \A a : ArgOK("waiting", a) => ArgOK("woken", a)
BY DEF ArgOK, Labels, RequestPcs, FlushPcs, ReleasePcs

LEMMA ReturnType ==
    ASSUME ThreadTypeOK, NEW t \in Threads, Return(t)
    PROVE  ThreadTypeOK'
BY GotoType, IdleArg DEF Return

LEMMA NotifyType ==
    ASSUME ThreadTypeOK, NEW t \in Threads, NEW label, ArgOK(label, NoArg),
           NotifyAllAndGoto(t, label)
    PROVE  ThreadTypeOK'
BY WokenArg DEF ThreadTypeOK, NotifyAllAndGoto

LEMMA NotifyReturnType ==
    ASSUME ThreadTypeOK, NEW t \in Threads, NotifyAllAndReturn(t)
    PROVE  ThreadTypeOK'
BY NotifyType, IdleArg DEF NotifyAllAndReturn

----------------------------------------------------------------------------
(* Type correctness: one lemma for the actions of each call.               *)

LEMMA ReuseType ==
    ASSUME TypeOK, NEW p \in Producers, arg[p] \in Configs, NEW s \in SeqNumbers,
           ReuseBuffer(p, s)
    PROVE  /\ CacheTypeOK' /\ deletingList' \in Seq(SeqNumbers)
           /\ producerCacheClean' \in BOOLEAN /\ producerCacheList' \subseteq SeqNumbers
           /\ nextSequence' \in 1..(MaxSequence + 1)
           /\ producerHeld' \subseteq SeqNumbers
<1> USE QueueAssumption DEF TypeOK, StatusTypeOK, ClientTypeOK, ListTypeOK
<1>0. MapOK(cache) /\ "REQUESTED" \in BufferStates
  BY DEF CacheTypeOK, MapOK, BufferStates
<1>n. ASSUME NEW x \in SeqNumbers, NoteReturned(x)
      PROVE  producerCacheClean' \in BOOLEAN /\ producerCacheList' \subseteq SeqNumbers
  BY <1>n DEF NoteReturned, cleanVars
<1>1. CASE ReuseSameConfig(p, s)
  <2>1. MapOK(cache')
    BY <1>0, <1>1, SetStateType DEF ReuseSameConfig
  <2>2. CacheTypeOK'
    BY <2>1 DEF MapOK, CacheTypeOK
  <2>3. producerCacheClean' \in BOOLEAN /\ producerCacheList' \subseteq SeqNumbers
    BY <1>1, <1>n DEF ReuseSameConfig
  <2>4. deletingList' \in Seq(SeqNumbers) /\ nextSequence' \in 1..(MaxSequence + 1)
    BY <1>1 DEF ReuseSameConfig
  <2>5. producerHeld' \subseteq SeqNumbers
    BY <1>1 DEF ReuseSameConfig, GiveToProducer
  <2> QED
    BY <2>2, <2>3, <2>4, <2>5
<1>2. CASE ReuseRealloc(p, s)
  <2>0. nextSequence \in SeqNumbers
    BY <1>2 DEF ReuseRealloc, CanAlloc, SeqNumbers
  <2>1. MapOK(cache')
    BY <1>0, <1>2, <2>0, PutType, EraseType, NewElementType DEF ReuseRealloc
  <2>2. nextSequence' \in 1..(MaxSequence + 1)
    BY <1>2 DEF ReuseRealloc, CanAlloc
  <2>3. CacheTypeOK'
    BY <2>1 DEF MapOK, CacheTypeOK
  <2>4. producerCacheClean' \in BOOLEAN /\ producerCacheList' \subseteq SeqNumbers
    BY <2>0, <1>2, <1>n DEF ReuseRealloc
  <2>5. deletingList' \in Seq(SeqNumbers)
    BY <1>2 DEF ReuseRealloc
  <2>6. producerHeld' \subseteq SeqNumbers
    BY <2>0, <1>2 DEF ReuseRealloc, GiveToProducer
  <2> QED
    BY <2>2, <2>3, <2>4, <2>5, <2>6
<1>3. CASE ReuseReallocFails(p, s)
  <2>1. MapOK(cache')
    BY <1>0, <1>3, EraseType DEF ReuseReallocFails
  <2>2. CacheTypeOK'
    BY <2>1 DEF MapOK, CacheTypeOK
  <2>3. UNCHANGED <<producerCacheClean, producerCacheList, producerHeld, nextSequence>>
    BY <1>3 DEF ReuseReallocFails, cleanVars
  <2>4. deletingList' \in Seq(SeqNumbers)
    BY <1>3 DEF ReuseReallocFails
  <2> QED
    BY <2>2, <2>3, <2>4
<1>4. CASE ReuseRefused(p, s)
  BY <1>4 DEF ReuseRefused, CacheTypeOK, cleanVars
<1> QED
  BY <1>1, <1>2, <1>3, <1>4 DEF ReuseBuffer

LEMMA TakeBufferType ==
    ASSUME TypeOK, NEW p \in Producers, arg[p] \in Configs, TakeBuffer(p)
    PROVE  TypeOK'
<1> USE DEF TypeOK, StatusTypeOK, ClientTypeOK, ListTypeOK
<1>1. ThreadTypeOK'
  BY ReturnType DEF TakeBuffer, Threads
<1>2. UNCHANGED <<dirtyList, isShared, queueSize, isValidStatus, listener, consumerHeld,
                  notifications>>
  BY DEF TakeBuffer, statusVars
<1>3. CASE PopAndReuse(p)
  <2>1. CASE SharedHit /\ UNCHANGED freeList /\
             \E s \in DOMAIN cache : SharedBuffer(s) /\ ReuseBuffer(p, s)
    BY <1>1, <1>2, <2>1, ReuseType DEF CacheTypeOK
  <2>2. ASSUME NEW i \in DOMAIN freeList, ReuseBuffer(p, freeList[i]),
               freeList' = RemoveAt(freeList, i)
        PROVE  TypeOK'
    <3>1. freeList[i] \in SeqNumbers
      OBVIOUS
    <3>2. freeList' \in Seq(SeqNumbers)
      BY <2>2, RemoveAtType
    <3> QED
      BY <1>1, <1>2, <2>2, <3>1, <3>2, ReuseType
  <2> QED
    BY <1>3, <2>1, <2>2 DEF PopAndReuse
<1>4. CASE AllocBuffer(p)
  <2> USE QueueAssumption
  <2>1. MapOK(cache) /\ "REQUESTED" \in BufferStates
    BY DEF CacheTypeOK, MapOK, BufferStates
  <2>2. UNCHANGED <<freeList, deletingList, producerCacheClean, producerCacheList>>
    BY <1>4 DEF AllocBuffer, cleanVars
  <2>3. CASE /\ CanAlloc /\ GiveToProducer(nextSequence) /\ nextSequence' = nextSequence + 1
             /\ cache' = Put(cache, nextSequence, NewElement("REQUESTED", arg[p]))
    <3>0. nextSequence \in SeqNumbers
      BY <2>3 DEF CanAlloc, SeqNumbers
    <3>1. MapOK(cache')
      BY <2>1, <2>3, <3>0, PutType, NewElementType
    <3>2. nextSequence' \in 1..(MaxSequence + 1)
      BY <2>3 DEF CanAlloc
    <3> QED
      BY <1>1, <1>2, <2>2, <2>3, <3>0, <3>1, <3>2 DEF MapOK, CacheTypeOK, GiveToProducer
  <2>4. CASE UNCHANGED <<cache, producerHeld, nextSequence>>
    BY <1>1, <1>2, <2>2, <2>4 DEF CacheTypeOK
  <2> QED
    BY <1>4, <2>3, <2>4 DEF AllocBuffer
<1> QED
  BY <1>3, <1>4 DEF TakeBuffer

LEMMA UnchangedBuffers ==
    ASSUME CacheTypeOK, ListTypeOK, UNCHANGED bufferVars
    PROVE  CacheTypeOK' /\ ListTypeOK'
BY DEF CacheTypeOK, ListTypeOK, bufferVars

LEMMA UnchangedStatus ==
    ASSUME StatusTypeOK, UNCHANGED <<statusVars, cleanVars, nextSequence>>
    PROVE  StatusTypeOK'
BY DEF StatusTypeOK, statusVars, cleanVars

LEMMA UnchangedClient ==
    ASSUME ClientTypeOK, UNCHANGED clientVars
    PROVE  ClientTypeOK'
BY DEF ClientTypeOK, clientVars

LEMMA UnchangedNoBuffer ==
    ASSUME TypeOK, UNCHANGED noBufferVars
    PROVE  CacheTypeOK' /\ ListTypeOK' /\ StatusTypeOK' /\ ClientTypeOK'
BY UnchangedBuffers, UnchangedStatus, UnchangedClient DEF TypeOK, noBufferVars

LEMMA LabelArgs ==
    /\ \A a \in Configs : \A l \in RequestPcs : ArgOK(l, a)
    /\ \A a \in SeqNumbers : \A l \in FlushPcs \cup ReleasePcs \cup {"attachRelock"} :
          ArgOK(l, a)
    /\ \A a \in 1..MaxQueueSize : ArgOK("setSizeWrite", a)
    /\ \A a : ArgOK("setStatus", a)
BY DEF ArgOK, Labels, RequestPcs, FlushPcs, ReleasePcs

LEMMA RequestType ==
    ASSUME TypeOK, NEW p \in Producers,
           \/ \E config \in Configs : RequestBuffer(p, config)
           \/ CallRefused(p) \/ RequestStep(p) \/ WaitTimeout(p)
    PROVE  TypeOK'
<1>p. p \in Threads
  BY DEF Threads
<1>a. pc[p] \in RequestPcs => arg[p] \in Configs
  BY <1>p DEF TypeOK, ThreadTypeOK, ArgOK
<1>g. ASSUME NEW l \in RequestPcs, NEW a \in Configs, Goto(p, l, a), UNCHANGED noBufferVars
      PROVE  TypeOK'
  BY <1>g, <1>p, LabelArgs, GotoType, UnchangedNoBuffer DEF TypeOK
<1>r. ASSUME Return(p), UNCHANGED noBufferVars
      PROVE  TypeOK'
  BY <1>r, <1>p, ReturnType, UnchangedNoBuffer DEF TypeOK
<1>1. ASSUME NEW config \in Configs, RequestBuffer(p, config)
      PROVE  TypeOK'
  BY <1>1, <1>g DEF RequestBuffer, RequestPcs
<1>2. CASE CallRefused(p)
  <2>1. UNCHANGED noBufferVars /\ ThreadTypeOK'
    BY <1>2 DEF CallRefused, vars, noBufferVars, threadVars, TypeOK, ThreadTypeOK
  <2> QED
    BY <2>1, UnchangedNoBuffer DEF TypeOK
<1>3. CASE RequestLocked(p) \/ RetryTakes(p)
  <2>1. TakeBuffer(p) /\ pc[p] \in RequestPcs
    BY <1>3 DEF RequestLocked, RetryTakes, WaitOver, RequestPcs
  <2> QED
    BY <2>1, <1>a, TakeBufferType
<1>4. CASE RequestMustWait(p)
  BY <1>4, <1>a, <1>g, <1>r DEF RequestMustWait, RequestPcs
<1>5. CASE WaitBlock(p)
  BY <1>5, <1>a, <1>g DEF WaitBlock, RequestPcs
<1>6. CASE WaitTimeout(p)
  BY <1>6, <1>a, <1>g DEF WaitTimeout, RequestPcs
<1>7. CASE WaitAgain(p)
  BY <1>7, <1>a, <1>g DEF WaitAgain, RequestPcs
<1>8. CASE RetryFails(p)
  BY <1>8, <1>r DEF RetryFails
<1> QED
  BY <1>1, <1>2, <1>3, <1>4, <1>5, <1>6, <1>7, <1>8 DEF RequestStep

(* CancelLocked, also as FlushCancels does it.                             *)
LEMMA CancelLockedType ==
    ASSUME CacheTypeOK, ListTypeOK, NEW s \in SeqNumbers, CancelLocked(s)
    PROVE  CacheTypeOK' /\ ListTypeOK'
<1>1. MapOK(cache) /\ "RELEASED" \in BufferStates
  BY DEF CacheTypeOK, MapOK, BufferStates
<1>2. MapOK(cache')
  BY <1>1, SetStateType DEF CancelLocked
<1>3. freeList' \in Seq(SeqNumbers) /\ UNCHANGED <<dirtyList, deletingList>>
  BY DEF CancelLocked, ListTypeOK
<1> QED
  BY <1>2, <1>3 DEF CacheTypeOK, MapOK, ListTypeOK

LEMMA FlushType ==
    ASSUME TypeOK, NEW p \in Producers,
           \/ \E s \in SeqNumbers : CancelBuffer(p, s) \/ FlushBuffer(p, s)
           \/ FlushStep(p)
    PROVE  TypeOK'
<1> USE DEF TypeOK
<1>p. p \in Threads
  BY DEF Threads
<1>a. pc[p] \in FlushPcs => arg[p] \in SeqNumbers
  BY <1>p DEF ThreadTypeOK, ArgOK
<1>m. MapOK(cache)
  BY DEF CacheTypeOK, MapOK
<1>g. ASSUME NEW l \in FlushPcs, NEW s \in SeqNumbers, Goto(p, l, s)
      PROVE  ThreadTypeOK'
  BY <1>g, <1>p, LabelArgs, GotoType
<1>r. Return(p) \/ NotifyAllAndReturn(p) => ThreadTypeOK'
  BY <1>p, ReturnType, NotifyReturnType
<1>1. ASSUME NEW s \in SeqNumbers, CancelBuffer(p, s)
      PROVE  TypeOK'
  <2>1. CacheTypeOK' /\ ListTypeOK' /\ ThreadTypeOK'
    BY <1>1, <1>r, CancelLockedType DEF CancelBuffer
  <2>2. UNCHANGED <<statusVars, cleanVars, nextSequence>>
    BY <1>1 DEF CancelBuffer
  <2>3. ClientTypeOK'
    BY <1>1 DEF CancelBuffer, ClientTypeOK
  <2> QED
    BY <2>1, <2>2, <2>3, UnchangedStatus
<1>2. ASSUME NEW s \in SeqNumbers, FlushBuffer(p, s)
      PROVE  TypeOK'
  <2>1. ThreadTypeOK'
    BY <1>2, <1>g, <1>r DEF FlushBuffer, FlushPcs
  <2>2. UNCHANGED bufferVars /\ UNCHANGED <<statusVars, cleanVars, nextSequence>>
    BY <1>2 DEF FlushBuffer
  <2>3. ClientTypeOK'
    BY <1>2 DEF FlushBuffer, ClientTypeOK
  <2> QED
    BY <2>1, <2>2, <2>3, UnchangedBuffers, UnchangedStatus
<1>3. CASE FlushHasListener(p)
  <2>1. ThreadTypeOK'
    BY <1>3, <1>a, <1>g DEF FlushHasListener, FlushPcs
  <2> QED
    BY <1>3, <2>1, UnchangedNoBuffer DEF FlushHasListener
<1>4. CASE FlushCancels(p)
  <2>0. arg[p] \in SeqNumbers
    BY <1>4, <1>a DEF FlushCancels, FlushPcs
  <2>1. UNCHANGED <<statusVars, cleanVars, nextSequence>> /\ ThreadTypeOK'
    BY <1>4, <1>r DEF FlushCancels
  <2>2. CacheTypeOK' /\ ListTypeOK'
    BY <1>4, <2>0, CancelLockedType, UnchangedBuffers DEF FlushCancels
  <2>3. ClientTypeOK'
    BY <1>4, <2>0 DEF FlushCancels, ClientTypeOK, GiveToProducer
  <2> QED
    BY <2>1, <2>2, <2>3, UnchangedStatus
<1>5. CASE DoFlushGone(p)
  BY <1>5, <1>r, UnchangedNoBuffer DEF DoFlushGone
<1>6. CASE DoFlushDeletes(p)
  <2>0. arg[p] \in SeqNumbers
    BY <1>6, <1>a DEF DoFlushDeletes, FlushPcs
  <2>1. UNCHANGED <<statusVars, cleanVars, nextSequence>> /\ UNCHANGED clientVars
    BY <1>6 DEF DoFlushDeletes
  <2>2. ThreadTypeOK'
    BY <1>6, <2>0, <1>g DEF DoFlushDeletes, FlushPcs
  <2>3. MapOK(cache')
    BY <1>6, <1>m, EraseType DEF DoFlushDeletes
  <2>4. ListTypeOK'
    BY <1>6, <2>0 DEF DoFlushDeletes, ListTypeOK
  <2> QED
    BY <2>1, <2>2, <2>3, <2>4, UnchangedStatus, UnchangedClient DEF MapOK, CacheTypeOK
<1>7. CASE DoFlushBuffer(p)
  <2>0. arg[p] \in SeqNumbers
    BY <1>7, <1>a DEF DoFlushBuffer, FlushPcs
  <2>1. UNCHANGED <<statusVars, cleanVars, nextSequence>> /\ UNCHANGED clientVars
    BY <1>7 DEF DoFlushBuffer
  <2>2. ThreadTypeOK'
    BY <1>7, <2>0, <1>g, <1>r DEF DoFlushBuffer, FlushPcs
  <2>3. "FLUSHED" \in BufferStates
    BY DEF BufferStates
  <2>4. MapOK(cache')
    BY <1>7, <1>m, <2>3, SetStateType DEF DoFlushBuffer
  <2>5. ListTypeOK'
    BY <1>7, <2>0 DEF DoFlushBuffer, ListTypeOK
  <2> QED
    BY <2>1, <2>2, <2>4, <2>5, UnchangedStatus, UnchangedClient DEF MapOK, CacheTypeOK
<1>8. CASE FlushNotify(p)
  <2>1. UNCHANGED bufferVars /\ UNCHANGED <<statusVars, cleanVars, nextSequence>>
    BY <1>8 DEF FlushNotify
  <2>2. ClientTypeOK'
    BY <1>8 DEF FlushNotify, Announced, ClientTypeOK
  <2> QED
    BY <1>8, <1>r, <2>1, <2>2, UnchangedBuffers, UnchangedStatus DEF FlushNotify
<1> QED
  BY <1>1, <1>2, <1>3, <1>4, <1>5, <1>6, <1>7, <1>8 DEF FlushStep

LEMMA ConsumerType ==
    ASSUME TypeOK, NEW c \in Consumers, ConsumerCall(c) \/ ReleaseStep(c)
    PROVE  TypeOK'
<1> USE DEF TypeOK
<1>p. c \in Threads
  BY DEF Threads
<1>a. pc[c] \in ReleasePcs => arg[c] \in SeqNumbers
  BY <1>p DEF ThreadTypeOK, ArgOK
<1>m. MapOK(cache) /\ {"ACQUIRED", "RELEASED"} \subseteq BufferStates
  BY DEF CacheTypeOK, MapOK, BufferStates
<1>g. ASSUME NEW l \in ReleasePcs, NEW s \in SeqNumbers, Goto(c, l, s)
      PROVE  ThreadTypeOK'
  BY <1>g, <1>p, LabelArgs, GotoType
<1>r. Return(c) \/ NotifyAllAndReturn(c) => ThreadTypeOK'
  BY <1>p, ReturnType, NotifyReturnType
<1>1. CASE AcquireBuffer(c)
  <2>1. UNCHANGED <<statusVars, cleanVars, nextSequence>> /\ UNCHANGED producerHeld
    BY <1>1 DEF AcquireBuffer
  <2>2. ThreadTypeOK'
    BY <1>1 DEF AcquireBuffer, threadVars, ThreadTypeOK
  <2>3. notifications' \in Nat
    BY <1>1 DEF AcquireBuffer, ClientTypeOK
  <2>4. ASSUME NEW s \in SeqNumbers, AcquireLocked(s)
        PROVE  /\ CacheTypeOK' /\ consumerHeld' \subseteq SeqNumbers
               /\ UNCHANGED <<freeList, deletingList>>
    <3>1. MapOK(cache')
      BY <2>4, <1>m, SetStateType DEF AcquireLocked
    <3> QED
      BY <2>4, <3>1 DEF AcquireLocked, MapOK, CacheTypeOK, ClientTypeOK
  <2>5. CASE UNCHANGED dirtyList /\ \E s \in DOMAIN cache : AcquireLocked(s)
    BY <2>1, <2>2, <2>3, <2>4, <2>5, UnchangedStatus
       DEF CacheTypeOK, ListTypeOK, ClientTypeOK
  <2>6. CASE dirtyList # <<>> /\ AcquireLocked(Head(dirtyList)) /\ dirtyList' = Tail(dirtyList)
    <3>1. Head(dirtyList) \in SeqNumbers /\ dirtyList' \in Seq(SeqNumbers)
      BY <2>6 DEF ListTypeOK
    <3>2. AcquireLocked(Head(dirtyList))
      BY <2>6
    <3>3. /\ CacheTypeOK' /\ consumerHeld' \subseteq SeqNumbers
          /\ UNCHANGED <<freeList, deletingList>>
      BY <3>1, <3>2, <2>4
    <3> QED
      BY <2>1, <2>2, <2>3, <3>1, <3>3, UnchangedStatus DEF ListTypeOK, ClientTypeOK
  <2>7. CASE UNCHANGED <<bufferVars, consumerHeld>>
    BY <2>1, <2>2, <2>3, <2>7, UnchangedStatus, UnchangedBuffers DEF ClientTypeOK
  <2> QED
    BY <1>1, <2>5, <2>6, <2>7 DEF AcquireBuffer
<1>2. ASSUME NEW s \in SeqNumbers, ReleaseBuffer(c, s)
      PROVE  TypeOK'
  <2>1. ThreadTypeOK'
    BY <1>2, <1>g, <1>r DEF ReleaseBuffer, ReleasePcs
  <2>2. UNCHANGED bufferVars /\ UNCHANGED <<statusVars, cleanVars, nextSequence>>
    BY <1>2 DEF ReleaseBuffer
  <2>3. ClientTypeOK'
    BY <1>2 DEF ReleaseBuffer, ClientTypeOK
  <2> QED
    BY <2>1, <2>2, <2>3, UnchangedBuffers, UnchangedStatus
<1>3. CASE ReleaseCallback(c)
  <2>1. ThreadTypeOK'
    BY <1>3, <1>a, <1>g, <1>r DEF ReleaseCallback, ReleasePcs
  <2> QED
    BY <1>3, <2>1, UnchangedNoBuffer DEF ReleaseCallback
<1>4. CASE ReleaseGone(c)
  BY <1>4, <1>r, UnchangedNoBuffer DEF ReleaseGone
<1>5. CASE ReleaseLocked(c)
  <2>0. arg[c] \in SeqNumbers
    BY <1>5, <1>a DEF ReleaseLocked, ReleasePcs
  <2>1. /\ UNCHANGED <<statusVars, cleanVars, nextSequence>> /\ UNCHANGED clientVars
        /\ UNCHANGED dirtyList /\ ThreadTypeOK'
    BY <1>5, <1>r DEF ReleaseLocked
  <2>2. CASE cache[arg[c]].isDeleting
    <3>1. /\ cache' = Erase(cache, {arg[c]}) /\ UNCHANGED freeList
          /\ deletingList' = Append(deletingList, arg[c])
      BY <1>5, <2>2 DEF ReleaseLocked
    <3>2. MapOK(cache')
      BY <1>m, <3>1, EraseType
    <3>3. ListTypeOK'
      BY <2>0, <2>1, <3>1 DEF ListTypeOK
    <3>4. CacheTypeOK'
      BY <3>2 DEF MapOK, CacheTypeOK
    <3> QED
      BY <2>1, <3>3, <3>4, UnchangedStatus, UnchangedClient
  <2>3. CASE ~cache[arg[c]].isDeleting
    <3>1. /\ cache' = [cache EXCEPT ![arg[c]].state = "RELEASED"]
          /\ freeList' = Append(freeList, arg[c]) /\ UNCHANGED deletingList
      BY <1>5, <2>3 DEF ReleaseLocked
    <3>2. MapOK(cache')
      BY <1>m, <3>1, SetStateType
    <3>3. ListTypeOK'
      BY <2>0, <2>1, <3>1 DEF ListTypeOK
    <3>4. CacheTypeOK'
      BY <3>2 DEF MapOK, CacheTypeOK
    <3> QED
      BY <2>1, <3>3, <3>4, UnchangedStatus, UnchangedClient
  <2> QED
    BY <2>2, <2>3
<1> QED
  BY <1>1, <1>2, <1>3, <1>4, <1>5 DEF ConsumerCall, ReleaseStep

LEMMA HolderType ==
    ASSUME TypeOK, NEW t \in Producers \cup Consumers, HolderCall(t)
    PROVE  TypeOK'
<1> USE DEF TypeOK
<1>p. t \in Threads
  BY DEF Threads
<1>m. MapOK(cache) /\ "ATTACHED" \in BufferStates
  BY DEF CacheTypeOK, MapOK, BufferStates
<1>1. ASSUME NEW s \in SeqNumbers, NEW config \in Configs, AttachBuffer(t, s, config)
      PROVE  TypeOK'
  <2>1. MapOK(cache')
    BY <1>1, <1>m, PutType, NewElementType DEF AttachBuffer
  <2>2. /\ UNCHANGED <<freeList, dirtyList, deletingList>> /\ UNCHANGED statusVars
        /\ UNCHANGED cleanVars /\ UNCHANGED threadVars /\ UNCHANGED notifications
    BY <1>1 DEF AttachBuffer
  <2>3. nextSequence' \in 1..(MaxSequence + 1)
    BY <1>1, QueueAssumption DEF AttachBuffer, StatusTypeOK, SeqNumbers
  <2>4. ClientTypeOK'
    BY <1>1, <2>2 DEF AttachBuffer, GiveToProducer, ClientTypeOK
  <2>5. StatusTypeOK'
    BY <2>2, <2>3 DEF StatusTypeOK, statusVars, cleanVars
  <2>6. ThreadTypeOK' /\ ListTypeOK'
    BY <2>2 DEF ThreadTypeOK, threadVars, ListTypeOK
  <2> QED
    BY <2>1, <2>4, <2>5, <2>6 DEF MapOK, CacheTypeOK
<1>2. ASSUME NEW s \in SeqNumbers, AttachToFullQueue(t, s)
      PROVE  TypeOK'
  <2>1. UNCHANGED noBufferVars /\ (Goto(t, "attachRelock", s) \/ Return(t))
    BY <1>2 DEF AttachToFullQueue
  <2>2. ThreadTypeOK'
    BY <2>1, <1>p, GotoType, ReturnType, LabelArgs
  <2> QED
    BY <2>1, <2>2, UnchangedNoBuffer
<1>3. ASSUME NEW s \in SeqNumbers, DetachBuffer(t, s)
      PROVE  TypeOK'
  <2>1. MapOK(cache')
    BY <1>3, <1>m, EraseType DEF DetachBuffer
  <2>2. /\ UNCHANGED <<freeList, dirtyList, deletingList>> /\ UNCHANGED clientVars
        /\ UNCHANGED <<statusVars, cleanVars, nextSequence>> /\ UNCHANGED threadVars
    BY <1>3 DEF DetachBuffer
  <2>3. ThreadTypeOK' /\ ListTypeOK'
    BY <2>2 DEF ThreadTypeOK, threadVars, ListTypeOK
  <2> QED
    BY <2>1, <2>2, <2>3, UnchangedStatus, UnchangedClient DEF MapOK, CacheTypeOK
<1> QED
  BY <1>1, <1>2, <1>3 DEF HolderCall

LEMMA ClearLockedType ==
    ASSUME CacheTypeOK, ClearLocked
    PROVE  CacheTypeOK' /\ ListTypeOK'
BY DEF ClearLocked, Erase, CacheTypeOK, ListTypeOK

(* How many buffers DeleteBuffers takes from each list.                    *)
LEMMA LesserType ==
    ASSUME NEW i \in Nat, NEW j \in Nat
    PROVE  Lesser(i, j) \in 0..j /\ i - Lesser(i, j) \in Nat
BY DEF Lesser

LEMMA DeleteBuffersType ==
    ASSUME CacheTypeOK, ListTypeOK, NEW count \in Nat, DeleteBuffers(count)
    PROVE  CacheTypeOK' /\ ListTypeOK'
<1> DEFINE fromFree  == Lesser(count, Len(freeList))
           fromDirty == Lesser(count - fromFree, Len(dirtyList))
           dropped   == SubSeq(freeList, 1, fromFree) \o SubSeq(dirtyList, 1, fromDirty)
           toMark    == count - fromFree - fromDirty
<1>1. /\ freeList' = SubSeq(freeList, fromFree + 1, Len(freeList))
      /\ dirtyList' = SubSeq(dirtyList, fromDirty + 1, Len(dirtyList))
      /\ deletingList' = deletingList \o dropped
      /\ cache' = MarkFirst(Erase(cache, ToSet(dropped)), toMark)
  BY DEF DeleteBuffers
<1>n. Len(freeList) \in Nat /\ Len(dirtyList) \in Nat
  BY DEF ListTypeOK
<1>2. fromFree \in 0..Len(freeList) /\ count - fromFree \in Nat
  BY <1>n, LesserType
<1>3. fromDirty \in 0..Len(dirtyList)
  BY <1>n, <1>2, LesserType
<1> HIDE DEF fromFree, fromDirty
<1>4. /\ SubSeq(freeList, 1, fromFree) \in Seq(SeqNumbers)
      /\ SubSeq(freeList, fromFree + 1, Len(freeList)) \in Seq(SeqNumbers)
      /\ SubSeq(dirtyList, 1, fromDirty) \in Seq(SeqNumbers)
      /\ SubSeq(dirtyList, fromDirty + 1, Len(dirtyList)) \in Seq(SeqNumbers)
  BY <1>2, <1>3, DropFirstType DEF ListTypeOK
<1>d. dropped \in Seq(SeqNumbers)
  BY <1>4
<1> HIDE DEF dropped, toMark
<1>f. freeList' \in Seq(SeqNumbers) /\ dirtyList' \in Seq(SeqNumbers)
  BY <1>1, <1>4
<1>g. deletingList' \in Seq(SeqNumbers)
  BY <1>1, <1>d DEF ListTypeOK
<1>5. ListTypeOK'
  BY <1>f, <1>g DEF ListTypeOK
<1>6. MapOK(cache')
  BY <1>1, EraseType, MarkFirstType DEF MapOK, CacheTypeOK
<1> QED
  BY <1>5, <1>6 DEF MapOK, CacheTypeOK

LEMMA ManagerType ==
    ASSUME TypeOK, NEW m \in Threads, ManagerCall(m) \/ ManagerStep(m)
    PROVE  TypeOK'
<1> USE DEF TypeOK
<1>p. m \in Threads
  OBVIOUS
<1>r. Return(m) \/ NotifyAllAndReturn(m) => ThreadTypeOK'
  BY <1>p, ReturnType, NotifyReturnType
<1>1. ASSUME NEW size \in 1..MaxQueueSize, SetQueueSize(m, size)
      PROVE  TypeOK'
  <2>1. UNCHANGED <<statusVars, cleanVars, nextSequence>> /\ UNCHANGED clientVars
    BY <1>1 DEF SetQueueSize
  <2>2. Goto(m, "setSizeWrite", size)
    BY <1>1 DEF SetQueueSize
  <2>3. ThreadTypeOK'
    BY <2>2, <1>p, GotoType, LabelArgs
  <2>4. size < queueSize => queueSize - size \in Nat
    BY QueueAssumption DEF StatusTypeOK
  <2>5. CacheTypeOK' /\ ListTypeOK'
    BY <1>1, <2>4, DeleteBuffersType, UnchangedBuffers DEF SetQueueSize
  <2> QED
    BY <2>1, <2>3, <2>5, UnchangedStatus, UnchangedClient
<1>2. CASE SetQueueSizeWrite(m)
  <2>1. UNCHANGED bufferVars /\ UNCHANGED clientVars /\ ThreadTypeOK'
    BY <1>2, <1>r DEF SetQueueSizeWrite
  <2>2. arg[m] \in 1..MaxQueueSize
    BY <1>2, <1>p DEF SetQueueSizeWrite, ThreadTypeOK, ArgOK
  <2>3. StatusTypeOK'
    BY <1>2, <2>2 DEF SetQueueSizeWrite, StatusTypeOK, cleanVars
  <2> QED
    BY <2>1, <2>3, UnchangedBuffers, UnchangedClient
<1>3. CASE CleanCache(m)
  BY <1>3, <1>r, ClearLockedType, UnchangedStatus, UnchangedClient DEF CleanCache
<1>4. CASE GoBackground(m)
  <2>1. UNCHANGED clientVars /\ ThreadTypeOK' /\ CacheTypeOK' /\ ListTypeOK'
    BY <1>4, <1>r, ClearLockedType DEF GoBackground
  <2>2. StatusTypeOK'
    BY <1>4 DEF GoBackground, StatusTypeOK, statusVars
  <2> QED
    BY <2>1, <2>2, UnchangedClient
<1>5. CASE OnConsumerDied(m)
  <2>1. ThreadTypeOK'
    BY <1>5, <1>p, NotifyType, LabelArgs DEF OnConsumerDied
  <2> QED
    BY <1>5, <2>1, ClearLockedType, UnchangedStatus, UnchangedClient DEF OnConsumerDied
<1>6. CASE SetStatus(m)
  <2>1. UNCHANGED bufferVars /\ UNCHANGED clientVars /\ ThreadTypeOK'
    BY <1>6, <1>r DEF SetStatus
  <2>2. StatusTypeOK'
    BY <1>6 DEF SetStatus, StatusTypeOK, cleanVars
  <2> QED
    BY <2>1, <2>2, UnchangedBuffers, UnchangedClient
<1>7. ASSUME NEW on \in BOOLEAN, SetListener(m, on)
      PROVE  TypeOK'
  <2>1. UNCHANGED bufferVars /\ UNCHANGED clientVars /\ UNCHANGED threadVars
    BY <1>7 DEF SetListener
  <2>2. StatusTypeOK' /\ ThreadTypeOK'
    BY <1>7, <2>1 DEF SetListener, StatusTypeOK, ThreadTypeOK, cleanVars, threadVars
  <2> QED
    BY <2>1, <2>2, UnchangedBuffers, UnchangedClient
<1>8. CASE SetProducerCacheCleanFlag(m)
  <2>1. UNCHANGED bufferVars /\ UNCHANGED clientVars /\ UNCHANGED threadVars
    BY <1>8 DEF SetProducerCacheCleanFlag
  <2>2. StatusTypeOK' /\ ThreadTypeOK'
    BY <1>8, <2>1 DEF SetProducerCacheCleanFlag, StatusTypeOK, ThreadTypeOK, statusVars,
                      threadVars
  <2> QED
    BY <2>1, <2>2, UnchangedBuffers, UnchangedClient
<1> QED
  BY <1>1, <1>2, <1>3, <1>4, <1>5, <1>6, <1>7, <1>8 DEF ManagerCall, ManagerStep

LEMMA InitType == Init => TypeOK
<1> SUFFICES ASSUME Init PROVE TypeOK
  OBVIOUS
<1>1. ThreadTypeOK
  BY IdleArg DEF Init, ThreadTypeOK
<1>2. CacheTypeOK /\ ListTypeOK /\ ClientTypeOK
  BY DEF Init, CacheTypeOK, ListTypeOK, ClientTypeOK
<1>a. queueSize \in 1..MaxQueueSize
  <2>1. 1 \in 1..MaxQueueSize /\ DefaultQueueSize \in 1..MaxQueueSize
    BY QueueAssumption
  <2> QED
    BY <2>1 DEF Init
<1>b. nextSequence \in 1..(MaxSequence + 1)
  BY QueueAssumption DEF Init
<1>c. /\ isShared \in BOOLEAN /\ isValidStatus \in BOOLEAN /\ listener \in BOOLEAN
      /\ producerCacheClean \in BOOLEAN /\ producerCacheList \subseteq SeqNumbers
  BY QueueAssumption DEF Init
<1>3. StatusTypeOK
  BY <1>a, <1>b, <1>c DEF StatusTypeOK
<1> QED
  BY <1>1, <1>2, <1>3 DEF TypeOK

LEMMA StutterType == TypeOK /\ UNCHANGED vars => TypeOK'
BY DEF TypeOK, CacheTypeOK, ListTypeOK, StatusTypeOK, ThreadTypeOK, ClientTypeOK, vars,
       bufferVars, statusVars, cleanVars, threadVars, clientVars

LEMMA NextType == TypeOK /\ [Next]_vars => TypeOK'
<1> SUFFICES ASSUME TypeOK, [Next]_vars PROVE TypeOK'
  OBVIOUS
<1>1. ASSUME NEW p \in Producers,
             ProducerCall(p) \/ InCall(p) \/ WaitTimeout(p) \/ HolderCall(p)
      PROVE  TypeOK'
  BY <1>1, RequestType, FlushType, HolderType DEF ProducerCall, InCall
<1>2. ASSUME NEW c \in Consumers, ConsumerCall(c) \/ ReleaseStep(c) \/ HolderCall(c)
      PROVE  TypeOK'
  BY <1>2, ConsumerType, HolderType
<1>3. ASSUME NEW m \in Managers, ManagerCall(m) \/ ManagerStep(m)
      PROVE  TypeOK'
  BY <1>3, ManagerType DEF Threads
<1>4. CASE UNCHANGED vars
  BY <1>4, StutterType
<1> QED
  BY <1>1, <1>2, <1>3, <1>4 DEF Next

(* Every reachable state is well typed; in particular every thread's       *)
(* argument fits its place, and queueSize_ stays within 1 and              *)
(* SURFACE_MAX_QUEUE_SIZE.                                                 *)
THEOREM TypeCorrect == Spec => []TypeOK
<1>1. Init => TypeOK
  BY InitType
<1>2. TypeOK /\ [Next]_vars => TypeOK'
  BY NextType
<1> QED
  BY <1>1, <1>2, PTL DEF Spec

----------------------------------------------------------------------------
(* No sleeper beside a free buffer.  A step keeps this in one of three     *)
(* ways: it puts nobody to sleep and frees nothing; it leaves the free     *)
(* list empty; or it notifies while it has mutex_, when nobody is between  *)
(* the test of the predicate and the wait.                                 *)

Sleeping == {"waitEnter", "waiting"}
NobodyLiesDown == \A p \in Producers : pc'[p] \in Sleeping => pc[p] \in Sleeping
NothingFreed == freeList = <<>> => freeList' = <<>>

LEMMA QuietStep ==
    ASSUME NoSleepBesideFree, NobodyLiesDown, NothingFreed
    PROVE  NoSleepBesideFree'
BY DEF NoSleepBesideFree, NobodyLiesDown, NothingFreed, Sleeping

LEMMA EmptyStep ==
    ASSUME freeList' = <<>>
    PROVE  NoSleepBesideFree'
BY DEF NoSleepBesideFree

LEMMA NotifyStep ==
    ASSUME ThreadTypeOK, MutexFree, NEW t \in Threads, NEW label, label \notin Sleeping,
           NotifyAllAndGoto(t, label)
    PROVE  NoSleepBesideFree'
<1>1. ASSUME NEW p \in Producers
      PROVE  pc'[p] \notin Sleeping
  BY DEF NotifyAllAndGoto, MutexFree, Sleeping, Threads
<1> QED
  BY <1>1 DEF NoSleepBesideFree, Sleeping

LEMMA GotoAwake ==
    ASSUME ThreadTypeOK, NEW t \in Threads, NEW label, NEW a, Goto(t, label, a),
           label \notin Sleeping \/ pc[t] \in Sleeping
    PROVE  NobodyLiesDown
BY DEF Goto, NobodyLiesDown, ThreadTypeOK, Threads

LEMMA ReturnAwake ==
    ASSUME ThreadTypeOK, NEW t \in Threads, Return(t)
    PROVE  NobodyLiesDown
BY GotoAwake DEF Return, Sleeping

LEMMA NotifyAwake ==
    ASSUME ThreadTypeOK, NEW t \in Threads, NotifyAllAndReturn(t)
    PROVE  NobodyLiesDown
BY DEF NotifyAllAndReturn, NotifyAllAndGoto, NobodyLiesDown, Sleeping, Threads

LEMMA SameBuffersFreeNothing ==
    /\ UNCHANGED noBufferVars => NothingFreed
    /\ UNCHANGED bufferVars => NothingFreed
    /\ UNCHANGED freeList => NothingFreed
BY DEF noBufferVars, bufferVars, NothingFreed

LEMMA TakeBufferSleep ==
    ASSUME TypeOK, NoSleepBesideFree, NEW p \in Producers, TakeBuffer(p)
    PROVE  NoSleepBesideFree'
<1>1. NobodyLiesDown
  BY ReturnAwake DEF TakeBuffer, TypeOK, Threads
<1>2. NothingFreed
  <2>1. CASE UNCHANGED freeList
    BY <2>1 DEF NothingFreed
  <2>2. CASE \E i \in DOMAIN freeList : freeList' = RemoveAt(freeList, i)
    BY <2>2 DEF NothingFreed
  <2> QED
    BY <2>1, <2>2 DEF TakeBuffer, PopAndReuse, AllocBuffer
<1> QED
  BY <1>1, <1>2, QuietStep

LEMMA RequestSleep ==
    ASSUME TypeOK, NoSleepBesideFree, NEW p \in Producers,
           \/ \E config \in Configs : RequestBuffer(p, config)
           \/ CallRefused(p) \/ RequestStep(p) \/ WaitTimeout(p)
    PROVE  NoSleepBesideFree'
<1> USE SameBuffersFreeNothing DEF TypeOK
<1>p. p \in Threads
  BY DEF Threads
<1>g. ASSUME NEW label, NEW a, Goto(p, label, a), UNCHANGED noBufferVars,
             label \notin Sleeping \/ pc[p] \in Sleeping
      PROVE  NoSleepBesideFree'
  BY <1>g, <1>p, GotoAwake, QuietStep
<1>r. ASSUME Return(p), UNCHANGED noBufferVars
      PROVE  NoSleepBesideFree'
  BY <1>r, <1>p, ReturnAwake, QuietStep
<1>e. ASSUME freeList = <<>>, UNCHANGED noBufferVars
      PROVE  NoSleepBesideFree'
  BY <1>e, EmptyStep DEF noBufferVars, bufferVars
<1>1. ASSUME NEW config \in Configs, RequestBuffer(p, config)
      PROVE  NoSleepBesideFree'
  BY <1>1, <1>g DEF RequestBuffer, Sleeping
<1>2. CASE CallRefused(p)
  BY <1>2 DEF CallRefused, vars, bufferVars, threadVars, NoSleepBesideFree
<1>3. CASE RequestLocked(p) \/ RetryTakes(p)
  BY <1>3, TakeBufferSleep DEF RequestLocked, RetryTakes
<1>4. CASE RequestMustWait(p)
  BY <1>4, <1>e DEF RequestMustWait, Full, NothingFree
<1>5. CASE WaitBlock(p)
  BY <1>5, <1>g DEF WaitBlock, Sleeping
<1>6. CASE WaitTimeout(p)
  BY <1>6, <1>g DEF WaitTimeout, Sleeping
<1>7. CASE WaitAgain(p)
  BY <1>7, <1>e DEF WaitAgain, WaitPredicate
<1>8. CASE RetryFails(p)
  BY <1>8, <1>r DEF RetryFails
<1> QED
  BY <1>1, <1>2, <1>3, <1>4, <1>5, <1>6, <1>7, <1>8 DEF RequestStep

LEMMA FlushSleep ==
    ASSUME TypeOK, NoSleepBesideFree, NEW p \in Producers,
           \/ \E s \in SeqNumbers : CancelBuffer(p, s) \/ FlushBuffer(p, s)
           \/ FlushStep(p)
    PROVE  NoSleepBesideFree'
<1> USE SameBuffersFreeNothing DEF TypeOK
<1>p. p \in Threads
  BY DEF Threads
<1>g. ASSUME NEW label, NEW a, Goto(p, label, a), NothingFreed, label \notin Sleeping
      PROVE  NoSleepBesideFree'
  BY <1>g, <1>p, GotoAwake, QuietStep
<1>r. ASSUME Return(p), NothingFreed
      PROVE  NoSleepBesideFree'
  BY <1>r, <1>p, ReturnAwake, QuietStep
<1>n. ASSUME NotifyAllAndReturn(p), MutexFree
      PROVE  NoSleepBesideFree'
  BY <1>n, <1>p, NotifyStep DEF NotifyAllAndReturn, Sleeping
<1>1. ASSUME NEW s \in SeqNumbers, CancelBuffer(p, s)
      PROVE  NoSleepBesideFree'
  BY <1>1, <1>n DEF CancelBuffer
<1>2. ASSUME NEW s \in SeqNumbers, FlushBuffer(p, s)
      PROVE  NoSleepBesideFree'
  BY <1>2, <1>g, <1>r DEF FlushBuffer, Sleeping
<1>3. CASE FlushHasListener(p)
  BY <1>3, <1>g DEF FlushHasListener, Sleeping
<1>4. CASE FlushCancels(p)
  BY <1>4, <1>n, <1>r DEF FlushCancels
<1>5. CASE DoFlushGone(p)
  BY <1>5, <1>r DEF DoFlushGone
<1>6. CASE DoFlushDeletes(p)
  BY <1>6, <1>g DEF DoFlushDeletes, Sleeping
<1>7. CASE DoFlushBuffer(p)
  BY <1>7, <1>g, <1>r DEF DoFlushBuffer, Sleeping
<1>8. CASE FlushNotify(p)
  BY <1>8, <1>r DEF FlushNotify
<1> QED
  BY <1>1, <1>2, <1>3, <1>4, <1>5, <1>6, <1>7, <1>8 DEF FlushStep

LEMMA ConsumerSleep ==
    ASSUME TypeOK, NoSleepBesideFree, NEW c \in Consumers, ConsumerCall(c) \/ ReleaseStep(c)
    PROVE  NoSleepBesideFree'
<1> USE SameBuffersFreeNothing DEF TypeOK
<1>p. c \in Threads
  BY DEF Threads
<1>g. ASSUME NEW label, NEW a, Goto(c, label, a), NothingFreed, label \notin Sleeping
      PROVE  NoSleepBesideFree'
  BY <1>g, <1>p, GotoAwake, QuietStep
<1>r. ASSUME Return(c), NothingFreed
      PROVE  NoSleepBesideFree'
  BY <1>r, <1>p, ReturnAwake, QuietStep
<1>1. CASE AcquireBuffer(c)
  <2>1. UNCHANGED pc /\ UNCHANGED freeList
    BY <1>1 DEF AcquireBuffer, AcquireLocked, bufferVars, threadVars
  <2> QED
    BY <2>1 DEF NoSleepBesideFree
<1>2. ASSUME NEW s \in SeqNumbers, ReleaseBuffer(c, s)
      PROVE  NoSleepBesideFree'
  BY <1>2, <1>g, <1>r DEF ReleaseBuffer, Sleeping
<1>3. CASE ReleaseCallback(c)
  BY <1>3, <1>g, <1>r DEF ReleaseCallback, Sleeping
<1>4. CASE ReleaseGone(c)
  BY <1>4, <1>r DEF ReleaseGone
<1>5. CASE ReleaseLocked(c)
  BY <1>5, <1>p, NotifyStep DEF ReleaseLocked, NotifyAllAndReturn, Sleeping
<1> QED
  BY <1>1, <1>2, <1>3, <1>4, <1>5 DEF ConsumerCall, ReleaseStep

LEMMA HolderSleep ==
    ASSUME TypeOK, NoSleepBesideFree, NEW t \in Producers \cup Consumers, HolderCall(t)
    PROVE  NoSleepBesideFree'
<1> USE SameBuffersFreeNothing DEF TypeOK
<1>p. t \in Threads
  BY DEF Threads
<1>1. ASSUME NEW s \in SeqNumbers, NEW config \in Configs,
             AttachBuffer(t, s, config)
      PROVE  NoSleepBesideFree'
  BY <1>1 DEF AttachBuffer, threadVars, NoSleepBesideFree
<1>2. ASSUME NEW s \in SeqNumbers, DetachBuffer(t, s)
      PROVE  NoSleepBesideFree'
  BY <1>2 DEF DetachBuffer, threadVars, NoSleepBesideFree
<1>3. ASSUME NEW s \in SeqNumbers, AttachToFullQueue(t, s)
      PROVE  NoSleepBesideFree'
  <2>1. UNCHANGED noBufferVars /\ (Goto(t, "attachRelock", s) \/ Return(t))
    BY <1>3 DEF AttachToFullQueue
  <2>2. NobodyLiesDown
    BY <2>1, <1>p, GotoAwake, ReturnAwake DEF Sleeping
  <2> QED
    BY <2>1, <2>2, QuietStep
<1> QED
  BY <1>1, <1>2, <1>3 DEF HolderCall

LEMMA DeleteBuffersFreesNothing ==
    ASSUME ListTypeOK, NEW count \in Nat, DeleteBuffers(count)
    PROVE  NothingFreed
<1> DEFINE fromFree == Lesser(count, Len(freeList))
<1>1. freeList' = SubSeq(freeList, fromFree + 1, Len(freeList))
  BY DEF DeleteBuffers
<1>2. fromFree \in 0..Len(freeList)
  BY LesserType DEF ListTypeOK
<1> HIDE DEF fromFree
<1>3. ASSUME freeList = <<>>
      PROVE  freeList' = <<>>
  BY <1>1, <1>2, <1>3
<1> QED
  BY <1>3 DEF NothingFreed

LEMMA ManagerSleep ==
    ASSUME TypeOK, NoSleepBesideFree, NEW m \in Managers, ManagerCall(m) \/ ManagerStep(m)
    PROVE  NoSleepBesideFree'
<1> USE SameBuffersFreeNothing DEF TypeOK
<1>p. m \in Threads
  BY DEF Threads
<1>1. ASSUME NEW size \in 1..MaxQueueSize, SetQueueSize(m, size)
      PROVE  NoSleepBesideFree'
  <2>1. size < queueSize => queueSize - size \in Nat
    BY QueueAssumption DEF StatusTypeOK
  <2>2. NothingFreed
    BY <1>1, <2>1, DeleteBuffersFreesNothing DEF SetQueueSize
  <2>3. NobodyLiesDown
    BY <1>1, <1>p, GotoAwake DEF SetQueueSize, Sleeping
  <2> QED
    BY <2>2, <2>3, QuietStep
<1>2. CASE SetQueueSizeWrite(m)
  BY <1>2, <1>p, NotifyAwake, ReturnAwake, QuietStep DEF SetQueueSizeWrite
<1>3. CASE CleanCache(m) \/ GoBackground(m) \/ OnConsumerDied(m)
  BY <1>3, EmptyStep DEF CleanCache, GoBackground, OnConsumerDied, ClearLocked
<1>4. CASE SetStatus(m)
  BY <1>4, <1>p, NotifyAwake, QuietStep DEF SetStatus
<1>5. CASE (\E on \in BOOLEAN : SetListener(m, on)) \/ SetProducerCacheCleanFlag(m)
  BY <1>5 DEF SetListener, SetProducerCacheCleanFlag, bufferVars, threadVars, NoSleepBesideFree
<1> QED
  BY <1>1, <1>2, <1>3, <1>4, <1>5 DEF ManagerCall, ManagerStep

LEMMA NextSleep == TypeOK /\ NoSleepBesideFree /\ [Next]_vars => NoSleepBesideFree'
<1> SUFFICES ASSUME TypeOK, NoSleepBesideFree, [Next]_vars PROVE NoSleepBesideFree'
  OBVIOUS
<1>1. ASSUME NEW p \in Producers,
             ProducerCall(p) \/ InCall(p) \/ WaitTimeout(p) \/ HolderCall(p)
      PROVE  NoSleepBesideFree'
  BY <1>1, RequestSleep, FlushSleep, HolderSleep DEF ProducerCall, InCall
<1>2. ASSUME NEW c \in Consumers, ConsumerCall(c) \/ ReleaseStep(c) \/ HolderCall(c)
      PROVE  NoSleepBesideFree'
  BY <1>2, ConsumerSleep, HolderSleep
<1>3. ASSUME NEW m \in Managers, ManagerCall(m) \/ ManagerStep(m)
      PROVE  NoSleepBesideFree'
  BY <1>3, ManagerSleep
<1>4. CASE UNCHANGED vars
  BY <1>4 DEF vars, bufferVars, threadVars, NoSleepBesideFree
<1> QED
  BY <1>1, <1>2, <1>3, <1>4 DEF Next

(* No wake-up by CancelBuffer, ReleaseBuffer or a clear is lost: in every  *)
(* reachable state a producer sleeps only while the free list is empty,    *)
(* however many threads there are and however the queue is resized.        *)
THEOREM SleepCorrect == Spec => []NoSleepBesideFree
<1>1. Init => NoSleepBesideFree
  BY DEF Init, NoSleepBesideFree
<1>2. TypeOK /\ NoSleepBesideFree /\ [Next]_vars => NoSleepBesideFree'
  BY NextSleep
<1> QED
  BY TypeCorrect, <1>1, <1>2, PTL DEF Spec

----------------------------------------------------------------------------
(* No frame without its notification.                                      *)

LEMMA AnnouncingCount ==
    ASSUME IsFiniteSet(Producers)
    PROVE  Cardinality(Announcing) \in Nat /\ IsFiniteSet(Announcing)
BY FS_Subset, FS_CardinalityType DEF Announcing

(* A step outside of the moments after a flush.                            *)
LEMMA AnnouncingKept ==
    ASSUME ThreadTypeOK, NEW t \in Threads, pc[t] # "flushNotify",
           NEW label \in Labels \ {"flushNotify"}, NEW a,
           Goto(t, label, a) \/ NotifyAllAndGoto(t, label)
    PROVE  Announcing' = Announcing
<1>1. \A u \in Producers : u \in Threads
  BY DEF Threads
<1>2. \A u \in Threads : pc'[u] = "flushNotify" <=> pc[u] = "flushNotify"
  BY DEF Goto, NotifyAllAndGoto, ThreadTypeOK
<1> QED
  BY <1>1, <1>2 DEF Announcing

LEMMA AnnouncingReturn ==
    ASSUME ThreadTypeOK, NEW t \in Threads, pc[t] # "flushNotify",
           Return(t) \/ NotifyAllAndReturn(t)
    PROVE  Announcing' = Announcing
BY AnnouncingKept DEF Return, NotifyAllAndReturn, Labels

(* FlushBuffer has queued a frame and is about to announce it.             *)
LEMMA AnnouncingMore ==
    ASSUME ThreadTypeOK, IsFiniteSet(Producers), NEW p \in Producers, pc[p] = "doFlush",
           NEW a, Goto(p, "flushNotify", a)
    PROVE  Cardinality(Announcing') = Cardinality(Announcing) + 1
<1>1. \A u \in Producers : pc'[u] = IF u = p THEN "flushNotify" ELSE pc[u]
  BY DEF Goto, ThreadTypeOK, Threads
<1>2. Announcing' = Announcing \cup {p} /\ p \notin Announcing
  BY <1>1 DEF Announcing
<1> QED
  BY <1>2, AnnouncingCount, FS_AddElement

(* The announcement is made.                                               *)
LEMMA AnnouncingLess ==
    ASSUME ThreadTypeOK, IsFiniteSet(Producers), NEW p \in Producers, pc[p] = "flushNotify",
           Return(p)
    PROVE  Cardinality(Announcing') = Cardinality(Announcing) - 1
<1>1. \A u \in Producers : pc'[u] = IF u = p THEN "idle" ELSE pc[u]
  BY DEF Return, Goto, ThreadTypeOK, Threads
<1>2. Announcing' = Announcing \ {p} /\ p \in Announcing
  BY <1>1 DEF Announcing
<1> QED
  BY <1>2, AnnouncingCount, FS_RemoveElement

LEMMA QuietAnnounced ==
    ASSUME TypeOK, IsFiniteSet(Producers), EveryFrameAnnounced, UNCHANGED isShared,
           Announcing' = Announcing, UNCHANGED notifications,
           Len(dirtyList') \in 0..Len(dirtyList)
    PROVE  EveryFrameAnnounced'
<1>1. /\ Len(dirtyList) \in Nat /\ notifications \in Nat /\ Cardinality(Announcing) \in Nat
      /\ Cardinality(Announcing') = Cardinality(Announcing)
  BY AnnouncingCount DEF TypeOK, ListTypeOK, ClientTypeOK
<1> QED
  BY <1>1 DEF EveryFrameAnnounced

LEMMA ProducerAnnounced ==
    ASSUME TypeOK, IsFiniteSet(Producers), "FlushCache" \notin Failures, listener,
           EveryFrameAnnounced, NEW p \in Producers,
           ProducerCall(p) \/ InCall(p) \/ WaitTimeout(p)
    PROVE  EveryFrameAnnounced'
<1> USE DEF noBufferVars, bufferVars, statusVars, clientVars
<1>p. /\ p \in Threads /\ ThreadTypeOK
      /\ Len(dirtyList) \in Nat /\ notifications \in Nat /\ Cardinality(Announcing) \in Nat
  BY AnnouncingCount DEF Threads, TypeOK, ListTypeOK, ClientTypeOK
<1>g. ASSUME NEW label \in Labels \ {"flushNotify"}, NEW a,
             Goto(p, label, a) \/ NotifyAllAndGoto(p, label), pc[p] # "flushNotify"
      PROVE  Announcing' = Announcing
  BY <1>g, <1>p, AnnouncingKept
<1>r. (Return(p) \/ NotifyAllAndReturn(p)) /\ pc[p] # "flushNotify" => Announcing' = Announcing
  BY <1>p, AnnouncingReturn
<1>1. CASE \/ \E config \in Configs : RequestBuffer(p, config)
           \/ RequestStep(p) \/ WaitTimeout(p)
  <2>1. UNCHANGED <<dirtyList, isShared, notifications>>
    BY <1>1 DEF RequestBuffer, RequestStep, RequestLocked, RequestMustWait, WaitBlock, WaitAgain,
                RetryTakes, RetryFails, WaitTimeout, TakeBuffer
  <2>2. Announcing' = Announcing
    BY <1>1, <1>g, <1>r
       DEF RequestBuffer, RequestStep, RequestLocked, RequestMustWait, WaitBlock, WaitAgain,
           RetryTakes, RetryFails, WaitTimeout, TakeBuffer, WaitOver, Labels, RequestPcs, Idle
  <2> QED
    BY <1>p, <2>1, <2>2, QuietAnnounced
<1>2. CASE CallRefused(p)
  BY <1>2 DEF CallRefused, vars, threadVars, EveryFrameAnnounced, Announcing
<1>3. CASE \/ \E s \in SeqNumbers : CancelBuffer(p, s) \/ FlushBuffer(p, s)
           \/ FlushHasListener(p) \/ FlushCancels(p) \/ DoFlushGone(p)
  <2>1. UNCHANGED <<dirtyList, isShared, notifications>>
    BY <1>3 DEF CancelBuffer, CancelLocked, FlushBuffer, FlushHasListener, FlushCancels, DoFlushGone
  <2>2. Announcing' = Announcing
    BY <1>3, <1>g, <1>r
       DEF CancelBuffer, FlushBuffer, FlushHasListener, FlushCancels, DoFlushGone, Labels, FlushPcs,
           Idle
  <2> QED
    BY <1>p, <2>1, <2>2, QuietAnnounced
<1>4. CASE DoFlushDeletes(p) \/ DoFlushBuffer(p)
  <2>1. /\ UNCHANGED <<isShared, notifications>> /\ Goto(p, "flushNotify", arg[p])
        /\ pc[p] = "doFlush" /\ Len(dirtyList') <= Len(dirtyList) + 1
        /\ Len(dirtyList') \in Nat
    <3>1. dirtyList' = dirtyList \/ (dirtyList' = Append(dirtyList, arg[p]) /\ dirtyList \in Seq(SeqNumbers))
      BY <1>4 DEF DoFlushDeletes, DoFlushBuffer, TypeOK, ListTypeOK
    <3>2. Len(dirtyList') <= Len(dirtyList) + 1 /\ Len(dirtyList') \in Nat
      BY <1>p, <3>1
    <3> QED
      BY <1>4, <3>2 DEF DoFlushDeletes, DoFlushBuffer
  <2>2. Cardinality(Announcing') = Cardinality(Announcing) + 1
    BY <1>p, <2>1, AnnouncingMore
  <2> QED
    BY <1>p, <2>1, <2>2 DEF EveryFrameAnnounced
<1>5. CASE FlushNotify(p)
  <2>1. /\ UNCHANGED <<isShared, dirtyList>> /\ notifications' = notifications + 1
        /\ Return(p) /\ pc[p] = "flushNotify"
    BY <1>5 DEF FlushNotify, Announced
  <2>2. Cardinality(Announcing') = Cardinality(Announcing) - 1
    BY <1>p, <2>1, AnnouncingLess
  <2> QED
    BY <1>p, <2>1, <2>2 DEF EveryFrameAnnounced
<1> QED
  BY <1>1, <1>2, <1>3, <1>4, <1>5 DEF ProducerCall, InCall, FlushStep

LEMMA ConsumerAnnounced ==
    ASSUME TypeOK, IsFiniteSet(Producers), EveryFrameAnnounced, NEW c \in Consumers,
           ConsumerCall(c) \/ ReleaseStep(c)
    PROVE  EveryFrameAnnounced'
<1> USE DEF noBufferVars, bufferVars, statusVars, clientVars
<1>p. /\ c \in Threads /\ ThreadTypeOK /\ dirtyList \in Seq(SeqNumbers)
      /\ Len(dirtyList) \in Nat /\ notifications \in Nat /\ Cardinality(Announcing) \in Nat
  BY AnnouncingCount DEF Threads, TypeOK, ListTypeOK, ClientTypeOK
<1>g. ASSUME NEW label \in Labels \ {"flushNotify"}, NEW a, Goto(c, label, a),
             pc[c] # "flushNotify"
      PROVE  Announcing' = Announcing
  BY <1>g, <1>p, AnnouncingKept
<1>1. CASE AcquireBuffer(c)
  <2>1. /\ UNCHANGED isShared /\ Announcing' = Announcing
        /\ notifications > 0 /\ notifications' = notifications - 1
    BY <1>1 DEF AcquireBuffer, threadVars, Announcing
  <2>2. ~isShared => IF dirtyList = <<>> THEN dirtyList' = <<>> ELSE dirtyList' = Tail(dirtyList)
    BY <1>1 DEF AcquireBuffer, SharedHit
  <2>3. ~isShared => Len(dirtyList') <= notifications' + Cardinality(Announcing)
    <3>1. CASE ~isShared /\ dirtyList = <<>>
      BY <1>p, <2>1, <2>2, <3>1
    <3>2. CASE ~isShared /\ dirtyList # <<>>
      <4>1. Len(dirtyList') = Len(dirtyList) - 1
        BY <1>p, <2>2, <3>2
      <4> QED
        BY <1>p, <2>1, <3>2, <4>1 DEF EveryFrameAnnounced
    <3> QED
      BY <3>1, <3>2
  <2> QED
    BY <2>1, <2>3 DEF EveryFrameAnnounced
<1>2. CASE (\E s \in SeqNumbers : ReleaseBuffer(c, s)) \/ ReleaseStep(c)
  <2>1. UNCHANGED <<dirtyList, isShared, notifications>>
    BY <1>2 DEF ReleaseBuffer, ReleaseStep, ReleaseCallback, ReleaseGone, ReleaseLocked
  <2>2. Announcing' = Announcing
    BY <1>2, <1>p, <1>g, AnnouncingReturn
       DEF ReleaseBuffer, ReleaseStep, ReleaseCallback, ReleaseGone, ReleaseLocked, Labels,
           ReleasePcs, Idle
  <2> QED
    BY <1>p, <2>1, <2>2, QuietAnnounced
<1> QED
  BY <1>1, <1>2 DEF ConsumerCall

LEMMA OthersAnnounced ==
    ASSUME TypeOK, IsFiniteSet(Producers), EveryFrameAnnounced, NEW t \in Threads,
           HolderCall(t) \/ ManagerCall(t) \/ ManagerStep(t)
    PROVE  EveryFrameAnnounced'
<1> USE DEF noBufferVars, bufferVars, statusVars, clientVars
<1>p. ThreadTypeOK /\ dirtyList \in Seq(SeqNumbers) /\ Len(dirtyList) \in Nat
  BY DEF TypeOK, ListTypeOK
<1>g. ASSUME NEW label \in Labels \ {"flushNotify"}, NEW a,
             Goto(t, label, a) \/ NotifyAllAndGoto(t, label), pc[t] # "flushNotify"
      PROVE  Announcing' = Announcing
  BY <1>g, <1>p, AnnouncingKept
<1>1. CASE HolderCall(t)
  <2>1. UNCHANGED <<dirtyList, isShared, notifications>>
    BY <1>1 DEF HolderCall, AttachBuffer, AttachToFullQueue, DetachBuffer
  <2>2. Announcing' = Announcing
    <3>1. CASE UNCHANGED threadVars
      BY <3>1 DEF threadVars, Announcing
    <3>2. ASSUME NEW s \in SeqNumbers, AttachToFullQueue(t, s)
          PROVE  Announcing' = Announcing
      BY <3>2, <1>p, <1>g, AnnouncingReturn DEF AttachToFullQueue, Labels, Idle
    <3> QED
      BY <1>1, <3>1, <3>2 DEF HolderCall, AttachBuffer, DetachBuffer
  <2> QED
    BY <1>p, <2>1, <2>2, QuietAnnounced
<1>2. CASE ManagerCall(t) \/ ManagerStep(t)
  <2>1. UNCHANGED <<isShared, notifications>>
    BY <1>2 DEF ManagerCall, ManagerStep, SetQueueSize, SetQueueSizeWrite, CleanCache, GoBackground,
                OnConsumerDied, SetStatus, SetListener, SetProducerCacheCleanFlag
  <2>2. Len(dirtyList') \in 0..Len(dirtyList)
    <3>1. ASSUME NEW count \in Nat, DeleteBuffers(count)
          PROVE  Len(dirtyList') \in 0..Len(dirtyList)
      <4> DEFINE fromFree  == Lesser(count, Len(freeList))
                 fromDirty == Lesser(count - fromFree, Len(dirtyList))
      <4>1. dirtyList' = SubSeq(dirtyList, fromDirty + 1, Len(dirtyList))
        BY <3>1 DEF DeleteBuffers
      <4>n. Len(freeList) \in Nat
        BY DEF TypeOK, ListTypeOK
      <4>2. fromFree \in 0..Len(freeList) /\ count - fromFree \in Nat
        BY <3>1, <4>n, LesserType
      <4>3. fromDirty \in 0..Len(dirtyList)
        BY <1>p, <4>2, LesserType
      <4> HIDE DEF fromDirty
      <4> QED
        BY <1>p, <4>1, <4>3
    <3>2. ASSUME NEW size \in 1..MaxQueueSize, SetQueueSize(t, size)
          PROVE  Len(dirtyList') \in 0..Len(dirtyList)
      <4>1. size < queueSize => queueSize - size \in Nat
        BY QueueAssumption DEF TypeOK, StatusTypeOK
      <4> QED
        BY <1>p, <3>1, <3>2, <4>1 DEF SetQueueSize
    <3>3. CASE ClearLocked
      BY <1>p, <3>3 DEF ClearLocked
    <3>4. CASE UNCHANGED dirtyList
      BY <1>p, <3>4
    <3> QED
      BY <1>2, <3>2, <3>3, <3>4
         DEF ManagerCall, ManagerStep, SetQueueSizeWrite, CleanCache, GoBackground, OnConsumerDied,
             SetStatus, SetListener, SetProducerCacheCleanFlag
  <2>3. Announcing' = Announcing
    <3>1. CASE UNCHANGED threadVars
      BY <3>1 DEF threadVars, Announcing
    <3>2. CASE ~UNCHANGED threadVars
      BY <1>2, <3>2, <1>p, <1>g, AnnouncingReturn
         DEF ManagerCall, ManagerStep, SetQueueSize, SetQueueSizeWrite, CleanCache, GoBackground,
             OnConsumerDied, SetStatus, SetListener, SetProducerCacheCleanFlag, Labels, Idle
    <3> QED
      BY <3>1, <3>2
  <2> QED
    BY <2>1, <2>2, <2>3, QuietAnnounced
<1> QED
  BY <1>1, <1>2

LEMMA ListenerStays ==
    ASSUME "SetListener" \notin Calls, listener, [Next]_vars
    PROVE  listener'
<1> USE DEF statusVars, noBufferVars
<1>1. \A p \in Producers :
        ProducerCall(p) \/ InCall(p) \/ WaitTimeout(p) => UNCHANGED listener
  BY DEF ProducerCall, RequestBuffer, CallRefused, vars, CancelBuffer, FlushBuffer, InCall,
         RequestStep, RequestLocked, RequestMustWait, WaitBlock, WaitAgain, RetryTakes,
         RetryFails, TakeBuffer, FlushStep, FlushHasListener, FlushCancels, DoFlushGone,
         DoFlushDeletes, DoFlushBuffer, FlushNotify, WaitTimeout
<1>2. \A c \in Consumers : ConsumerCall(c) \/ ReleaseStep(c) => UNCHANGED listener
  BY DEF ConsumerCall, AcquireBuffer, ReleaseBuffer, ReleaseStep, ReleaseCallback, ReleaseGone,
         ReleaseLocked
<1>3. \A t \in Threads : HolderCall(t) => UNCHANGED listener
  BY DEF HolderCall, AttachBuffer, AttachToFullQueue, DetachBuffer
<1>4. \A m \in Managers : ManagerCall(m) \/ ManagerStep(m) => UNCHANGED listener
  BY DEF ManagerCall, ManagerStep, SetQueueSize, CleanCache, GoBackground, OnConsumerDied,
         SetListener, SetProducerCacheCleanFlag, SetQueueSizeWrite, SetStatus
<1> QED
  BY <1>1, <1>2, <1>3, <1>4 DEF Next, vars, Threads

(* While a consumer listens and FlushCache does not fail, every frame of   *)
(* the dirty list has been announced or is about to be: no frame waits for *)
(* a call of OnBufferAvailable that does not come, however many producers  *)
(* flush, whatever is deleted, resized or cleared meanwhile.               *)
THEOREM AnnouncedCorrect ==
    ASSUME IsFiniteSet(Producers), "SetListener" \notin Calls, "FlushCache" \notin Failures
    PROVE  Spec => []EveryFrameAnnounced
<1>1. Init => listener /\ EveryFrameAnnounced
  <2> SUFFICES ASSUME Init PROVE Len(dirtyList) <= notifications + Cardinality(Announcing)
    BY DEF Init, EveryFrameAnnounced
  <2> QED
    BY AnnouncingCount DEF Init
<1>2. TypeOK /\ listener /\ EveryFrameAnnounced /\ [Next]_vars => EveryFrameAnnounced'
  <2> SUFFICES ASSUME TypeOK, listener, EveryFrameAnnounced, [Next]_vars
               PROVE  EveryFrameAnnounced'
    OBVIOUS
  <2>1. CASE UNCHANGED vars
    BY <2>1 DEF vars, bufferVars, statusVars, threadVars, clientVars, EveryFrameAnnounced, Announcing
  <2> QED
    BY <2>1, ProducerAnnounced, ConsumerAnnounced, OthersAnnounced DEF Next, Threads
<1>3. listener /\ [Next]_vars => listener'
  BY ListenerStays
<1> QED
  BY TypeCorrect, <1>1, <1>2, <1>3, PTL DEF Spec

----------------------------------------------------------------------------
(* Lists: what is in them, and that nothing is in them twice.              *)

LEMMA InjectiveMeans ==
    ASSUME NEW S, NEW list \in Seq(S)
    PROVE  IsInjective(list) <=> \A i, j \in 1..Len(list) : list[i] = list[j] => i = j
BY DEF IsInjective

LEMMA ToSetMeans ==
    ASSUME NEW S, NEW list \in Seq(S), NEW x
    PROVE  x \in ToSet(list) <=> \E i \in 1..Len(list) : list[i] = x
BY DEF ToSet

LEMMA AppendSet ==
    ASSUME NEW S, NEW list \in Seq(S), NEW x \in S
    PROVE  ToSet(Append(list, x)) = ToSet(list) \cup {x}
<1> DEFINE longer == Append(list, x)
<1>1. /\ longer \in Seq(S) /\ Len(longer) = Len(list) + 1
      /\ \A i \in 1..Len(list) : longer[i] = list[i]
      /\ longer[Len(list) + 1] = x
  OBVIOUS
<1> HIDE DEF longer
<1>2. ASSUME NEW y
      PROVE  y \in ToSet(longer) <=> y \in ToSet(list) \/ y = x
  <2>1. ASSUME NEW i \in 1..Len(longer), longer[i] = y
        PROVE  y \in ToSet(list) \/ y = x
    BY <1>1, <2>1, ToSetMeans
  <2>2. ASSUME NEW i \in 1..Len(list), list[i] = y
        PROVE  y \in ToSet(longer)
    <3>1. i \in 1..Len(longer) /\ longer[i] = y
      BY <1>1, <2>2
    <3> QED
      BY <1>1, <3>1, ToSetMeans
  <2>3. Len(list) + 1 \in 1..Len(longer)
    BY <1>1
  <2> QED
    BY <1>1, <2>1, <2>2, <2>3, ToSetMeans
<1> QED
  BY <1>2 DEF longer

LEMMA AppendKeepsOnce ==
    ASSUME NEW S, NEW list \in Seq(S), IsInjective(list), NEW x \in S, x \notin ToSet(list)
    PROVE  IsInjective(Append(list, x))
<1> DEFINE longer == Append(list, x)
<1>1. /\ longer \in Seq(S) /\ Len(longer) = Len(list) + 1
      /\ \A i \in 1..Len(list) : longer[i] = list[i] /\ list[i] # x
      /\ longer[Len(list) + 1] = x
  BY ToSetMeans
<1> HIDE DEF longer
<1>2. ASSUME NEW i \in 1..Len(longer), NEW j \in 1..Len(longer), longer[i] = longer[j]
      PROVE  i = j
  BY <1>1, <1>2, InjectiveMeans
<1>3. IsInjective(longer)
  BY <1>1, <1>2, InjectiveMeans
<1> QED
  BY <1>3 DEF longer

LEMMA SplitSet ==
    ASSUME NEW S, NEW list \in Seq(S), NEW n \in 0..Len(list)
    PROVE  ToSet(list) = ToSet(SubSeq(list, 1, n)) \cup ToSet(SubSeq(list, n + 1, Len(list)))
<1> DEFINE front == SubSeq(list, 1, n)
           back  == SubSeq(list, n + 1, Len(list))
<1>1. /\ front \in Seq(S) /\ Len(front) = n
      /\ \A i \in 1..n : front[i] = list[i]
      /\ back \in Seq(S) /\ Len(back) = Len(list) - n
      /\ \A i \in 1..(Len(list) - n) : back[i] = list[i + n]
  OBVIOUS
<1> HIDE DEF front, back
<1>2. ASSUME NEW x
      PROVE  x \in ToSet(list) <=> x \in ToSet(front) \/ x \in ToSet(back)
  <2>1. ASSUME NEW i \in 1..Len(list), list[i] = x, i > n
        PROVE  x \in ToSet(back)
    <3>1. i - n \in 1..Len(back) /\ back[i - n] = x
      BY <1>1, <2>1
    <3> QED
      BY <1>1, <3>1, ToSetMeans
  <2>2. ASSUME NEW i \in 1..Len(back), back[i] = x
        PROVE  x \in ToSet(list)
    <3>1. i + n \in 1..Len(list) /\ list[i + n] = x
      BY <1>1, <2>2
    <3> QED
      BY <3>1, ToSetMeans
  <2>3. ASSUME NEW i \in 1..Len(list), list[i] = x, i <= n
        PROVE  x \in ToSet(front)
    BY <1>1, <2>3, ToSetMeans
  <2>4. ASSUME NEW i \in 1..Len(front), front[i] = x
        PROVE  x \in ToSet(list)
    BY <1>1, <2>4, ToSetMeans
  <2> QED
    BY <1>1, <2>1, <2>2, <2>3, <2>4, ToSetMeans
<1> QED
  BY <1>2 DEF front, back

LEMMA SplitInjective ==
    ASSUME NEW S, NEW list \in Seq(S), IsInjective(list), NEW n \in 0..Len(list)
    PROVE  /\ IsInjective(SubSeq(list, n + 1, Len(list)))
           /\ ToSet(SubSeq(list, 1, n)) \cap ToSet(SubSeq(list, n + 1, Len(list))) = {}
<1> DEFINE front == SubSeq(list, 1, n)
           back  == SubSeq(list, n + 1, Len(list))
<1>1. /\ front \in Seq(S) /\ Len(front) = n
      /\ \A i \in 1..n : front[i] = list[i]
      /\ back \in Seq(S) /\ Len(back) = Len(list) - n
      /\ \A i \in 1..(Len(list) - n) : back[i] = list[i + n]
  OBVIOUS
<1> HIDE DEF front, back
<1>2. ASSUME NEW i \in 1..Len(back), NEW j \in 1..Len(back), back[i] = back[j]
      PROVE  i = j
  <2>1. i + n \in 1..Len(list) /\ j + n \in 1..Len(list) /\ list[i + n] = list[j + n]
    BY <1>1, <1>2
  <2> QED
    BY <2>1, InjectiveMeans
<1>3. ASSUME NEW x, x \in ToSet(front), x \in ToSet(back)
      PROVE  FALSE
  <2>1. PICK i \in 1..n : front[i] = x
    BY <1>1, <1>3, ToSetMeans
  <2>2. PICK j \in 1..Len(back) : back[j] = x
    BY <1>1, <1>3, ToSetMeans
  <2>3. i \in 1..Len(list) /\ j + n \in 1..Len(list) /\ list[i] = list[j + n] /\ i # j + n
    BY <1>1, <2>1, <2>2
  <2> QED
    BY <2>3, InjectiveMeans
<1> QED
  BY <1>1, <1>2, <1>3, InjectiveMeans DEF front, back

LEMMA RemoveAtSet ==
    ASSUME NEW S, NEW list \in Seq(S), IsInjective(list), NEW i \in 1..Len(list)
    PROVE  /\ IsInjective(RemoveAt(list, i))
           /\ ToSet(RemoveAt(list, i)) = ToSet(list) \ {list[i]}
<1> DEFINE rest == RemoveAt(list, i)
<1>1. /\ rest \in Seq(S) /\ Len(rest) = Len(list) - 1
      /\ \A j \in 1..Len(rest) : rest[j] = IF j < i THEN list[j] ELSE list[j + 1]
  <2> DEFINE front == SubSeq(list, 1, i - 1)
             back  == SubSeq(list, i + 1, Len(list))
  <2>1. /\ front \in Seq(S) /\ Len(front) = i - 1
        /\ \A j \in 1..(i - 1) : front[j] = list[j]
        /\ back \in Seq(S) /\ Len(back) = Len(list) - i
        /\ \A j \in 1..(Len(list) - i) : back[j] = list[j + i]
    OBVIOUS
  <2> HIDE DEF front, back
  <2>2. /\ front \o back \in Seq(S) /\ Len(front \o back) = Len(list) - 1
        /\ \A j \in 1..(Len(list) - 1) :
              (front \o back)[j] = IF j < i THEN front[j] ELSE back[j - i + 1]
    BY <2>1
  <2>3. \A j \in 1..(Len(list) - 1) :
              (front \o back)[j] = IF j < i THEN list[j] ELSE list[j + 1]
    BY <2>1, <2>2
  <2>4. rest = front \o back
    BY DEF RemoveAt, front, back
  <2> QED
    BY <2>2, <2>3, <2>4
<1> HIDE DEF rest
<1>p. Len(list) \in Nat /\ \A j, k \in 1..Len(list) : list[j] = list[k] => j = k
  BY InjectiveMeans
<1>2. ASSUME NEW j \in 1..Len(rest), NEW k \in 1..Len(rest), rest[j] = rest[k]
      PROVE  j = k
  <2> DEFINE in(n) == IF n < i THEN n ELSE n + 1
  <2>1. in(j) \in 1..Len(list) /\ in(k) \in 1..Len(list) /\ list[in(j)] = list[in(k)]
    BY <1>1, <1>2
  <2>2. in(j) = in(k)
    BY <2>1, <1>p
  <2> QED
    BY <2>2
<1>3. ASSUME NEW x
      PROVE  x \in ToSet(rest) <=> x \in ToSet(list) /\ x # list[i]
  <2>1. ASSUME NEW j \in 1..Len(rest), rest[j] = x
        PROVE  x \in ToSet(list) /\ x # list[i]
    <3> DEFINE in == IF j < i THEN j ELSE j + 1
    <3>1. in \in 1..Len(list) /\ list[in] = x /\ in # i
      BY <1>1, <1>p, <2>1
    <3> QED
      BY <3>1, <1>p, ToSetMeans
  <2>2. ASSUME NEW j \in 1..Len(list), list[j] = x, x # list[i]
        PROVE  x \in ToSet(rest)
    <3>1. CASE j < i
      BY <1>1, <2>2, <3>1, ToSetMeans
    <3>2. CASE j > i
      <4>1. j - 1 \in 1..Len(rest) /\ rest[j - 1] = x
        BY <1>1, <2>2, <3>2
      <4> QED
        BY <1>1, <4>1, ToSetMeans
    <3> QED
      BY <2>2, <3>1, <3>2
  <2> QED
    BY <1>1, <2>1, <2>2, ToSetMeans
<1> QED
  <2>1. IsInjective(rest)
    BY <1>1, <1>2, InjectiveMeans
  <2> QED
    BY <2>1, <1>3 DEF rest

LEMMA TailSet ==
    ASSUME NEW S, NEW list \in Seq(S), IsInjective(list), list # <<>>
    PROVE  /\ Head(list) \in ToSet(list) /\ IsInjective(Tail(list))
           /\ ToSet(Tail(list)) = ToSet(list) \ {Head(list)}
<1>1. /\ Tail(list) \in Seq(S) /\ Len(Tail(list)) = Len(list) - 1 /\ Len(list) > 0
      /\ \A j \in 1..Len(Tail(list)) : Tail(list)[j] = list[j + 1]
      /\ Head(list) = list[1]
  OBVIOUS
<1>2. ASSUME NEW j \in 1..Len(Tail(list)), NEW k \in 1..Len(Tail(list)),
             Tail(list)[j] = Tail(list)[k]
      PROVE  j = k
  BY <1>1, <1>2, InjectiveMeans
<1>3. ASSUME NEW x
      PROVE  x \in ToSet(Tail(list)) <=> x \in ToSet(list) /\ x # Head(list)
  <2>1. ASSUME NEW j \in 1..Len(Tail(list)), Tail(list)[j] = x
        PROVE  x \in ToSet(list) /\ x # Head(list)
    BY <1>1, <2>1, InjectiveMeans, ToSetMeans
  <2>2. ASSUME NEW j \in 1..Len(list), list[j] = x, x # Head(list)
        PROVE  x \in ToSet(Tail(list))
    <3>1. j - 1 \in 1..Len(Tail(list)) /\ Tail(list)[j - 1] = x
      BY <1>1, <2>2
    <3> QED
      BY <1>1, <3>1, ToSetMeans
  <2>3. x \in ToSet(Tail(list)) <=> \E j \in 1..Len(Tail(list)) : Tail(list)[j] = x
    BY <1>1, ToSetMeans
  <2>4. x \in ToSet(list) <=> \E j \in 1..Len(list) : list[j] = x
    BY ToSetMeans
  <2> QED
    BY <2>1, <2>2, <2>3, <2>4
<1>4. IsInjective(Tail(list))
  BY <1>1, <1>2, InjectiveMeans
<1>5. Head(list) \in ToSet(list)
  BY <1>1, ToSetMeans
<1> QED
  BY <1>3, <1>4, <1>5

LEMMA ConcatSet ==
    ASSUME NEW S, NEW front \in Seq(S), NEW back \in Seq(S)
    PROVE  ToSet(front \o back) = ToSet(front) \cup ToSet(back)
<1> DEFINE both == front \o back
<1>1. /\ both \in Seq(S) /\ Len(both) = Len(front) + Len(back)
      /\ \A i \in 1..Len(front) : both[i] = front[i]
      /\ \A i \in 1..Len(back) : both[i + Len(front)] = back[i]
      /\ \A i \in 1..Len(both) : i > Len(front) => both[i] = back[i - Len(front)]
  OBVIOUS
<1> HIDE DEF both
<1>2. ASSUME NEW x
      PROVE  x \in ToSet(both) <=> x \in ToSet(front) \/ x \in ToSet(back)
  <2>1. ASSUME NEW i \in 1..Len(both), both[i] = x, i > Len(front)
        PROVE  x \in ToSet(back)
    <3>1. i - Len(front) \in 1..Len(back) /\ back[i - Len(front)] = x
      BY <1>1, <2>1
    <3> QED
      BY <3>1, ToSetMeans
  <2>2. ASSUME NEW i \in 1..Len(both), both[i] = x, i <= Len(front)
        PROVE  x \in ToSet(front)
    BY <1>1, <2>2, ToSetMeans
  <2>3. ASSUME NEW i \in 1..Len(front), front[i] = x
        PROVE  x \in ToSet(both)
    BY <1>1, <2>3, ToSetMeans
  <2>4. ASSUME NEW i \in 1..Len(back), back[i] = x
        PROVE  x \in ToSet(both)
    <3>1. i + Len(front) \in 1..Len(both) /\ both[i + Len(front)] = x
      BY <1>1, <2>4
    <3> QED
      BY <1>1, <3>1, ToSetMeans
  <2>5. x \in ToSet(both) <=> \E i \in 1..Len(both) : both[i] = x
    BY <1>1, ToSetMeans
  <2>6. /\ x \in ToSet(front) <=> \E i \in 1..Len(front) : front[i] = x
        /\ x \in ToSet(back) <=> \E i \in 1..Len(back) : back[i] = x
    BY ToSetMeans
  <2>7. \A i \in 1..Len(both) : i > Len(front) \/ i <= Len(front)
    BY <1>1
  <2> QED
    BY <2>1, <2>2, <2>3, <2>4, <2>5, <2>6, <2>7
<1> QED
  BY <1>2 DEF both

----------------------------------------------------------------------------
(* The ledger.                                                             *)

status == [s \in SeqNumbers |-> IF s \in DOMAIN cache THEN cache[s].state ELSE "outside"]
flushing == [t \in Threads |-> IF pc[t] \in FlushingPcs THEN {arg[t]} ELSE {}]
releasing == [t \in Threads |-> IF pc[t] \in ReleasePcs THEN {arg[t]} ELSE {}]

ProducerStates == {"outside", "REQUESTED", "ATTACHED"}
ConsumerStates == {"outside", "ACQUIRED", "ATTACHED"}

(* Each list has the buffers of its state, each once.                      *)
ListsOK ==
    /\ IsInjective(freeList) /\ IsInjective(dirtyList)
    /\ \A s \in SeqNumbers :
         /\ s \in ToSet(freeList) <=> status[s] = "RELEASED"
         /\ s \in ToSet(dirtyList) <=> status[s] = "FLUSHED"

(* A buffer has at most one holder, whether he holds it or is returning    *)
(* it, and is in a state that lets him return it.                          *)
HandsOK ==
    /\ \A s \in producerHeld : status[s] \in ProducerStates /\ s \notin consumerHeld
    /\ \A s \in consumerHeld : status[s] \in ConsumerStates
    /\ \A t \in Threads : \A s \in flushing[t] :
         status[s] \in ProducerStates /\ s \notin producerHeld /\ s \notin consumerHeld
    /\ \A t \in Threads : \A s \in releasing[t] :
         status[s] \in ConsumerStates /\ s \notin producerHeld /\ s \notin consumerHeld
    /\ \A t, u \in Threads :
         \A s \in flushing[t] \cup releasing[t] :
            s \in flushing[u] \cup releasing[u] => t = u

(* Nobody knows of a sequence number that was not given out.               *)
FreshOK ==
    \A s \in SeqNumbers : s >= nextSequence =>
        /\ status[s] = "outside" /\ s \notin producerHeld /\ s \notin consumerHeld
        /\ \A t \in Threads : s \notin flushing[t] /\ s \notin releasing[t]

(* A buffer on no list has a holder, unless onBufferRelease may answer     *)
(* GSERROR_OK.                                                             *)
SlotsOK ==
    "ok" \notin ReleaseResults => \A s \in SeqNumbers :
        /\ status[s] = "REQUESTED" => s \in producerHeld \/ \E t \in Threads : s \in flushing[t]
        /\ status[s] = "ACQUIRED" => s \in consumerHeld \/ \E t \in Threads : s \in releasing[t]
        /\ status[s] = "ATTACHED" =>
              \/ s \in producerHeld \/ s \in consumerHeld
              \/ \E t \in Threads : s \in flushing[t] \/ s \in releasing[t]

Owned == ListsOK /\ HandsOK /\ FreshOK /\ SlotsOK

(* Only of ordinary queues: a shared queue's buffer is everybody's.        *)
OwnershipInv == ~isShared => Owned

----------------------------------------------------------------------------
(* What the operators on the buffer map and on threads do to the ledger.   *)

LEMMA LedgerType ==
    ASSUME TypeOK
    PROVE  /\ status \in [SeqNumbers -> BufferStates \cup {"outside"}]
           /\ flushing \in [Threads -> SUBSET SeqNumbers]
           /\ releasing \in [Threads -> SUBSET SeqNumbers]
           /\ \A s \in SeqNumbers : s \in DOMAIN cache <=> status[s] # "outside"
           /\ \A s \in DOMAIN cache : s \in SeqNumbers /\ status[s] = cache[s].state
           /\ producerHeld \subseteq SeqNumbers /\ consumerHeld \subseteq SeqNumbers
           /\ nextSequence \in Nat /\ SeqNumbers \subseteq Nat
<1>0. /\ producerHeld \subseteq SeqNumbers /\ consumerHeld \subseteq SeqNumbers
      /\ nextSequence \in Nat /\ SeqNumbers \subseteq Nat
  BY DEF TypeOK, ClientTypeOK, StatusTypeOK, SeqNumbers
<1>1. \A s \in DOMAIN cache : s \in SeqNumbers /\ cache[s].state \in BufferStates
  BY DEF TypeOK, CacheTypeOK, BufferElement
<1>2. \A t \in Threads : pc[t] \in FlushingPcs \cup ReleasePcs => arg[t] \in SeqNumbers
  BY DEF TypeOK, ThreadTypeOK, ArgOK, FlushingPcs, FlushPcs
<1> QED
  BY <1>0, <1>1, <1>2 DEF status, flushing, releasing, BufferStates

LEMMA StateSetEffect ==
    ASSUME TypeOK, NEW s \in DOMAIN cache, NEW state \in BufferStates,
           cache' = [cache EXCEPT ![s].state = state]
    PROVE  status' = [status EXCEPT ![s] = state]
<1>1. DOMAIN cache' = DOMAIN cache
  OBVIOUS
<1>2. \A x \in DOMAIN cache : cache'[x].state = IF x = s THEN state ELSE cache[x].state
  BY DEF TypeOK, CacheTypeOK, BufferElement
<1>3. \A x \in SeqNumbers : status'[x] = IF x = s THEN state ELSE status[x]
  BY <1>1, <1>2 DEF status
<1> QED
  BY <1>3 DEF status

LEMMA EraseEffect ==
    ASSUME NEW gone, cache' = Erase(cache, gone)
    PROVE  status' = [x \in SeqNumbers |-> IF x \in gone THEN "outside" ELSE status[x]]
<1>1. \A x \in SeqNumbers : status'[x] = IF x \in gone THEN "outside" ELSE status[x]
  BY DEF status, Erase
<1> QED
  BY <1>1 DEF status

LEMMA PutEffect ==
    ASSUME NEW s \in SeqNumbers, NEW state, NEW config,
           cache' = Put(cache, s, NewElement(state, config))
    PROVE  status' = [status EXCEPT ![s] = state]
<1>1. \A x \in SeqNumbers : status'[x] = IF x = s THEN state ELSE status[x]
  BY DEF status, Put, NewElement
<1> QED
  BY <1>1 DEF status

LEMMA ReplaceEffect ==
    ASSUME NEW old \in SeqNumbers, NEW s \in SeqNumbers, s # old, NEW state, NEW config,
           cache' = Put(Erase(cache, {old}), s, NewElement(state, config))
    PROVE  status' = [status EXCEPT ![old] = "outside", ![s] = state]
<1>1. \A x \in SeqNumbers :
        status'[x] = IF x = s THEN state ELSE IF x = old THEN "outside" ELSE status[x]
  BY DEF status, Put, Erase, NewElement
<1> QED
  BY <1>1 DEF status

LEMMA MarkEffect ==
    ASSUME TypeOK, NEW gone, NEW n, cache' = MarkFirst(Erase(cache, gone), n)
    PROVE  status' = [x \in SeqNumbers |-> IF x \in gone THEN "outside" ELSE status[x]]
<1> DEFINE kept == Erase(cache, gone)
           marked == MarkFirst(kept, n)
<1>1. DOMAIN marked = DOMAIN kept
  BY DEF MarkFirst
<1>2. MapOK(kept)
  BY EraseType DEF TypeOK, CacheTypeOK, MapOK
<1>3. ASSUME NEW x \in DOMAIN kept
      PROVE  marked[x].state = kept[x].state
  <2> DEFINE F == FirstEntries(kept, n)
  <2>1. marked[x] = [kept[x] EXCEPT !.isDeleting = kept[x].isDeleting \/ x \in F]
    BY <1>1 DEF MarkFirst
  <2>2. kept[x] \in BufferElement
    BY <1>2 DEF MapOK
  <2> HIDE DEF kept, F, marked
  <2> QED
    BY <2>1, <2>2 DEF BufferElement
<1>4. DOMAIN kept = DOMAIN cache \ gone /\ \A x \in DOMAIN kept : kept[x] = cache[x]
  BY DEF Erase
<1> HIDE DEF kept, marked
<1>5. cache' = marked
  BY DEF kept, marked
<1>6. \A x \in SeqNumbers : status'[x] = IF x \in gone THEN "outside" ELSE status[x]
  BY <1>1, <1>3, <1>4, <1>5 DEF status
<1> QED
  BY <1>6 DEF status

LEMMA HandsGoto ==
    ASSUME ThreadTypeOK, NEW t \in Threads, NEW label, NEW a, Goto(t, label, a)
    PROVE  /\ flushing' = [flushing EXCEPT ![t] = IF label \in FlushingPcs THEN {a} ELSE {}]
           /\ releasing' = [releasing EXCEPT ![t] = IF label \in ReleasePcs THEN {a} ELSE {}]
<1>1. \A u \in Threads : /\ pc'[u] = IF u = t THEN label ELSE pc[u]
                         /\ arg'[u] = IF u = t THEN a ELSE arg[u]
  BY DEF Goto, ThreadTypeOK
<1> QED
  BY <1>1 DEF flushing, releasing

Awake == {"idle", "setStatus", "flushNotify", "setSizeWrite", "attachRelock"} \cup RequestPcs
LEMMA AwakeLabels == Awake \cap (FlushingPcs \cup ReleasePcs) = {}
BY DEF Awake, FlushingPcs, ReleasePcs, RequestPcs

(* A thread goes on outside of flush and release.                          *)
LEMMA HandsLeave ==
    ASSUME ThreadTypeOK, NEW t \in Threads, NEW label \in Awake, NEW a,
           Goto(t, label, a) \/ NotifyAllAndGoto(t, label)
    PROVE  /\ flushing' = [flushing EXCEPT ![t] = {}]
           /\ releasing' = [releasing EXCEPT ![t] = {}]
<1>1. CASE Goto(t, label, a)
  BY <1>1, HandsGoto, AwakeLabels
<1>2. CASE NotifyAllAndGoto(t, label)
  <2>1. \A u \in Threads :
          pc'[u] = IF u = t THEN label ELSE IF pc[u] = "waiting" THEN "woken" ELSE pc[u]
    BY <1>2 DEF NotifyAllAndGoto
  <2>2. \A u \in Threads : u # t => arg'[u] = arg[u]
    BY <1>2 DEF NotifyAllAndGoto, ThreadTypeOK
  <2>3. {"waiting", "woken"} \subseteq Awake
    BY DEF Awake, RequestPcs
  <2> QED
    BY <2>1, <2>2, <2>3, AwakeLabels DEF flushing, releasing
<1> QED
  BY <1>1, <1>2

LEMMA HandsReturn ==
    ASSUME ThreadTypeOK, NEW t \in Threads, Return(t) \/ NotifyAllAndReturn(t)
    PROVE  /\ flushing' = [flushing EXCEPT ![t] = {}]
           /\ releasing' = [releasing EXCEPT ![t] = {}]
BY HandsLeave, "idle" \in Awake DEF Return, NotifyAllAndReturn, Awake

LEMMA EmptyHands ==
    ASSUME NEW t \in Threads, pc[t] \in Awake
    PROVE  flushing[t] = {} /\ releasing[t] = {}
BY AwakeLabels DEF flushing, releasing

(* ... and stays outside of them.                                          *)
LEMMA HandsKept ==
    ASSUME ThreadTypeOK, NEW t \in Threads, pc[t] \in Awake, NEW label \in Awake, NEW a,
           Goto(t, label, a) \/ NotifyAllAndGoto(t, label)
    PROVE  UNCHANGED <<flushing, releasing>>
<1>1. /\ flushing' = [flushing EXCEPT ![t] = {}]
      /\ releasing' = [releasing EXCEPT ![t] = {}]
  BY HandsLeave
<1>2. flushing[t] = {} /\ releasing[t] = {}
  BY EmptyHands
<1>3. /\ flushing = [u \in Threads |-> flushing[u]]
      /\ releasing = [u \in Threads |-> releasing[u]]
  BY DEF flushing, releasing
<1> QED
  BY <1>1, <1>2, <1>3

LEMMA LedgerKept ==
    /\ UNCHANGED cache => UNCHANGED status
    /\ UNCHANGED threadVars => UNCHANGED <<flushing, releasing>>
BY DEF status, flushing, releasing, threadVars

----------------------------------------------------------------------------
(* Owned is kept by every action of an ordinary queue.                     *)

LEMMA QuietOwned ==
    ASSUME Owned,
           UNCHANGED <<status, freeList, dirtyList, flushing, releasing, producerHeld,
                       consumerHeld, nextSequence>>
    PROVE  Owned'
BY DEF Owned, ListsOK, HandsOK, FreshOK, SlotsOK

LEMMA ReuseOwned ==
    ASSUME TypeOK, ~isShared, Owned, NEW p \in Producers, pc[p] \in RequestPcs,
           NEW i \in DOMAIN freeList, ReuseBuffer(p, freeList[i]),
           freeList' = RemoveAt(freeList, i), Return(p),
           UNCHANGED <<dirtyList, consumerHeld>>
    PROVE  Owned'
<1> DEFINE s == freeList[i]
<1> USE DEF Owned
<1>t. /\ status \in [SeqNumbers -> BufferStates \cup {"outside"}]
      /\ flushing \in [Threads -> SUBSET SeqNumbers]
      /\ releasing \in [Threads -> SUBSET SeqNumbers]
      /\ producerHeld \subseteq SeqNumbers /\ consumerHeld \subseteq SeqNumbers
      /\ nextSequence \in Nat /\ SeqNumbers \subseteq Nat
  BY LedgerType
<1>1. s \in SeqNumbers /\ s \in ToSet(freeList) /\ i \in 1..Len(freeList)
  BY ToSetMeans DEF TypeOK, ListTypeOK
<1>2. status[s] = "RELEASED"
  BY <1>1 DEF ListsOK
<1>3. s \in DOMAIN cache
  BY <1>1, <1>2, LedgerType
<1>4. IsInjective(freeList') /\ ToSet(freeList') = ToSet(freeList) \ {s}
  BY <1>1, RemoveAtSet DEF ListsOK, TypeOK, ListTypeOK
<1>5. UNCHANGED <<flushing, releasing>>
  <2>1. p \in Threads /\ pc[p] \in Awake /\ "idle" \in Awake
    BY DEF Threads, Awake
  <2> QED
    BY <2>1, HandsKept DEF TypeOK, Return
<1> HIDE DEF s
<1>6. CASE ReuseSameConfig(p, s)
  <2>1. /\ status' = [status EXCEPT ![s] = "REQUESTED"]
        /\ producerHeld' = producerHeld \cup {s} /\ nextSequence' = nextSequence
    BY <1>3, <1>6, StateSetEffect DEF ReuseSameConfig, GiveToProducer, BufferStates
  <2>2. ListsOK'
    BY <1>t, <1>1, <1>2, <1>4, <2>1 DEF ListsOK
  <2>3. HandsOK'
    BY <1>t, <1>1, <1>2, <1>5, <2>1 DEF HandsOK, ProducerStates, ConsumerStates
  <2>4. FreshOK' /\ SlotsOK'
    BY <1>t, <1>1, <1>2, <1>5, <2>1 DEF FreshOK, SlotsOK
  <2> QED
    BY <2>2, <2>3, <2>4
<1>7. CASE ReuseRealloc(p, s)
  <2>0. nextSequence \in SeqNumbers /\ status[nextSequence] = "outside" /\ nextSequence # s
    BY <1>7, <1>t, <1>2 DEF ReuseRealloc, CanAlloc, SeqNumbers, FreshOK, TypeOK, StatusTypeOK
  <2>1. /\ status' = [status EXCEPT ![s] = "outside", ![nextSequence] = "REQUESTED"]
        /\ producerHeld' = producerHeld \cup {nextSequence}
        /\ nextSequence' = nextSequence + 1
    BY <1>1, <1>7, <2>0, ReplaceEffect DEF ReuseRealloc, GiveToProducer
  <2>2. ListsOK'
    BY <1>t, <1>1, <1>2, <1>4, <2>0, <2>1 DEF ListsOK
  <2>3. HandsOK'
    BY <1>t, <1>1, <1>2, <1>5, <2>0, <2>1 DEF HandsOK, FreshOK, ProducerStates, ConsumerStates
  <2>4. FreshOK'
    BY <1>t, <1>1, <1>2, <1>5, <2>0, <2>1 DEF FreshOK
  <2>5. SlotsOK'
    BY <1>t, <1>1, <1>2, <1>5, <2>0, <2>1 DEF SlotsOK
  <2> QED
    BY <2>2, <2>3, <2>4, <2>5
<1>8. CASE ReuseReallocFails(p, s)
  <2>1. /\ status' = [x \in SeqNumbers |-> IF x \in {s} THEN "outside" ELSE status[x]]
        /\ UNCHANGED <<producerHeld, nextSequence>>
    BY <1>8, EraseEffect DEF ReuseReallocFails
  <2>2. ListsOK'
    BY <1>t, <1>1, <1>2, <1>4, <2>1 DEF ListsOK
  <2>3. HandsOK'
    BY <1>t, <1>1, <1>2, <1>5, <2>1 DEF HandsOK, ProducerStates, ConsumerStates
  <2>4. FreshOK' /\ SlotsOK'
    BY <1>t, <1>1, <1>2, <1>5, <2>1 DEF FreshOK, SlotsOK
  <2> QED
    BY <2>2, <2>3, <2>4
<1> QED
  BY <1>6, <1>7, <1>8 DEF ReuseBuffer, ReuseRefused, s

LEMMA TakeBufferOwned ==
    ASSUME TypeOK, ~isShared, Owned, NEW p \in Producers, pc[p] \in RequestPcs, TakeBuffer(p)
    PROVE  Owned'
<1> USE DEF Owned
<1>t. /\ status \in [SeqNumbers -> BufferStates \cup {"outside"}]
      /\ flushing \in [Threads -> SUBSET SeqNumbers]
      /\ releasing \in [Threads -> SUBSET SeqNumbers]
      /\ producerHeld \subseteq SeqNumbers /\ consumerHeld \subseteq SeqNumbers
      /\ nextSequence \in Nat /\ SeqNumbers \subseteq Nat
  BY LedgerType
<1>0. ~SharedHit
  BY DEF SharedHit
<1>1. CASE PopAndReuse(p)
  <2>1. PICK i \in DOMAIN freeList :
          ReuseBuffer(p, freeList[i]) /\ freeList' = RemoveAt(freeList, i)
    BY <1>0, <1>1 DEF PopAndReuse
  <2> QED
    BY <2>1, ReuseOwned DEF TakeBuffer
<1>2. CASE AllocBuffer(p)
  <2>1. UNCHANGED <<flushing, releasing>>
    <3>1. p \in Threads /\ pc[p] \in Awake /\ "idle" \in Awake
      BY DEF Threads, Awake
    <3> QED
      BY <3>1, HandsKept DEF TypeOK, Return, TakeBuffer
  <2>2. UNCHANGED <<freeList, dirtyList, consumerHeld>>
    BY <1>2 DEF AllocBuffer, TakeBuffer
  <2>3. CASE /\ CanAlloc /\ GiveToProducer(nextSequence) /\ nextSequence' = nextSequence + 1
             /\ cache' = Put(cache, nextSequence, NewElement("REQUESTED", arg[p]))
    <3>1. nextSequence \in SeqNumbers /\ status[nextSequence] = "outside"
      BY <2>3, <1>t DEF CanAlloc, SeqNumbers, FreshOK, TypeOK, StatusTypeOK
    <3>2. /\ status' = [status EXCEPT ![nextSequence] = "REQUESTED"]
          /\ producerHeld' = producerHeld \cup {nextSequence}
      BY <2>3, <3>1, PutEffect DEF GiveToProducer
    <3>3. ListsOK'
      BY <1>t, <2>2, <3>1, <3>2 DEF ListsOK
    <3>4. HandsOK'
      BY <1>t, <2>1, <2>2, <3>1, <3>2 DEF HandsOK, FreshOK, ProducerStates, ConsumerStates
    <3>5. FreshOK'
      BY <1>t, <2>1, <2>2, <2>3, <3>1, <3>2 DEF FreshOK
    <3>6. SlotsOK'
      BY <1>t, <2>1, <2>2, <3>1, <3>2 DEF SlotsOK
    <3> QED
      BY <3>3, <3>4, <3>5, <3>6
  <2>4. CASE UNCHANGED <<cache, producerHeld, nextSequence>>
    BY <2>1, <2>2, <2>4, LedgerKept, QuietOwned
  <2> QED
    BY <1>2, <2>3, <2>4 DEF AllocBuffer
<1> QED
  BY <1>1, <1>2 DEF TakeBuffer

LEMMA RequestOwned ==
    ASSUME TypeOK, ~isShared, Owned, NEW p \in Producers,
           \/ \E config \in Configs : RequestBuffer(p, config)
           \/ CallRefused(p) \/ RequestStep(p) \/ WaitTimeout(p)
    PROVE  Owned'
<1>p. p \in Threads /\ RequestPcs \subseteq Awake /\ "idle" \in Awake
  BY DEF Threads, Awake
<1>q. ASSUME pc[p] \in Awake, UNCHANGED noBufferVars,
             (\E l \in RequestPcs : \E a \in {arg[p]} \cup Configs : Goto(p, l, a)) \/ Return(p)
      PROVE  Owned'
  <2>1. UNCHANGED <<flushing, releasing>>
    BY <1>q, <1>p, HandsKept DEF TypeOK, Return
  <2> QED
    BY <1>q, <2>1, LedgerKept, QuietOwned DEF noBufferVars, bufferVars, clientVars
<1>1. ASSUME NEW config \in Configs, RequestBuffer(p, config)
      PROVE  Owned'
  BY <1>1, <1>p, <1>q DEF RequestBuffer, Idle, RequestPcs
<1>2. CASE CallRefused(p)
  BY <1>2, LedgerKept, QuietOwned DEF CallRefused, vars, bufferVars, clientVars
<1>3. CASE RequestLocked(p) \/ RetryTakes(p)
  <2>1. TakeBuffer(p) /\ pc[p] \in RequestPcs
    BY <1>3 DEF RequestLocked, RetryTakes, WaitOver, RequestPcs
  <2> QED
    BY <2>1, TakeBufferOwned
<1>4. CASE RequestMustWait(p)
  BY <1>4, <1>p, <1>q DEF RequestMustWait, RequestPcs
<1>5. CASE WaitBlock(p) \/ WaitTimeout(p) \/ WaitAgain(p)
  BY <1>5, <1>p, <1>q DEF WaitBlock, WaitTimeout, WaitAgain, RequestPcs
<1>6. CASE RetryFails(p)
  BY <1>6, <1>p, <1>q DEF RetryFails, WaitOver, RequestPcs
<1> QED
  BY <1>1, <1>2, <1>3, <1>4, <1>5, <1>6 DEF RequestStep

(* CancelLocked, for a buffer in no hand any more.                         *)
LEMMA CancelEffect ==
    ASSUME TypeOK, Owned, NEW s \in SeqNumbers, Requested(s), CancelLocked(s)
    PROVE  /\ status[s] = "REQUESTED" /\ status' = [status EXCEPT ![s] = "RELEASED"]
           /\ ListsOK'
<1> USE DEF Owned
<1>t. /\ status \in [SeqNumbers -> BufferStates \cup {"outside"}]
      /\ flushing \in [Threads -> SUBSET SeqNumbers]
      /\ releasing \in [Threads -> SUBSET SeqNumbers]
      /\ producerHeld \subseteq SeqNumbers /\ consumerHeld \subseteq SeqNumbers
      /\ nextSequence \in Nat /\ SeqNumbers \subseteq Nat
  BY LedgerType
<1>1. s \in DOMAIN cache /\ status[s] = "REQUESTED"
  BY LedgerType DEF Requested
<1>2. status' = [status EXCEPT ![s] = "RELEASED"]
  BY <1>1, StateSetEffect DEF CancelLocked, BufferStates
<1>3. freeList' = Append(freeList, s) /\ UNCHANGED dirtyList
  BY DEF CancelLocked
<1>4. s \notin ToSet(freeList)
  BY <1>1 DEF ListsOK
<1>5. IsInjective(freeList') /\ ToSet(freeList') = ToSet(freeList) \cup {s}
  BY <1>3, <1>4, AppendSet, AppendKeepsOnce DEF ListsOK, TypeOK, ListTypeOK
<1>6. ListsOK'
  BY <1>t, <1>1, <1>2, <1>3, <1>5 DEF ListsOK
<1> QED
  BY <1>1, <1>2, <1>6

LEMMA CancelOwned ==
    ASSUME TypeOK, ~isShared, Owned, NEW p \in Producers, NEW s \in SeqNumbers,
           CancelBuffer(p, s)
    PROVE  Owned'
<1> USE DEF Owned
<1>t. /\ status \in [SeqNumbers -> BufferStates \cup {"outside"}]
      /\ flushing \in [Threads -> SUBSET SeqNumbers]
      /\ releasing \in [Threads -> SUBSET SeqNumbers]
      /\ producerHeld \subseteq SeqNumbers /\ consumerHeld \subseteq SeqNumbers
      /\ nextSequence \in Nat /\ SeqNumbers \subseteq Nat
  BY LedgerType
<1>1. /\ status[s] = "REQUESTED" /\ status' = [status EXCEPT ![s] = "RELEASED"]
      /\ ListsOK'
  BY CancelEffect DEF CancelBuffer
<1>2. UNCHANGED <<flushing, releasing>>
  <2>1. p \in Threads /\ pc[p] \in Awake /\ "idle" \in Awake
    BY DEF Threads, Awake, CancelBuffer, Idle
  <2> QED
    BY <2>1, HandsKept DEF TypeOK, NotifyAllAndReturn, CancelBuffer
<1>3. /\ s \in producerHeld /\ producerHeld' = producerHeld \ {s}
      /\ UNCHANGED <<consumerHeld, nextSequence>>
  BY DEF CancelBuffer
<1>4. HandsOK'
  BY <1>t, <1>1, <1>2, <1>3 DEF HandsOK, ProducerStates, ConsumerStates
<1>5. FreshOK' /\ SlotsOK'
  BY <1>t, <1>1, <1>2, <1>3 DEF FreshOK, SlotsOK
<1> QED
  BY <1>1, <1>4, <1>5

(* A buffer that has no state any more, or none a list shows, changes      *)
(* hands: from the held to the flushing, or back.                          *)
LEMMA FlushOwned ==
    ASSUME TypeOK, ~isShared, Owned, NEW p \in Producers, NEW s \in SeqNumbers,
           FlushBuffer(p, s)
    PROVE  Owned'
<1> USE DEF Owned
<1>t. /\ status \in [SeqNumbers -> BufferStates \cup {"outside"}]
      /\ flushing \in [Threads -> SUBSET SeqNumbers]
      /\ releasing \in [Threads -> SUBSET SeqNumbers]
      /\ producerHeld \subseteq SeqNumbers /\ consumerHeld \subseteq SeqNumbers
      /\ nextSequence \in Nat /\ SeqNumbers \subseteq Nat
  BY LedgerType
<1>p. p \in Threads /\ pc[p] \in Awake /\ "idle" \in Awake
  BY DEF Threads, Awake, FlushBuffer, Idle
<1>e. flushing[p] = {} /\ releasing[p] = {}
  BY <1>p, EmptyHands
<1>1. /\ s \in producerHeld /\ producerHeld' = producerHeld \ {s}
      /\ UNCHANGED <<freeList, dirtyList, consumerHeld, nextSequence, status>>
  BY LedgerKept DEF FlushBuffer, bufferVars
<1>2. ListsOK'
  BY <1>1 DEF ListsOK
<1>3. CASE Flushable(s)
  <2>1. /\ flushing' = [flushing EXCEPT ![p] = {s}]
        /\ releasing' = [releasing EXCEPT ![p] = {}]
    BY <1>3, <1>p, HandsGoto DEF FlushBuffer, TypeOK, FlushingPcs, ReleasePcs
  <2>2. HandsOK'
    BY <1>t, <1>p, <1>e, <1>1, <2>1 DEF HandsOK
  <2>3. FreshOK'
    BY <1>t, <1>p, <1>e, <1>1, <2>1 DEF FreshOK
  <2>4. SlotsOK'
    BY <1>t, <1>p, <1>e, <1>1, <2>1 DEF SlotsOK
  <2> QED
    BY <1>2, <2>2, <2>3, <2>4
<1>4. CASE ~Flushable(s)
  <2>1. UNCHANGED <<flushing, releasing>>
    BY <1>4, <1>p, HandsKept DEF FlushBuffer, TypeOK, Return
  <2>2. status[s] = "outside"
    BY <1>1, <1>4, <1>t, LedgerType DEF Flushable, HandsOK, ProducerStates
  <2>3. HandsOK' /\ FreshOK'
    BY <1>t, <1>1, <2>1 DEF HandsOK, FreshOK
  <2>4. SlotsOK'
    BY <1>t, <1>1, <2>1, <2>2 DEF SlotsOK
  <2> QED
    BY <1>2, <2>3, <2>4
<1> QED
  BY <1>3, <1>4

LEMMA FlushStepOwned ==
    ASSUME TypeOK, ~isShared, Owned, NEW p \in Producers, FlushStep(p)
    PROVE  Owned'
<1> USE DEF Owned
<1> DEFINE s == arg[p]
<1>t. /\ status \in [SeqNumbers -> BufferStates \cup {"outside"}]
      /\ flushing \in [Threads -> SUBSET SeqNumbers]
      /\ releasing \in [Threads -> SUBSET SeqNumbers]
      /\ producerHeld \subseteq SeqNumbers /\ consumerHeld \subseteq SeqNumbers
      /\ nextSequence \in Nat /\ SeqNumbers \subseteq Nat
  BY LedgerType
<1>p. p \in Threads /\ {"idle", "flushNotify"} \subseteq Awake
  BY DEF Threads, Awake
<1>f. pc[p] \in FlushingPcs => s \in SeqNumbers /\ flushing[p] = {s} /\ releasing[p] = {}
  BY <1>p DEF TypeOK, ThreadTypeOK, ArgOK, flushing, releasing, FlushingPcs, ReleasePcs, FlushPcs
<1>l. ASSUME NEW label \in {"idle", "flushNotify"}, NEW a,
             Goto(p, label, a) \/ NotifyAllAndGoto(p, label)
      PROVE  /\ flushing' = [flushing EXCEPT ![p] = {}]
             /\ releasing' = [releasing EXCEPT ![p] = {}]
  BY <1>l, <1>p, HandsLeave DEF TypeOK
<1>d. s \in DOMAIN cache <=> s \in SeqNumbers /\ status[s] # "outside"
  BY LedgerType
<1> HIDE DEF s
<1>1. CASE FlushHasListener(p)
  <2>1. Goto(p, "doFlush", s) /\ UNCHANGED noBufferVars /\ pc[p] \in FlushingPcs
    BY <1>1 DEF FlushHasListener, s, FlushingPcs
  <2>2. /\ flushing' = [flushing EXCEPT ![p] = {s}]
        /\ releasing' = [releasing EXCEPT ![p] = {}]
    BY <1>p, <2>1, HandsGoto DEF TypeOK, FlushingPcs, ReleasePcs
  <2>3. UNCHANGED <<flushing, releasing>>
    BY <1>t, <1>f, <2>1, <2>2
  <2> QED
    BY <2>1, <2>3, LedgerKept, QuietOwned DEF noBufferVars, bufferVars, clientVars
<1>2. CASE FlushCancels(p)
  <2>1. s \in SeqNumbers /\ flushing[p] = {s} /\ releasing[p] = {}
    BY <1>2, <1>f DEF FlushCancels, FlushingPcs
  <2>2. /\ flushing' = [flushing EXCEPT ![p] = {}]
        /\ releasing' = [releasing EXCEPT ![p] = {}]
        /\ UNCHANGED <<consumerHeld, nextSequence>>
    BY <1>2, <1>l DEF FlushCancels, Return, NotifyAllAndReturn
  <2>3. CASE Requested(s)
    <3>1. CancelLocked(s) /\ UNCHANGED producerHeld
      BY <1>2, <2>3 DEF FlushCancels, s
    <3>2. /\ status[s] = "REQUESTED" /\ status' = [status EXCEPT ![s] = "RELEASED"]
          /\ ListsOK'
      BY <2>1, <2>3, <3>1, CancelEffect
    <3>3. HandsOK'
      BY <1>t, <1>p, <2>1, <2>2, <3>1, <3>2 DEF HandsOK, ProducerStates, ConsumerStates
    <3>4. FreshOK'
      BY <1>t, <1>p, <2>1, <2>2, <3>1, <3>2 DEF FreshOK
    <3>5. SlotsOK'
      BY <1>t, <1>p, <2>1, <2>2, <3>1, <3>2 DEF SlotsOK, HandsOK
    <3> QED
      BY <3>2, <3>3, <3>4, <3>5
  <2>4. CASE ~Requested(s)
    <3>1. /\ producerHeld' = producerHeld \cup {s}
          /\ UNCHANGED <<status, freeList, dirtyList>>
      BY <1>2, <2>4, LedgerKept DEF FlushCancels, GiveToProducer, bufferVars, s
    <3>2. ListsOK'
      BY <3>1 DEF ListsOK
    <3>3. HandsOK'
      BY <1>t, <1>p, <2>1, <2>2, <3>1 DEF HandsOK
    <3>4. FreshOK'
      BY <1>t, <1>p, <2>1, <2>2, <3>1 DEF FreshOK
    <3>5. SlotsOK'
      BY <1>t, <1>p, <2>1, <2>2, <3>1 DEF SlotsOK, HandsOK
    <3> QED
      BY <3>2, <3>3, <3>4, <3>5
  <2> QED
    BY <2>3, <2>4
<1>3. CASE DoFlushGone(p)
  <2>1. s \in SeqNumbers /\ flushing[p] = {s} /\ releasing[p] = {} /\ status[s] = "outside"
    BY <1>3, <1>d, <1>f DEF DoFlushGone, FlushingPcs, s
  <2>2. /\ flushing' = [flushing EXCEPT ![p] = {}]
        /\ releasing' = [releasing EXCEPT ![p] = {}]
        /\ UNCHANGED <<status, freeList, dirtyList, producerHeld, consumerHeld, nextSequence>>
    BY <1>3, <1>l, LedgerKept DEF DoFlushGone, Return, noBufferVars, bufferVars, clientVars
  <2>3. ListsOK' /\ FreshOK'
    BY <1>t, <1>p, <2>1, <2>2 DEF ListsOK, FreshOK
  <2>4. HandsOK' /\ SlotsOK'
    BY <1>t, <1>p, <2>1, <2>2 DEF HandsOK, SlotsOK
  <2> QED
    BY <2>3, <2>4
<1>4. CASE DoFlushDeletes(p)
  <2>1. s \in SeqNumbers /\ flushing[p] = {s} /\ releasing[p] = {}
    BY <1>4, <1>f DEF DoFlushDeletes, FlushingPcs
  <2>2. /\ flushing' = [flushing EXCEPT ![p] = {}]
        /\ releasing' = [releasing EXCEPT ![p] = {}]
        /\ UNCHANGED <<freeList, dirtyList, producerHeld, consumerHeld, nextSequence>>
        /\ status' = [x \in SeqNumbers |-> IF x \in {s} THEN "outside" ELSE status[x]]
    BY <1>4, <1>l, EraseEffect DEF DoFlushDeletes, clientVars, s
  <2>3. status[s] \in ProducerStates
    BY <1>p, <2>1 DEF HandsOK
  <2>4. ListsOK' /\ FreshOK'
    BY <1>t, <1>p, <2>1, <2>2, <2>3 DEF ListsOK, FreshOK, ProducerStates
  <2>5. HandsOK'
    BY <1>t, <1>p, <2>1, <2>2 DEF HandsOK, ProducerStates, ConsumerStates
  <2>6. SlotsOK'
    BY <1>t, <1>p, <2>1, <2>2 DEF SlotsOK
  <2> QED
    BY <2>4, <2>5, <2>6
<1>5. CASE DoFlushBuffer(p)
  <2>1. s \in SeqNumbers /\ flushing[p] = {s} /\ releasing[p] = {} /\ s \in DOMAIN cache
    BY <1>5, <1>f DEF DoFlushBuffer, FlushingPcs, s
  <2>2. /\ flushing' = [flushing EXCEPT ![p] = {}]
        /\ releasing' = [releasing EXCEPT ![p] = {}]
        /\ UNCHANGED <<freeList, producerHeld, consumerHeld, nextSequence>>
    BY <1>5, <1>l DEF DoFlushBuffer, Return, clientVars
  <2>3. status' = [status EXCEPT ![s] = "FLUSHED"]
    BY <1>5, <2>1, StateSetEffect DEF DoFlushBuffer, BufferStates, s
  <2>4. status[s] \in ProducerStates /\ s \notin ToSet(dirtyList)
    BY <1>p, <2>1 DEF HandsOK, ListsOK, ProducerStates
  <2>5. dirtyList' = Append(dirtyList, s)
    BY <1>5 DEF DoFlushBuffer, s
  <2>6. IsInjective(dirtyList') /\ ToSet(dirtyList') = ToSet(dirtyList) \cup {s}
    BY <2>1, <2>4, <2>5, AppendSet, AppendKeepsOnce DEF ListsOK, TypeOK, ListTypeOK
  <2>7. ListsOK' /\ FreshOK'
    BY <1>t, <1>p, <2>1, <2>2, <2>3, <2>4, <2>6 DEF ListsOK, FreshOK, ProducerStates
  <2>8. HandsOK'
    BY <1>t, <1>p, <2>1, <2>2, <2>3, <2>4 DEF HandsOK, ProducerStates, ConsumerStates
  <2>9. SlotsOK'
    BY <1>t, <1>p, <2>1, <2>2, <2>3 DEF SlotsOK
  <2> QED
    BY <2>7, <2>8, <2>9
<1>6. CASE FlushNotify(p)
  <2>1. pc[p] \in Awake
    BY <1>6 DEF FlushNotify, Awake
  <2>2. UNCHANGED <<flushing, releasing>>
    BY <1>6, <1>p, <2>1, HandsKept DEF FlushNotify, Return, TypeOK
  <2> QED
    BY <1>6, <2>2, LedgerKept, QuietOwned DEF FlushNotify, bufferVars
<1> QED
  BY <1>1, <1>2, <1>3, <1>4, <1>5, <1>6 DEF FlushStep

LEMMA AcquireEffect ==
    ASSUME TypeOK, ~isShared, Owned, NEW c \in Consumers, AcquireBuffer(c), dirtyList # <<>>
    PROVE  /\ Head(dirtyList) \in SeqNumbers /\ status[Head(dirtyList)] = "FLUSHED"
           /\ status' = [status EXCEPT ![Head(dirtyList)] = "ACQUIRED"]
           /\ dirtyList' = Tail(dirtyList) /\ UNCHANGED freeList
           /\ consumerHeld' = consumerHeld \cup {Head(dirtyList)}
           /\ ListsOK'
<1> USE DEF Owned
<1> DEFINE s == Head(dirtyList)
<1>t. /\ status \in [SeqNumbers -> BufferStates \cup {"outside"}]
      /\ flushing \in [Threads -> SUBSET SeqNumbers]
      /\ releasing \in [Threads -> SUBSET SeqNumbers]
      /\ producerHeld \subseteq SeqNumbers /\ consumerHeld \subseteq SeqNumbers
      /\ nextSequence \in Nat /\ SeqNumbers \subseteq Nat
  BY LedgerType
<1>1. /\ AcquireLocked(s) /\ dirtyList' = Tail(dirtyList)
      /\ UNCHANGED freeList /\ consumerHeld' = consumerHeld \cup {s}
  BY DEF AcquireBuffer, SharedHit, AcquireLocked
<1>2. /\ s \in SeqNumbers /\ s \in ToSet(dirtyList)
      /\ IsInjective(dirtyList') /\ ToSet(dirtyList') = ToSet(dirtyList) \ {s}
  BY <1>1, TailSet DEF TypeOK, ListTypeOK, ListsOK
<1>3. status[s] = "FLUSHED"
  BY <1>2 DEF ListsOK
<1>4. s \in DOMAIN cache
  BY <1>2, <1>3, LedgerType
<1> HIDE DEF s
<1>5. status' = [status EXCEPT ![s] = "ACQUIRED"]
  BY <1>1, <1>4, StateSetEffect DEF AcquireLocked, BufferStates
<1>6. ListsOK'
  BY <1>t, <1>1, <1>2, <1>3, <1>5 DEF ListsOK
<1> QED
  BY <1>1, <1>2, <1>3, <1>5, <1>6 DEF s

LEMMA ConsumerCallOwned ==
    ASSUME TypeOK, ~isShared, Owned, NEW c \in Consumers, ConsumerCall(c)
    PROVE  Owned'
<1> USE DEF Owned
<1>t. /\ status \in [SeqNumbers -> BufferStates \cup {"outside"}]
      /\ flushing \in [Threads -> SUBSET SeqNumbers]
      /\ releasing \in [Threads -> SUBSET SeqNumbers]
      /\ producerHeld \subseteq SeqNumbers /\ consumerHeld \subseteq SeqNumbers
      /\ nextSequence \in Nat /\ SeqNumbers \subseteq Nat
  BY LedgerType
<1>p. c \in Threads /\ "idle" \in Awake
  BY DEF Threads, Awake
<1>1. CASE AcquireBuffer(c)
  <2>1. UNCHANGED <<flushing, releasing>> /\ UNCHANGED <<producerHeld, nextSequence>>
    BY <1>1, LedgerKept DEF AcquireBuffer
  <2>2. CASE dirtyList = <<>>
    <3>1. UNCHANGED bufferVars /\ UNCHANGED consumerHeld
      BY <1>1, <2>2 DEF AcquireBuffer, SharedHit
    <3> QED
      BY <2>1, <3>1, LedgerKept, QuietOwned DEF bufferVars
  <2>3. CASE dirtyList # <<>>
    <3> DEFINE s == Head(dirtyList)
    <3>1. /\ s \in SeqNumbers /\ status[s] = "FLUSHED" /\ ListsOK'
          /\ status' = [status EXCEPT ![s] = "ACQUIRED"]
          /\ consumerHeld' = consumerHeld \cup {s}
      BY <1>1, <2>3, AcquireEffect
    <3> HIDE DEF s
    <3>2. HandsOK'
      BY <1>t, <2>1, <3>1 DEF HandsOK, ProducerStates, ConsumerStates
    <3>3. FreshOK' /\ SlotsOK'
      BY <1>t, <2>1, <3>1 DEF FreshOK, SlotsOK
    <3> QED
      BY <3>1, <3>2, <3>3
  <2> QED
    BY <2>2, <2>3
<1>2. ASSUME NEW s \in SeqNumbers, ReleaseBuffer(c, s)
      PROVE  Owned'
  <2>1. pc[c] \in Awake
    BY <1>2 DEF ReleaseBuffer, Idle, Awake
  <2>2. flushing[c] = {} /\ releasing[c] = {}
    BY <1>p, <2>1, EmptyHands
  <2>3. /\ s \in consumerHeld /\ consumerHeld' = consumerHeld \ {s}
        /\ UNCHANGED <<freeList, dirtyList, producerHeld, nextSequence, status>>
    BY <1>2, LedgerKept DEF ReleaseBuffer, bufferVars
  <2>4. ListsOK'
    BY <2>3 DEF ListsOK
  <2>5. CASE Releasable(s)
    <3>1. /\ flushing' = [flushing EXCEPT ![c] = {}]
          /\ releasing' = [releasing EXCEPT ![c] = {s}]
      BY <1>2, <1>p, <2>5, HandsGoto DEF ReleaseBuffer, TypeOK, FlushingPcs, ReleasePcs
    <3>2. HandsOK'
      BY <1>t, <1>p, <2>2, <2>3, <3>1 DEF HandsOK
    <3>3. FreshOK'
      BY <1>t, <1>p, <2>2, <2>3, <3>1 DEF FreshOK
    <3>4. SlotsOK'
      BY <1>t, <1>p, <2>2, <2>3, <3>1 DEF SlotsOK
    <3> QED
      BY <2>4, <3>2, <3>3, <3>4
  <2>6. CASE ~Releasable(s)
    <3>1. UNCHANGED <<flushing, releasing>>
      BY <1>2, <1>p, <2>1, <2>6, HandsKept DEF ReleaseBuffer, TypeOK, Return
    <3>2. status[s] = "outside"
      BY <2>3, <2>6, <1>t, LedgerType DEF Releasable, HandsOK, ConsumerStates
    <3>3. HandsOK' /\ FreshOK'
      BY <1>t, <2>3, <3>1 DEF HandsOK, FreshOK
    <3>4. SlotsOK'
      BY <1>t, <2>3, <3>1, <3>2 DEF SlotsOK
    <3> QED
      BY <2>4, <3>3, <3>4
  <2> QED
    BY <2>5, <2>6
<1> QED
  BY <1>1, <1>2 DEF ConsumerCall

LEMMA ReleaseStepOwned ==
    ASSUME TypeOK, ~isShared, Owned, NEW c \in Consumers, ReleaseStep(c)
    PROVE  Owned'
<1> USE DEF Owned
<1> DEFINE s == arg[c]
<1>t. /\ status \in [SeqNumbers -> BufferStates \cup {"outside"}]
      /\ flushing \in [Threads -> SUBSET SeqNumbers]
      /\ releasing \in [Threads -> SUBSET SeqNumbers]
      /\ producerHeld \subseteq SeqNumbers /\ consumerHeld \subseteq SeqNumbers
      /\ nextSequence \in Nat /\ SeqNumbers \subseteq Nat
  BY LedgerType
<1>p. c \in Threads /\ "idle" \in Awake
  BY DEF Threads, Awake
<1>f. pc[c] \in ReleasePcs
  BY DEF ReleaseStep, ReleaseCallback, ReleaseGone, ReleaseLocked, ReleasePcs
<1>s. s \in SeqNumbers /\ flushing[c] = {} /\ releasing[c] = {s}
  BY <1>p, <1>f DEF TypeOK, ThreadTypeOK, ArgOK, flushing, releasing, FlushingPcs, ReleasePcs
<1>r. Return(c) \/ NotifyAllAndReturn(c) =>
        /\ flushing' = [flushing EXCEPT ![c] = {}]
        /\ releasing' = [releasing EXCEPT ![c] = {}]
  BY <1>p, HandsReturn DEF TypeOK
<1>h. status[s] \in ConsumerStates
  BY <1>p, <1>s DEF HandsOK
<1>1. CASE ReleaseCallback(c)
  <2>1. UNCHANGED <<status, freeList, dirtyList, producerHeld, consumerHeld, nextSequence>>
    BY <1>1, LedgerKept DEF ReleaseCallback, noBufferVars, bufferVars, clientVars
  <2>2. CASE Goto(c, "releaseLock", s)
    <3>1. /\ flushing' = [flushing EXCEPT ![c] = {}]
          /\ releasing' = [releasing EXCEPT ![c] = {s}]
      BY <1>p, <2>2, HandsGoto DEF TypeOK, FlushingPcs, ReleasePcs
    <3>2. UNCHANGED <<flushing, releasing>>
      BY <1>t, <1>s, <3>1
    <3> QED
      BY <2>1, <3>2, QuietOwned
  <2>3. CASE "ok" \in ReleaseResults /\ Return(c)
    <3> HIDE DEF s
    <3>1. /\ flushing' = [flushing EXCEPT ![c] = {}]
          /\ releasing' = [releasing EXCEPT ![c] = {}]
      BY <1>r, <2>3
    <3>2. ListsOK' /\ FreshOK'
      BY <1>t, <1>p, <1>s, <2>1, <3>1 DEF ListsOK, FreshOK
    <3>3. HandsOK'
      BY <1>t, <1>p, <1>s, <2>1, <3>1 DEF HandsOK
    <3>4. SlotsOK'
      BY <2>3 DEF SlotsOK
    <3> QED
      BY <3>2, <3>3, <3>4
  <2> QED
    BY <1>1, <2>2, <2>3 DEF ReleaseCallback
<1>2. CASE ReleaseGone(c)
  <2>1. /\ UNCHANGED <<status, freeList, dirtyList, producerHeld, consumerHeld, nextSequence>>
        /\ Return(c) /\ status[s] = "outside"
    BY <1>2, <1>s, LedgerKept, LedgerType
       DEF ReleaseGone, noBufferVars, bufferVars, clientVars
  <2>2. /\ flushing' = [flushing EXCEPT ![c] = {}]
        /\ releasing' = [releasing EXCEPT ![c] = {}]
    BY <1>r, <2>1
  <2> HIDE DEF s
  <2>3. ListsOK' /\ FreshOK'
    BY <1>t, <1>p, <1>s, <2>1, <2>2 DEF ListsOK, FreshOK
  <2>4. HandsOK'
    BY <1>t, <1>p, <1>s, <2>1, <2>2 DEF HandsOK
  <2>5. SlotsOK'
    BY <1>t, <1>p, <1>s, <2>1, <2>2 DEF SlotsOK
  <2> QED
    BY <2>3, <2>4, <2>5
<1>3. CASE ReleaseLocked(c)
  <2>1. /\ UNCHANGED <<dirtyList, producerHeld, consumerHeld, nextSequence>>
        /\ s \in DOMAIN cache /\ NotifyAllAndReturn(c)
    BY <1>3 DEF ReleaseLocked, clientVars
  <2>2. CASE cache[s].isDeleting
    <3>1. /\ UNCHANGED freeList
          /\ status' = [x \in SeqNumbers |-> IF x \in {s} THEN "outside" ELSE status[x]]
      BY <1>3, <2>2, EraseEffect DEF ReleaseLocked
    <3> HIDE DEF s
    <3>2. ListsOK' /\ FreshOK'
      BY <1>t, <1>p, <1>s, <1>r, <1>h, <2>1, <3>1 DEF ListsOK, FreshOK, ConsumerStates
    <3>3. HandsOK'
      BY <1>t, <1>p, <1>s, <1>r, <2>1, <3>1 DEF HandsOK, ProducerStates, ConsumerStates
    <3>4. SlotsOK'
      BY <1>t, <1>p, <1>s, <1>r, <2>1, <3>1 DEF SlotsOK
    <3> QED
      BY <3>2, <3>3, <3>4
  <2>3. CASE ~cache[s].isDeleting
    <3>1. /\ cache' = [cache EXCEPT ![s].state = "RELEASED"]
          /\ freeList' = Append(freeList, s)
      BY <1>3, <2>3 DEF ReleaseLocked
    <3> HIDE DEF s
    <3>2. status' = [status EXCEPT ![s] = "RELEASED"]
      BY <2>1, <3>1, StateSetEffect DEF BufferStates
    <3>3. s \notin ToSet(freeList)
      BY <1>s, <1>h DEF ListsOK, ConsumerStates
    <3>4. IsInjective(freeList') /\ ToSet(freeList') = ToSet(freeList) \cup {s}
      BY <1>s, <3>1, <3>3, AppendSet, AppendKeepsOnce DEF ListsOK, TypeOK, ListTypeOK
    <3>5. ListsOK' /\ FreshOK'
      BY <1>t, <1>p, <1>s, <1>r, <1>h, <2>1, <3>2, <3>4 DEF ListsOK, FreshOK, ConsumerStates
    <3>6. HandsOK'
      BY <1>t, <1>p, <1>s, <1>r, <2>1, <3>2 DEF HandsOK, ProducerStates, ConsumerStates
    <3>7. SlotsOK'
      BY <1>t, <1>p, <1>s, <1>r, <2>1, <3>2 DEF SlotsOK
    <3> QED
      BY <3>5, <3>6, <3>7
  <2> QED
    BY <2>2, <2>3
<1> QED
  BY <1>1, <1>2, <1>3 DEF ReleaseStep

LEMMA HolderOwned ==
    ASSUME TypeOK, ~isShared, Owned, NEW t \in Producers \cup Consumers, HolderCall(t)
    PROVE  Owned'
<1> USE DEF Owned
<1>t. /\ status \in [SeqNumbers -> BufferStates \cup {"outside"}]
      /\ flushing \in [Threads -> SUBSET SeqNumbers]
      /\ releasing \in [Threads -> SUBSET SeqNumbers]
      /\ producerHeld \subseteq SeqNumbers /\ consumerHeld \subseteq SeqNumbers
      /\ nextSequence \in Nat /\ SeqNumbers \subseteq Nat
  BY LedgerType
<1>p. t \in Threads /\ {"idle", "attachRelock"} \subseteq Awake
  BY DEF Threads, Awake
<1>1. ASSUME NEW s \in SeqNumbers, NEW config \in Configs, AttachBuffer(t, s, config)
      PROVE  Owned'
  <2>1. /\ status[s] = "outside" /\ status' = [status EXCEPT ![s] = "ATTACHED"]
        /\ UNCHANGED <<freeList, dirtyList, flushing, releasing>>
    BY <1>1, PutEffect, LedgerType, LedgerKept DEF AttachBuffer, Attachable
  <2>2. /\ nextSequence' \in Nat /\ nextSequence' >= nextSequence
        /\ s >= nextSequence => nextSequence' = s + 1 /\ s = nextSequence
    <3>1. s \in producerHeld \/ s \in consumerHeld \/ s = nextSequence
      BY <1>1 DEF AttachBuffer, Attachable, Holder
    <3>2. s >= nextSequence => s = nextSequence
      BY <3>1 DEF FreshOK
    <3>3. nextSequence' = IF s = nextSequence THEN s + 1 ELSE nextSequence
      BY <1>1 DEF AttachBuffer
    <3> QED
      BY <1>t, <3>2, <3>3
  <2>3. CASE /\ producerHeld' = producerHeld \cup {s} /\ UNCHANGED consumerHeld
             /\ s \in producerHeld \/ s = nextSequence
    <3>1. ListsOK' /\ FreshOK'
      BY <1>t, <2>1, <2>2, <2>3 DEF ListsOK, FreshOK
    <3>2. HandsOK'
      BY <1>t, <2>1, <2>3 DEF HandsOK, FreshOK, ProducerStates, ConsumerStates
    <3>3. SlotsOK'
      BY <1>t, <2>1, <2>3 DEF SlotsOK
    <3> QED
      BY <3>1, <3>2, <3>3
  <2>4. CASE /\ consumerHeld' = consumerHeld \cup {s} /\ UNCHANGED producerHeld
             /\ s \in consumerHeld \/ s = nextSequence
    <3>1. ListsOK' /\ FreshOK'
      BY <1>t, <2>1, <2>2, <2>4 DEF ListsOK, FreshOK
    <3>2. /\ s \notin producerHeld
          /\ \A u \in Threads : s \notin flushing[u] /\ s \notin releasing[u]
      BY <1>t, <2>4 DEF HandsOK, FreshOK
    <3>3. HandsOK'
      BY <1>t, <2>1, <2>4, <3>2 DEF HandsOK, ProducerStates, ConsumerStates
    <3>4. SlotsOK'
      BY <1>t, <2>1, <2>4 DEF SlotsOK
    <3> QED
      BY <3>1, <3>3, <3>4
  <2> QED
    BY <1>1, <2>3, <2>4 DEF AttachBuffer, Attachable, Holder, GiveToProducer
<1>2. ASSUME NEW s \in SeqNumbers, AttachToFullQueue(t, s)
      PROVE  Owned'
  <2>1. pc[t] \in Awake
    BY <1>2 DEF AttachToFullQueue, Idle, Awake
  <2>2. UNCHANGED <<flushing, releasing>>
    BY <1>2, <1>p, <2>1, HandsKept DEF AttachToFullQueue, Return, TypeOK
  <2> QED
    BY <1>2, <2>2, LedgerKept, QuietOwned
       DEF AttachToFullQueue, noBufferVars, bufferVars, clientVars
<1>3. ASSUME NEW s \in SeqNumbers, DetachBuffer(t, s)
      PROVE  Owned'
  <2>1. /\ UNCHANGED <<freeList, dirtyList, producerHeld, consumerHeld, nextSequence,
                       flushing, releasing>>
        /\ status' = [x \in SeqNumbers |-> IF x \in {s} THEN "outside" ELSE status[x]]
        /\ s \in DOMAIN cache /\ cache[s].state \in {"REQUESTED", "ACQUIRED"}
    BY <1>3, EraseEffect, LedgerKept DEF DetachBuffer, clientVars
  <2>2. status[s] \in {"REQUESTED", "ACQUIRED"}
    BY <2>1, LedgerType
  <2>3. ListsOK' /\ FreshOK'
    BY <1>t, <2>1, <2>2 DEF ListsOK, FreshOK
  <2>4. HandsOK' /\ SlotsOK'
    BY <1>t, <2>1 DEF HandsOK, SlotsOK, ProducerStates, ConsumerStates
  <2> QED
    BY <2>3, <2>4
<1> QED
  BY <1>1, <1>2, <1>3 DEF HolderCall

(* DeleteBuffers takes the first buffers of the two lists.                 *)
LEMMA DeleteEffect ==
    ASSUME TypeOK, ListsOK, NEW count \in Nat, DeleteBuffers(count)
    PROVE  \E n \in 0..Len(dirtyList) :
           \E gone \in SUBSET (ToSet(freeList) \cup ToSet(dirtyList)) :
             /\ status' = [x \in SeqNumbers |-> IF x \in gone THEN "outside" ELSE status[x]]
             /\ IsInjective(freeList') /\ ToSet(freeList') = ToSet(freeList) \ gone
             /\ IsInjective(dirtyList') /\ ToSet(dirtyList') = ToSet(dirtyList) \ gone
             /\ dirtyList' = SubSeq(dirtyList, n + 1, Len(dirtyList))
             /\ gone \cap ToSet(dirtyList) = ToSet(SubSeq(dirtyList, 1, n))
<1> DEFINE fromFree  == Lesser(count, Len(freeList))
           fromDirty == Lesser(count - fromFree, Len(dirtyList))
           popped  == SubSeq(freeList, 1, fromFree)
           shed    == SubSeq(dirtyList, 1, fromDirty)
           dropped == popped \o shed
           toMark  == count - fromFree - fromDirty
<1>1. /\ freeList' = SubSeq(freeList, fromFree + 1, Len(freeList))
      /\ dirtyList' = SubSeq(dirtyList, fromDirty + 1, Len(dirtyList))
      /\ cache' = MarkFirst(Erase(cache, ToSet(dropped)), toMark)
  BY DEF DeleteBuffers
<1>n. /\ freeList \in Seq(SeqNumbers) /\ dirtyList \in Seq(SeqNumbers)
      /\ Len(freeList) \in Nat /\ Len(dirtyList) \in Nat
  BY DEF TypeOK, ListTypeOK
<1>2. fromFree \in 0..Len(freeList) /\ count - fromFree \in Nat
  BY <1>n, LesserType
<1>3. fromDirty \in 0..Len(dirtyList)
  BY <1>n, <1>2, LesserType
<1> HIDE DEF fromFree, fromDirty
<1>4. popped \in Seq(SeqNumbers) /\ shed \in Seq(SeqNumbers)
  BY <1>n, <1>2, <1>3, DropFirstType
<1>5. /\ ToSet(freeList) = ToSet(popped) \cup ToSet(freeList')
      /\ ToSet(popped) \cap ToSet(freeList') = {} /\ IsInjective(freeList')
  BY <1>1, <1>2, <1>n, SplitSet, SplitInjective DEF ListsOK
<1>6. /\ ToSet(dirtyList) = ToSet(shed) \cup ToSet(dirtyList')
      /\ ToSet(shed) \cap ToSet(dirtyList') = {} /\ IsInjective(dirtyList')
  BY <1>1, <1>3, <1>n, SplitSet, SplitInjective DEF ListsOK
<1>s. shed = SubSeq(dirtyList, 1, fromDirty)
  OBVIOUS
<1> HIDE DEF popped, shed
<1>7. ToSet(dropped) = ToSet(popped) \cup ToSet(shed)
  BY <1>4, ConcatSet
<1> HIDE DEF dropped, toMark
<1>8. ToSet(freeList) \cap ToSet(dirtyList) = {}
  <2>1. ToSet(freeList) \subseteq SeqNumbers
    BY <1>n, ToSetMeans
  <2> QED
    BY <2>1 DEF ListsOK
<1>9. status' = [x \in SeqNumbers |-> IF x \in ToSet(dropped) THEN "outside" ELSE status[x]]
  BY <1>1, MarkEffect
<1>10. /\ ToSet(freeList') = ToSet(freeList) \ ToSet(dropped)
       /\ ToSet(dirtyList') = ToSet(dirtyList) \ ToSet(dropped)
       /\ ToSet(dropped) \cap ToSet(dirtyList) = ToSet(shed)
       /\ ToSet(dropped) \subseteq ToSet(freeList) \cup ToSet(dirtyList)
  BY <1>5, <1>6, <1>7, <1>8
<1> QED
  BY <1>1, <1>3, <1>5, <1>6, <1>9, <1>10, <1>s

(* Clearing empties the queue and both lists; what its users hold or are   *)
(* returning is a buffer the queue does not know.                          *)
LEMMA ClearOwned ==
    ASSUME TypeOK, Owned, ClearLocked,
           UNCHANGED <<flushing, releasing, producerHeld, consumerHeld, nextSequence>>
    PROVE  Owned'
<1> USE DEF Owned
<1>1. \A x \in SeqNumbers : status'[x] = "outside"
  <2>1. DOMAIN cache' = {}
    BY DEF ClearLocked, Erase
  <2> QED
    BY <2>1 DEF status
<1>2. freeList' = <<>> /\ dirtyList' = <<>>
  BY DEF ClearLocked
<1>3. IsInjective(<<>>) /\ ToSet(<<>>) = {}
  BY DEF IsInjective, ToSet
<1>4. ListsOK'
  BY <1>1, <1>2, <1>3 DEF ListsOK
<1>t. /\ status \in [SeqNumbers -> BufferStates \cup {"outside"}]
      /\ flushing \in [Threads -> SUBSET SeqNumbers]
      /\ releasing \in [Threads -> SUBSET SeqNumbers]
      /\ producerHeld \subseteq SeqNumbers /\ consumerHeld \subseteq SeqNumbers
      /\ nextSequence \in Nat /\ SeqNumbers \subseteq Nat
  BY LedgerType
<1>5. HandsOK'
  BY <1>t, <1>1 DEF HandsOK, ProducerStates, ConsumerStates
<1>6. FreshOK'
  BY <1>1 DEF FreshOK
<1>7. SlotsOK'
  BY <1>1 DEF SlotsOK
<1> QED
  BY <1>4, <1>5, <1>6, <1>7

LEMMA ManagerOwned ==
    ASSUME TypeOK, ~isShared, Owned, NEW m \in Threads, ManagerCall(m) \/ ManagerStep(m)
    PROVE  Owned'
<1> USE DEF Owned
<1>t. /\ status \in [SeqNumbers -> BufferStates \cup {"outside"}]
      /\ flushing \in [Threads -> SUBSET SeqNumbers]
      /\ releasing \in [Threads -> SUBSET SeqNumbers]
      /\ producerHeld \subseteq SeqNumbers /\ consumerHeld \subseteq SeqNumbers
      /\ nextSequence \in Nat /\ SeqNumbers \subseteq Nat
  BY LedgerType
<1>p. m \in Threads /\ {"idle", "setSizeWrite", "setStatus"} \subseteq Awake
  BY DEF Threads, Awake
<1>k. ASSUME pc[m] \in {"idle", "setSizeWrite", "setStatus"},
             \/ \E label \in {"idle", "setSizeWrite", "setStatus"} :
                  NotifyAllAndGoto(m, label) \/ \E a : Goto(m, label, a)
             \/ UNCHANGED threadVars
      PROVE  UNCHANGED <<flushing, releasing>>
  BY <1>k, <1>p, HandsKept, LedgerKept DEF TypeOK
<1>1. ASSUME NEW size \in 1..MaxQueueSize, SetQueueSize(m, size)
      PROVE  Owned'
  <2>1. /\ UNCHANGED <<flushing, releasing>>
        /\ UNCHANGED <<producerHeld, consumerHeld, nextSequence>>
    BY <1>1, <1>k DEF SetQueueSize, Idle, clientVars
  <2>2. CASE size < queueSize
    <3>1. queueSize - size \in Nat
      BY <2>2, QueueAssumption DEF TypeOK, StatusTypeOK
    <3>2. DeleteBuffers(queueSize - size)
      BY <1>1, <2>2 DEF SetQueueSize
    <3>3. PICK n \in 0..Len(dirtyList), gone \in SUBSET (ToSet(freeList) \cup ToSet(dirtyList)) :
             /\ status' = [x \in SeqNumbers |-> IF x \in gone THEN "outside" ELSE status[x]]
             /\ IsInjective(freeList') /\ ToSet(freeList') = ToSet(freeList) \ gone
             /\ IsInjective(dirtyList') /\ ToSet(dirtyList') = ToSet(dirtyList) \ gone
      BY <3>1, <3>2, DeleteEffect
    <3>4. \A x \in SeqNumbers : x \in gone => status[x] \in {"RELEASED", "FLUSHED"}
      BY DEF ListsOK
    <3>5. ListsOK'
      BY <1>t, <3>3, <3>4 DEF ListsOK
    <3>6. HandsOK'
      BY <1>t, <2>1, <3>3 DEF HandsOK, ProducerStates, ConsumerStates
    <3>7. FreshOK' /\ SlotsOK'
      BY <1>t, <2>1, <3>3 DEF FreshOK, SlotsOK
    <3> QED
      BY <3>5, <3>6, <3>7
  <2>3. CASE ~(size < queueSize)
    BY <1>1, <2>1, <2>3, LedgerKept, QuietOwned DEF SetQueueSize, bufferVars
  <2> QED
    BY <2>2, <2>3
<1>2. CASE SetQueueSizeWrite(m)
  <2>1. UNCHANGED <<flushing, releasing>>
    BY <1>2, <1>k DEF SetQueueSizeWrite, NotifyAllAndReturn, Return
  <2> QED
    BY <1>2, <2>1, LedgerKept, QuietOwned DEF SetQueueSizeWrite, bufferVars, clientVars
<1>3. CASE CleanCache(m) \/ GoBackground(m) \/ OnConsumerDied(m)
  <2>1. UNCHANGED <<flushing, releasing>>
    BY <1>3, <1>k DEF CleanCache, GoBackground, OnConsumerDied, NotifyAllAndReturn, Idle
  <2> QED
    BY <1>3, <2>1, ClearOwned DEF CleanCache, GoBackground, OnConsumerDied, clientVars
<1>4. CASE SetStatus(m)
  <2>1. UNCHANGED <<flushing, releasing>>
    BY <1>4, <1>k DEF SetStatus, NotifyAllAndReturn
  <2> QED
    BY <1>4, <2>1, LedgerKept, QuietOwned DEF SetStatus, bufferVars, clientVars
<1>5. CASE (\E on \in BOOLEAN : SetListener(m, on)) \/ SetProducerCacheCleanFlag(m)
  BY <1>5, LedgerKept, QuietOwned
     DEF SetListener, SetProducerCacheCleanFlag, bufferVars, clientVars
<1> QED
  BY <1>1, <1>2, <1>3, <1>4, <1>5 DEF ManagerCall, ManagerStep

(* Only the constructor sets isShared_.                                    *)
LEMMA SharedIsConstant == [Next]_vars => UNCHANGED isShared
<1> USE DEF statusVars, noBufferVars
<1>1. \A p \in Producers :
        ProducerCall(p) \/ InCall(p) \/ WaitTimeout(p) => UNCHANGED isShared
  BY DEF ProducerCall, RequestBuffer, CallRefused, vars, CancelBuffer, FlushBuffer, InCall,
         RequestStep, RequestLocked, RequestMustWait, WaitBlock, WaitAgain, RetryTakes,
         RetryFails, TakeBuffer, FlushStep, FlushHasListener, FlushCancels, DoFlushGone,
         DoFlushDeletes, DoFlushBuffer, FlushNotify, WaitTimeout
<1>2. \A c \in Consumers : ConsumerCall(c) \/ ReleaseStep(c) => UNCHANGED isShared
  BY DEF ConsumerCall, AcquireBuffer, ReleaseBuffer, ReleaseStep, ReleaseCallback, ReleaseGone,
         ReleaseLocked
<1>3. \A t \in Threads : HolderCall(t) => UNCHANGED isShared
  BY DEF HolderCall, AttachBuffer, AttachToFullQueue, DetachBuffer
<1>4. \A m \in Managers : ManagerCall(m) \/ ManagerStep(m) => UNCHANGED isShared
  BY DEF ManagerCall, ManagerStep, SetQueueSize, CleanCache, GoBackground, OnConsumerDied,
         SetListener, SetProducerCacheCleanFlag, SetQueueSizeWrite, SetStatus
<1> QED
  BY <1>1, <1>2, <1>3, <1>4 DEF Next, vars, Threads

LEMMA NextOwned == TypeOK /\ OwnershipInv /\ [Next]_vars => OwnershipInv'
<1> SUFFICES ASSUME TypeOK, OwnershipInv, [Next]_vars, ~isShared'
             PROVE  Owned'
  BY DEF OwnershipInv
<1>s. ~isShared /\ Owned
  BY SharedIsConstant DEF OwnershipInv
<1>1. CASE UNCHANGED vars
  BY <1>1, <1>s, LedgerKept, QuietOwned DEF vars, bufferVars, threadVars, clientVars
<1>2. ASSUME NEW p \in Producers,
             ProducerCall(p) \/ InCall(p) \/ WaitTimeout(p) \/ HolderCall(p)
      PROVE  Owned'
  BY <1>2, <1>s, RequestOwned, CancelOwned, FlushOwned, FlushStepOwned, HolderOwned
     DEF ProducerCall, InCall
<1>3. ASSUME NEW c \in Consumers, ConsumerCall(c) \/ ReleaseStep(c) \/ HolderCall(c)
      PROVE  Owned'
  BY <1>3, <1>s, ConsumerCallOwned, ReleaseStepOwned, HolderOwned
<1>4. ASSUME NEW m \in Managers, ManagerCall(m) \/ ManagerStep(m)
      PROVE  Owned'
  BY <1>4, <1>s, ManagerOwned DEF Threads
<1> QED
  BY <1>1, <1>2, <1>3, <1>4 DEF Next

LEMMA InitOwned == Init => OwnershipInv
<1> SUFFICES ASSUME Init PROVE Owned
  BY DEF OwnershipInv
<1>1. /\ \A x \in SeqNumbers : status[x] = "outside"
      /\ \A t \in Threads : flushing[t] = {} /\ releasing[t] = {}
      /\ producerHeld = {} /\ consumerHeld = {}
  BY DEF Init, status, flushing, releasing, FlushingPcs, ReleasePcs
<1>2. /\ freeList = <<>> /\ dirtyList = <<>>
      /\ IsInjective(<<>>) /\ ToSet(<<>>) = {}
  BY DEF Init, IsInjective, ToSet
<1> QED
  BY <1>1, <1>2 DEF Owned, ListsOK, HandsOK, FreshOK, SlotsOK

LEMMA OwnershipHolds == Spec => []OwnershipInv
<1>1. Init => OwnershipInv
  BY InitOwned
<1>2. TypeOK /\ OwnershipInv /\ [Next]_vars => OwnershipInv'
  BY NextOwned
<1> QED
  BY TypeCorrect, <1>1, <1>2, PTL DEF Spec

----------------------------------------------------------------------------
(* What the ledger says of the queue.                                      *)

LEMMA StatesAreStatus ==
    ASSUME TypeOK, NEW states \in SUBSET BufferStates, NEW s
    PROVE  s \in InState(states) <=> s \in SeqNumbers /\ status[s] \in states
<1>1. "outside" \notin states
  BY DEF BufferStates
<1> QED
  BY <1>1, LedgerType DEF InState

LEMMA HoldersAreHands ==
    ASSUME NEW s
    PROVE  /\ s \in WithProducer <=> s \in producerHeld \/ \E t \in Threads : s \in flushing[t]
           /\ s \in WithConsumer <=> s \in consumerHeld \/ \E t \in Threads : s \in releasing[t]
BY DEF WithProducer, WithConsumer, flushing, releasing

(* In every reachable state the free list is exactly the released buffers  *)
(* and the dirty list exactly the flushed ones, each once, with any number *)
(* of threads between the critical sections of FlushBuffer and             *)
(* ReleaseBuffer and whatever clears or resizes the queue meanwhile.       *)
THEOREM ListsCorrect == Spec => []ListsMatchStates
<1>1. TypeOK /\ OwnershipInv => ListsMatchStates
  <2> SUFFICES ASSUME TypeOK, ListsOK
               PROVE  /\ IsInjective(freeList) /\ ToSet(freeList) = InState({"RELEASED"})
                      /\ IsInjective(dirtyList) /\ ToSet(dirtyList) = InState({"FLUSHED"})
    BY DEF ListsMatchStates, OwnershipInv, Owned
  <2>1. ToSet(freeList) \subseteq SeqNumbers /\ ToSet(dirtyList) \subseteq SeqNumbers
    BY ToSetMeans DEF TypeOK, ListTypeOK
  <2>2. \A s : s \in InState({"RELEASED"}) <=> s \in SeqNumbers /\ status[s] = "RELEASED"
    BY StatesAreStatus DEF BufferStates
  <2>3. \A s : s \in InState({"FLUSHED"}) <=> s \in SeqNumbers /\ status[s] = "FLUSHED"
    BY StatesAreStatus DEF BufferStates
  <2> QED
    BY <2>1, <2>2, <2>3 DEF ListsOK
<1> QED
  BY <1>1, TypeCorrect, OwnershipHolds, PTL

(* In every reachable state no buffer is with both sides, no two           *)
(* unfinished calls are about one buffer, and a holder's buffer is in a    *)
(* state FlushBuffer or ReleaseBuffer accepts.                             *)
THEOREM HoldersCorrect == Spec => []ExclusiveHolders
<1>1. TypeOK /\ OwnershipInv => ExclusiveHolders
  <2> SUFFICES ASSUME TypeOK, ~isShared, HandsOK PROVE ExclusiveHolders
    BY DEF ExclusiveHolders, OwnershipInv, Owned
  <2>p. \A s \in WithProducer : s \in SeqNumbers /\ status[s] \in ProducerStates
    BY HoldersAreHands, LedgerType DEF HandsOK
  <2>c. \A s \in WithConsumer : s \in SeqNumbers /\ status[s] \in ConsumerStates
    BY HoldersAreHands, LedgerType DEF HandsOK
  <2>1. WithProducer \cap WithConsumer = {}
    <3>1. ASSUME NEW t \in Threads PROVE flushing[t] \cap releasing[t] = {}
      BY DEF flushing, releasing, FlushingPcs, ReleasePcs
    <3> QED
      BY <3>1, HoldersAreHands DEF HandsOK
  <2>2. WithProducer \cap DOMAIN cache \subseteq InState({"REQUESTED", "ATTACHED"})
    BY <2>p, LedgerType, StatesAreStatus DEF ProducerStates, BufferStates
  <2>3. WithConsumer \cap DOMAIN cache \subseteq InState({"ACQUIRED", "ATTACHED"})
    BY <2>c, LedgerType, StatesAreStatus DEF ConsumerStates, BufferStates
  <2>4. \A t \in Threads : pc[t] \in FlushingPcs \cup ReleasePcs
           => arg[t] \in flushing[t] \cup releasing[t]
    BY DEF flushing, releasing
  <2>5. \A t, u \in Threads :
           /\ t # u
           /\ pc[t] \in FlushingPcs \cup ReleasePcs
           /\ pc[u] \in FlushingPcs \cup ReleasePcs
           => arg[t] # arg[u]
    BY <2>4 DEF HandsOK
  <2>6. \A t \in Threads : pc[t] \in FlushingPcs \cup ReleasePcs
           => arg[t] \notin producerHeld \cup consumerHeld
    BY <2>4 DEF HandsOK
  <2> QED
    BY <2>1, <2>2, <2>3, <2>5, <2>6 DEF ExclusiveHolders
<1> QED
  BY <1>1, TypeCorrect, OwnershipHolds, PTL

(* When onBufferRelease does not answer GSERROR_OK, no slot is ever lost:  *)
(* a requested, acquired or attached buffer has a holder, or a call of its *)
(* holder's is at work on it.                                              *)
THEOREM SlotsCorrect ==
    ASSUME "ok" \notin ReleaseResults
    PROVE  Spec => []NoSlotLost
<1>1. TypeOK /\ OwnershipInv => NoSlotLost
  <2> SUFFICES ASSUME TypeOK, SlotsOK
               PROVE  /\ InState({"REQUESTED"}) \subseteq WithProducer
                      /\ InState({"ACQUIRED"}) \subseteq WithConsumer
                      /\ InState({"ATTACHED"}) \subseteq WithProducer \cup WithConsumer
    BY DEF NoSlotLost, OwnershipInv, Owned
  <2>1. \A state \in {"REQUESTED", "ACQUIRED", "ATTACHED"} : \A s :
           s \in InState({state}) => s \in SeqNumbers /\ status[s] = state
    BY StatesAreStatus DEF BufferStates
  <2> QED
    BY <2>1, HoldersAreHands DEF SlotsOK
<1> QED
  BY <1>1, TypeCorrect, OwnershipHolds, PTL

----------------------------------------------------------------------------
(* What the steps of the queue may do: the queue implements the lifecycle  *)
(* of BufferLifecycle, a buffer that a client has stays in the queue, and  *)
(* a shared queue keeps its one buffer.                                    *)
(*                                                                         *)
(* An ordinary queue's actions are treated once, by what they do to the    *)
(* ledger: each maps to an action of the lifecycle or to a stutter, and    *)
(* takes out of the queue no buffer that is held.                          *)

(* The refinement mapping, by a buffer's status.                           *)
placed == [s \in SeqNumbers |->
             IF s \in DOMAIN cache THEN PlaceOf(cache[s].state) ELSE "outside"]
Where(x) == IF x = "outside" THEN "outside" ELSE PlaceOf(x)

Abstract == [Lifecycle!Next]_<<placed, dirtyList>>

(* The conclusion of HeldBuffersStay.                                      *)
Kept ==
    \A s \in DOMAIN cache \ DOMAIN cache' :
        \/ s \notin producerHeld \cup consumerHeld
        \/ DOMAIN cache' = {}
        \/ cache' = Erase(cache, {s}) /\ pc' = pc

LEMMA WhereIs ==
    /\ Where("outside") = "outside" /\ Where("RELEASED") = "free"
    /\ Where("REQUESTED") = "producer" /\ Where("FLUSHED") = "queued"
    /\ Where("ACQUIRED") = "consumer" /\ Where("ATTACHED") = "attached"
BY DEF Where, PlaceOf

LEMMA PlacedIsWhere ==
    TypeOK => /\ placed = [s \in SeqNumbers |-> Where(status[s])]
              /\ Lifecycle!Inside = DOMAIN cache
<1> SUFFICES ASSUME TypeOK PROVE placed = [s \in SeqNumbers |-> Where(status[s])]
                                 /\ Lifecycle!Inside = DOMAIN cache
  OBVIOUS
<1>1. \A s \in DOMAIN cache : cache[s].state \in BufferStates /\ cache[s].state # "outside"
  BY DEF TypeOK, CacheTypeOK, BufferElement, BufferStates
<1>2. placed = [s \in SeqNumbers |-> Where(status[s])]
  BY <1>1 DEF placed, status, Where
<1>3. \A s \in DOMAIN cache : s \in SeqNumbers /\ PlaceOf(cache[s].state) # "outside"
  BY <1>1, WhereIs DEF TypeOK, CacheTypeOK, Where, BufferStates
<1>4. Lifecycle!Inside = DOMAIN cache
  BY <1>3 DEF Lifecycle!Inside, Lifecycle!At, TypeOK, CacheTypeOK
<1> QED
  BY <1>2, <1>4

LEMMA PlacedNext == TypeOK' => placed' = [s \in SeqNumbers |-> Where(status'[s])]
<1> DEFINE Mapped == placed = [s \in SeqNumbers |-> Where(status[s])]
<1>1. TypeOK => Mapped
  BY PlacedIsWhere
<1> HIDE DEF Mapped
<1>2. TypeOK' => Mapped'
  BY <1>1, PTL
<1> QED
  BY <1>2 DEF Mapped, Where

(* Cardinality and ToSet of the instance are those of the libraries.       *)
LEMMA SameCardinality == \A S : Lifecycle!Cardinality(S) = Cardinality(S)
BY DEF Lifecycle!Cardinality, Cardinality

LEMMA SameToSet == \A list : Lifecycle!ToSet(list) = ToSet(list)
BY DEF Lifecycle!ToSet, ToSet

(* A step that changes one buffer's status ...                             *)
LEMMA PlacedSet ==
    ASSUME TypeOK, TypeOK', NEW s \in SeqNumbers, NEW x, status' = [status EXCEPT ![s] = x]
    PROVE  placed' = [b \in SeqNumbers |-> IF b \in {s} THEN Where(x) ELSE placed[b]]
<1>1. \A b \in SeqNumbers : status'[b] = IF b = s THEN x ELSE status[b]
  BY DEF status
<1> QED
  BY <1>1, PlacedIsWhere, PlacedNext

(* ... and a step that takes some out.                                     *)
LEMMA PlacedGone ==
    ASSUME TypeOK, TypeOK', NEW gone,
           status' = [s \in SeqNumbers |-> IF s \in gone THEN "outside" ELSE status[s]]
    PROVE  placed' = [b \in SeqNumbers |-> IF b \in gone THEN "outside" ELSE placed[b]]
<1>1. \A b \in SeqNumbers : status'[b] = IF b \in gone THEN "outside" ELSE status[b]
  OBVIOUS
<1> QED
  BY <1>1, PlacedIsWhere, PlacedNext, WhereIs

LEMMA QuietStepOK ==
    ASSUME UNCHANGED cache, UNCHANGED dirtyList
    PROVE  Abstract /\ Kept
BY DEF Abstract, Kept, placed

(* The queue loses nothing, or only buffers that nobody holds.             *)
LEMMA KeptByStatus ==
    ASSUME TypeOK,
           \A s \in SeqNumbers : status[s] # "outside" /\ status'[s] = "outside"
               => s \notin producerHeld \cup consumerHeld
    PROVE  Kept
<1>1. \A s \in DOMAIN cache : s \in SeqNumbers /\ status[s] # "outside"
  BY LedgerType
<1>2. \A s \in SeqNumbers : s \notin DOMAIN cache' => status'[s] = "outside"
  BY DEF status
<1> QED
  BY <1>1, <1>2 DEF Kept

----------------------------------------------------------------------------
(* The actions of the lifecycle, by status.                                *)

LEMMA AbstractOne ==
    ASSUME NEW b \in SeqNumbers,
           \/ Lifecycle!GiveFree(b) \/ Lifecycle!GiveNew(b)
           \/ \E old \in SeqNumbers : Lifecycle!Replace(b, old)
           \/ Lifecycle!Cancel(b) \/ Lifecycle!Flush(b) \/ Lifecycle!Release(b)
           \/ Lifecycle!Attach(b) \/ Lifecycle!Leave(b)
    PROVE  Abstract
BY DEF Abstract, Lifecycle!Next, placed

LEMMA AbstractAll ==
    ASSUME Lifecycle!Acquire \/ Lifecycle!Clear \/ \E n \in 0..Len(dirtyList) : Lifecycle!Drop(n)
    PROVE  Abstract
BY DEF Abstract, Lifecycle!Next, placed

(* One buffer changes its status, and no frame is queued or dequeued.      *)
LEMMA SetStep ==
    ASSUME TypeOK, TypeOK', NEW s \in SeqNumbers, NEW x,
           status' = [status EXCEPT ![s] = x], UNCHANGED dirtyList,
           \/ status[s] = "RELEASED" /\ x = "REQUESTED"
           \/ status[s] = "REQUESTED" /\ x = "RELEASED"
           \/ status[s] \in {"ACQUIRED", "ATTACHED"} /\ x = "RELEASED"
           \/ status[s] = "outside" /\ x \in {"REQUESTED", "ATTACHED"}
                /\ Cardinality(DOMAIN cache) < MaxQueueSize
    PROVE  Abstract /\ Kept
<1>1. placed' = [b \in SeqNumbers |-> IF b \in {s} THEN Where(x) ELSE placed[b]]
  BY PlacedSet
<1>2. placed[s] = Where(status[s]) /\ Lifecycle!Inside = DOMAIN cache
  BY PlacedIsWhere
<1>3. \/ Lifecycle!GiveFree(s) \/ Lifecycle!Cancel(s) \/ Lifecycle!Release(s)
      \/ Lifecycle!GiveNew(s) \/ Lifecycle!Attach(s)
  <2> DEFINE goes(place) == Lifecycle!Move({s}, place)
  <2>1. goes(Where(x))
    BY <1>1 DEF Lifecycle!Move, placed
  <2>2. placed[s] = Where(status[s]) /\ UNCHANGED dirtyList
    BY <1>2
  <2> HIDE DEF goes
  <2>3. CASE status[s] = "RELEASED" /\ x = "REQUESTED"
    BY <2>1, <2>2, <2>3, WhereIs DEF Lifecycle!GiveFree, placed, goes
  <2>4. CASE status[s] = "REQUESTED" /\ x = "RELEASED"
    BY <2>1, <2>2, <2>4, WhereIs DEF Lifecycle!Cancel, placed, goes
  <2>5. CASE status[s] \in {"ACQUIRED", "ATTACHED"} /\ x = "RELEASED"
    BY <2>1, <2>2, <2>5, WhereIs DEF Lifecycle!Release, placed, goes
  <2>6. CASE status[s] = "outside" /\ x \in {"REQUESTED", "ATTACHED"}
               /\ Cardinality(DOMAIN cache) < MaxQueueSize
    BY <1>2, <2>1, <2>2, <2>6, WhereIs, SameCardinality DEF Lifecycle!GiveNew, Lifecycle!Attach, placed, goes
  <2> QED
    BY <2>3, <2>4, <2>5, <2>6
<1>4. Abstract
  BY <1>3, AbstractOne
<1>5. \A b \in SeqNumbers : status[b] # "outside" => status'[b] # "outside"
  BY DEF status
<1> QED
  BY <1>4, <1>5, KeptByStatus

(* One buffer leaves the queue.                                            *)
LEMMA LeaveStep ==
    ASSUME TypeOK, TypeOK', NEW s \in SeqNumbers,
           status' = [x \in SeqNumbers |-> IF x \in {s} THEN "outside" ELSE status[x]],
           UNCHANGED dirtyList, status[s] \in BufferStates \ {"FLUSHED"}
    PROVE  /\ Abstract
           /\ s \notin producerHeld \cup consumerHeld => Kept
<1>1. placed' = [b \in SeqNumbers |-> IF b \in {s} THEN "outside" ELSE placed[b]]
  BY PlacedGone
<1>2. placed[s] \in {"free", "producer", "consumer", "attached"}
  BY PlacedIsWhere, WhereIs DEF BufferStates
<1>3. Lifecycle!Leave(s)
  BY <1>1, <1>2 DEF Lifecycle!Leave, Lifecycle!Move, placed
<1>4. \A x \in SeqNumbers : x # s => status'[x] = status[x]
  OBVIOUS
<1> QED
  BY <1>3, <1>4, AbstractOne, KeptByStatus

(* One buffer becomes the last frame.                                      *)
LEMMA QueueStep ==
    ASSUME TypeOK, TypeOK', NEW s \in SeqNumbers, status[s] \in {"REQUESTED", "ATTACHED"},
           status' = [status EXCEPT ![s] = "FLUSHED"], dirtyList' = Append(dirtyList, s)
    PROVE  Abstract /\ Kept
<1>0. placed' = [b \in SeqNumbers |-> IF b \in {s} THEN Where("FLUSHED") ELSE placed[b]]
  BY PlacedSet
<1>1. placed' = [b \in SeqNumbers |-> IF b \in {s} THEN "queued" ELSE placed[b]]
  BY <1>0, WhereIs
<1>2. placed[s] \in {"producer", "attached"}
  BY PlacedIsWhere, WhereIs
<1>3. Lifecycle!Flush(s)
  BY <1>1, <1>2 DEF Lifecycle!Flush, Lifecycle!Move, placed
<1>4. \A x \in SeqNumbers : status[x] # "outside" => status'[x] # "outside"
  BY DEF status
<1> QED
  BY <1>3, <1>4, AbstractOne, KeptByStatus

LEMMA ReplaceStep ==
    ASSUME TypeOK, TypeOK', NEW old \in SeqNumbers, NEW s \in SeqNumbers, s # old,
           status' = [status EXCEPT ![old] = "outside", ![s] = "REQUESTED"],
           UNCHANGED dirtyList, status[old] = "RELEASED", status[s] = "outside",
           old \notin producerHeld \cup consumerHeld
    PROVE  Abstract /\ Kept
<1>1. \A x \in SeqNumbers : status'[x] = IF x = s THEN "REQUESTED"
                                         ELSE IF x = old THEN "outside" ELSE status[x]
  BY DEF status
<1>p. \A x \in SeqNumbers : placed[x] = Where(status[x]) /\ placed'[x] = Where(status'[x])
  BY PlacedIsWhere, PlacedNext
<1>q. \A x \in SeqNumbers : placed'[x] = IF x = s THEN "producer"
                                         ELSE IF x = old THEN "outside" ELSE placed[x]
  <2> SUFFICES ASSUME NEW x \in SeqNumbers
               PROVE  placed'[x] = IF x = s THEN "producer"
                                   ELSE IF x = old THEN "outside" ELSE placed[x]
    OBVIOUS
  <2>1. placed[x] = Where(status[x]) /\ placed'[x] = Where(status'[x])
    BY <1>p
  <2>2. status'[x] = IF x = s THEN "REQUESTED" ELSE IF x = old THEN "outside" ELSE status[x]
    BY <1>1
  <2>3. CASE x = s
    BY <2>1, <2>2, <2>3, WhereIs
  <2>4. CASE x = old
    BY <2>1, <2>2, <2>4, WhereIs
  <2>5. CASE x # s /\ x # old
    BY <2>1, <2>2, <2>5
  <2> QED
    BY <2>3, <2>4, <2>5
<1>2. /\ placed[s] = "outside" /\ placed[old] = "free"
      /\ placed' = [x \in SeqNumbers |-> IF x = s THEN "producer"
                                         ELSE IF x = old THEN "outside" ELSE placed[x]]
  BY <1>p, <1>q, WhereIs DEF placed
<1>3. placed' = [placed EXCEPT ![s] = "producer", ![old] = "outside"]
  BY <1>2 DEF placed
<1>4. Lifecycle!Replace(s, old)
  BY <1>2, <1>3 DEF Lifecycle!Replace, placed
<1>5. \A x \in SeqNumbers : status[x] # "outside" /\ status'[x] = "outside" => x = old
  BY <1>1
<1> QED
  BY <1>4, <1>5, AbstractOne, KeptByStatus

----------------------------------------------------------------------------
(* Every action of an ordinary queue.                                      *)

LEMMA ListedIsUnheld ==
    ASSUME Owned, NEW s \in SeqNumbers, status[s] \in {"RELEASED", "FLUSHED"}
    PROVE  s \notin producerHeld \cup consumerHeld
BY DEF Owned, HandsOK, ProducerStates, ConsumerStates

LEMMA RoomIsCapacity ==
    ASSUME TypeOK, HasRoom
    PROVE  Cardinality(DOMAIN cache) < MaxQueueSize
<1>1. IsFiniteSet(SeqNumbers)
  BY FS_Interval, QueueAssumption DEF SeqNumbers
<1>2. IsFiniteSet(DOMAIN cache)
  BY <1>1, FS_Subset DEF TypeOK, CacheTypeOK
<1>3. Cardinality(DOMAIN cache) \in Nat
  BY <1>2, FS_CardinalityType
<1> QED
  BY <1>3, QueueAssumption DEF HasRoom, UsedSize, TypeOK, StatusTypeOK

LEMMA TakeStepOK ==
    ASSUME TypeOK, TypeOK', ~isShared, Owned, NEW p \in Producers, TakeBuffer(p)
    PROVE  Abstract /\ Kept
<1>0. ~SharedHit /\ UNCHANGED dirtyList
  BY DEF SharedHit, TakeBuffer
<1>1. ASSUME NEW i \in DOMAIN freeList, ReuseBuffer(p, freeList[i])
      PROVE  Abstract /\ Kept
  <2> DEFINE s == freeList[i]
  <2>1. s \in SeqNumbers /\ s \in ToSet(freeList)
    BY ToSetMeans DEF TypeOK, ListTypeOK
  <2>2. status[s] = "RELEASED" /\ s \notin producerHeld \cup consumerHeld
    BY <2>1, ListedIsUnheld DEF Owned, ListsOK
  <2>3. s \in DOMAIN cache
    BY <2>1, <2>2, LedgerType
  <2> HIDE DEF s
  <2>4. CASE ReuseSameConfig(p, s)
    <3>1. status' = [status EXCEPT ![s] = "REQUESTED"]
      BY <2>3, <2>4, StateSetEffect DEF ReuseSameConfig, BufferStates
    <3> QED
      BY <1>0, <2>1, <2>2, <3>1, SetStep
  <2>5. CASE ReuseRealloc(p, s)
    <3>1. nextSequence \in SeqNumbers /\ status[nextSequence] = "outside"
      BY <2>5, LedgerType
         DEF ReuseRealloc, CanAlloc, SeqNumbers, Owned, FreshOK, TypeOK, StatusTypeOK
    <3>2. status' = [status EXCEPT ![s] = "outside", ![nextSequence] = "REQUESTED"]
      BY <2>1, <2>2, <2>5, <3>1, ReplaceEffect DEF ReuseRealloc
    <3> QED
      BY <1>0, <2>1, <2>2, <3>1, <3>2, ReplaceStep
  <2>6. CASE ReuseReallocFails(p, s)
    <3>1. status' = [x \in SeqNumbers |-> IF x \in {s} THEN "outside" ELSE status[x]]
      BY <2>6, EraseEffect DEF ReuseReallocFails
    <3> QED
      BY <1>0, <2>1, <2>2, <3>1, LeaveStep DEF BufferStates
  <2> QED
    BY <1>1, <2>4, <2>5, <2>6 DEF ReuseBuffer, ReuseRefused, s
<1>2. CASE HasRoom /\ AllocBuffer(p)
  <2>1. CASE CanAlloc /\ cache' = Put(cache, nextSequence, NewElement("REQUESTED", arg[p]))
    <3>1. nextSequence \in SeqNumbers /\ status[nextSequence] = "outside"
      BY <2>1, LedgerType DEF CanAlloc, SeqNumbers, Owned, FreshOK, TypeOK, StatusTypeOK
    <3>2. status' = [status EXCEPT ![nextSequence] = "REQUESTED"]
      BY <2>1, <3>1, PutEffect
    <3> QED
      BY <1>0, <1>2, <3>1, <3>2, RoomIsCapacity, SetStep
  <2>2. CASE UNCHANGED cache
    BY <1>0, <2>2, QuietStepOK
  <2> QED
    BY <1>2, <2>1, <2>2 DEF AllocBuffer
<1> QED
  BY <1>0, <1>1, <1>2 DEF TakeBuffer, PopAndReuse

LEMMA CancelStepOK ==
    ASSUME TypeOK, TypeOK', NEW s \in SeqNumbers, Requested(s), CancelLocked(s)
    PROVE  Abstract /\ Kept
<1>1. s \in DOMAIN cache /\ status[s] = "REQUESTED"
  BY LedgerType DEF Requested
<1>2. status' = [status EXCEPT ![s] = "RELEASED"] /\ UNCHANGED dirtyList
  BY <1>1, StateSetEffect DEF CancelLocked, BufferStates
<1> QED
  BY <1>1, <1>2, SetStep

LEMMA ProducerStepOK ==
    ASSUME TypeOK, TypeOK', ~isShared, Owned, NEW p \in Producers,
           ProducerCall(p) \/ InCall(p) \/ WaitTimeout(p)
    PROVE  Abstract /\ Kept
<1> USE DEF noBufferVars, bufferVars
<1>p. p \in Threads
  BY DEF Threads
<1>1. CASE \/ \E config \in Configs : RequestBuffer(p, config)
           \/ CallRefused(p) \/ \E s \in SeqNumbers : FlushBuffer(p, s)
           \/ RequestMustWait(p) \/ WaitBlock(p) \/ WaitAgain(p) \/ RetryFails(p)
           \/ FlushHasListener(p) \/ DoFlushGone(p) \/ FlushNotify(p) \/ WaitTimeout(p)
  <2>1. UNCHANGED cache /\ UNCHANGED dirtyList
    BY <1>1 DEF RequestBuffer, CallRefused, vars, FlushBuffer, RequestMustWait, WaitBlock,
                WaitAgain, RetryFails, FlushHasListener, DoFlushGone, FlushNotify, WaitTimeout
  <2> QED
    BY <2>1, QuietStepOK
<1>2. CASE RequestLocked(p) \/ RetryTakes(p)
  BY <1>2, TakeStepOK DEF RequestLocked, RetryTakes
<1>3. ASSUME NEW s \in SeqNumbers, CancelBuffer(p, s)
      PROVE  Abstract /\ Kept
  BY <1>3, CancelStepOK DEF CancelBuffer
<1> DEFINE s == arg[p]
<1>s. ASSUME pc[p] \in FlushingPcs
      PROVE  /\ s \in SeqNumbers /\ status[s] \in ProducerStates
             /\ s \notin producerHeld \cup consumerHeld
  <2>1. s \in SeqNumbers /\ s \in flushing[p]
    BY <1>p, <1>s DEF flushing, TypeOK, ThreadTypeOK, ArgOK, FlushingPcs, FlushPcs
  <2> QED
    BY <1>p, <2>1 DEF Owned, HandsOK
<1> HIDE DEF s
<1>4. CASE FlushCancels(p)
  <2>1. CASE Requested(s)
    BY <1>4, <1>s, <2>1, CancelStepOK DEF FlushCancels, FlushingPcs, s
  <2>2. CASE ~Requested(s)
    BY <1>4, <2>2, QuietStepOK DEF FlushCancels, s
  <2> QED
    BY <2>1, <2>2
<1>5. CASE DoFlushDeletes(p)
  <2>1. /\ s \in DOMAIN cache /\ pc[p] \in FlushingPcs /\ UNCHANGED dirtyList
        /\ status' = [x \in SeqNumbers |-> IF x \in {s} THEN "outside" ELSE status[x]]
    BY <1>5, EraseEffect DEF DoFlushDeletes, FlushingPcs, s
  <2>2. status[s] \in BufferStates \ {"FLUSHED"}
    BY <1>s, <2>1, LedgerType DEF ProducerStates, BufferStates
  <2> QED
    BY <1>s, <2>1, <2>2, LeaveStep
<1>6. CASE DoFlushBuffer(p)
  <2>1. /\ s \in DOMAIN cache /\ s \in SeqNumbers /\ status[s] \in ProducerStates
        /\ dirtyList' = Append(dirtyList, s)
    BY <1>6, <1>s DEF DoFlushBuffer, FlushingPcs, s
  <2>2. status' = [status EXCEPT ![s] = "FLUSHED"]
    BY <1>6, <2>1, StateSetEffect DEF DoFlushBuffer, BufferStates, s
  <2>3. status[s] \in {"REQUESTED", "ATTACHED"}
    BY <2>1, LedgerType DEF ProducerStates
  <2> QED
    BY <2>1, <2>2, <2>3, QueueStep
<1> QED
  BY <1>1, <1>2, <1>3, <1>4, <1>5, <1>6
     DEF ProducerCall, InCall, RequestStep, FlushStep

LEMMA ConsumerStepOK ==
    ASSUME TypeOK, TypeOK', ~isShared, Owned, NEW c \in Consumers,
           ConsumerCall(c) \/ ReleaseStep(c)
    PROVE  Abstract /\ Kept
<1> USE DEF noBufferVars, bufferVars
<1>p. c \in Threads
  BY DEF Threads
<1>1. CASE (\E s \in SeqNumbers : ReleaseBuffer(c, s)) \/ ReleaseCallback(c) \/ ReleaseGone(c)
  <2>1. UNCHANGED cache /\ UNCHANGED dirtyList
    BY <1>1 DEF ReleaseBuffer, ReleaseCallback, ReleaseGone
  <2> QED
    BY <2>1, QuietStepOK
<1>2. CASE AcquireBuffer(c)
  <2>1. CASE dirtyList = <<>>
    BY <1>2, <2>1, QuietStepOK DEF AcquireBuffer, SharedHit
  <2>2. CASE dirtyList # <<>>
    <3> DEFINE s == Head(dirtyList)
    <3>1. /\ s \in SeqNumbers /\ status' = [status EXCEPT ![s] = "ACQUIRED"]
          /\ dirtyList' = Tail(dirtyList)
      BY <1>2, <2>2, AcquireEffect
    <3> HIDE DEF s
    <3>2. placed' = [b \in SeqNumbers |-> IF b \in {s} THEN "consumer" ELSE placed[b]]
      BY <3>1, PlacedSet, WhereIs
    <3>3. Lifecycle!Acquire
      BY <2>2, <3>1, <3>2 DEF Lifecycle!Acquire, Lifecycle!Move, placed, s
    <3>4. \A x \in SeqNumbers : status[x] # "outside" => status'[x] # "outside"
      BY <3>1 DEF status
    <3> QED
      BY <3>3, <3>4, AbstractAll, KeptByStatus
  <2> QED
    BY <2>1, <2>2
<1>3. CASE ReleaseLocked(c)
  <2> DEFINE s == arg[c]
  <2>1. s \in SeqNumbers /\ s \in releasing[c] /\ s \in DOMAIN cache /\ UNCHANGED dirtyList
    BY <1>3, <1>p DEF ReleaseLocked, releasing, TypeOK, ThreadTypeOK, ArgOK, ReleasePcs
  <2>2. status[s] \in ConsumerStates /\ s \notin producerHeld \cup consumerHeld
    BY <1>p, <2>1 DEF Owned, HandsOK
  <2>3. status[s] \in {"ACQUIRED", "ATTACHED"}
    BY <2>1, <2>2, LedgerType DEF ConsumerStates
  <2> HIDE DEF s
  <2>4. CASE cache[s].isDeleting
    <3>1. status' = [x \in SeqNumbers |-> IF x \in {s} THEN "outside" ELSE status[x]]
      BY <1>3, <2>4, EraseEffect DEF ReleaseLocked, s
    <3> QED
      BY <2>1, <2>2, <2>3, <3>1, LeaveStep DEF BufferStates
  <2>5. CASE ~cache[s].isDeleting
    <3>1. status' = [status EXCEPT ![s] = "RELEASED"]
      BY <1>3, <2>1, <2>5, StateSetEffect DEF ReleaseLocked, BufferStates, s
    <3> QED
      BY <2>1, <2>3, <3>1, SetStep
  <2> QED
    BY <2>4, <2>5
<1> QED
  BY <1>1, <1>2, <1>3 DEF ConsumerCall, ReleaseStep

LEMMA HolderStepOK ==
    ASSUME TypeOK, TypeOK', NEW t, HolderCall(t)
    PROVE  Abstract /\ Kept
<1>1. ASSUME NEW s \in SeqNumbers, NEW config \in Configs, AttachBuffer(t, s, config)
      PROVE  Abstract /\ Kept
  <2>1. status[s] = "outside" /\ HasRoom /\ UNCHANGED dirtyList
    BY <1>1 DEF AttachBuffer, Attachable, status
  <2>2. status' = [status EXCEPT ![s] = "ATTACHED"]
    BY <1>1, PutEffect DEF AttachBuffer
  <2> QED
    BY <2>1, <2>2, RoomIsCapacity, SetStep
<1>2. ASSUME NEW s \in SeqNumbers, AttachToFullQueue(t, s)
      PROVE  Abstract /\ Kept
  BY <1>2, QuietStepOK DEF AttachToFullQueue, noBufferVars, bufferVars
<1>3. ASSUME NEW s \in SeqNumbers, DetachBuffer(t, s)
      PROVE  Abstract /\ Kept
  <2>1. /\ s \in DOMAIN cache /\ cache[s].state \in {"REQUESTED", "ACQUIRED"}
        /\ cache' = Erase(cache, {s}) /\ pc' = pc /\ UNCHANGED dirtyList
    BY <1>3 DEF DetachBuffer, threadVars
  <2>2. status' = [x \in SeqNumbers |-> IF x \in {s} THEN "outside" ELSE status[x]]
    BY <2>1, EraseEffect
  <2>3. Abstract
    BY <2>1, <2>2, LedgerType, LeaveStep DEF BufferStates
  <2>4. DOMAIN cache \ DOMAIN cache' = {s}
    BY <2>1 DEF Erase
  <2> QED
    BY <2>1, <2>3, <2>4 DEF Kept
<1> QED
  BY <1>1, <1>2, <1>3 DEF HolderCall

LEMMA ManagerStepOK ==
    ASSUME TypeOK, TypeOK', Owned, NEW m \in Managers, ManagerCall(m) \/ ManagerStep(m)
    PROVE  Abstract /\ Kept
<1>1. ASSUME NEW size \in 1..MaxQueueSize, SetQueueSize(m, size), size < queueSize
      PROVE  Abstract /\ Kept
  <2>1. queueSize - size \in Nat /\ DeleteBuffers(queueSize - size)
    BY <1>1, QueueAssumption DEF SetQueueSize, TypeOK, StatusTypeOK
  <2>2. PICK n \in 0..Len(dirtyList), gone \in SUBSET (ToSet(freeList) \cup ToSet(dirtyList)) :
          /\ status' = [x \in SeqNumbers |-> IF x \in gone THEN "outside" ELSE status[x]]
          /\ dirtyList' = SubSeq(dirtyList, n + 1, Len(dirtyList))
          /\ gone \cap ToSet(dirtyList) = ToSet(SubSeq(dirtyList, 1, n))
    BY <2>1, DeleteEffect DEF Owned
  <2>3. \A x \in SeqNumbers : x \in gone => x \notin producerHeld \cup consumerHeld
    BY ListedIsUnheld DEF Owned, ListsOK
  <2>4. Kept
    <3>1. \A x \in SeqNumbers : status[x] # "outside" /\ status'[x] = "outside" => x \in gone
      BY <2>2
    <3> QED
      BY <2>3, <3>1, KeptByStatus
  <2>5. placed' = [b \in SeqNumbers |-> IF b \in gone THEN "outside" ELSE placed[b]]
    BY <2>2, PlacedGone
  <2>6. ToSet(freeList) \subseteq Lifecycle!At("free")
    <3>1. \A x \in ToSet(freeList) : x \in SeqNumbers /\ status[x] = "RELEASED"
      BY ToSetMeans DEF TypeOK, ListTypeOK, Owned, ListsOK
    <3>2. \A x \in ToSet(freeList) : placed[x] = "free"
      BY <3>1, PlacedIsWhere, WhereIs
    <3> QED
      BY <3>1, <3>2 DEF Lifecycle!At, placed
  <2>7. Lifecycle!Drop(n)
    <3> DEFINE unused == gone \cap ToSet(freeList)
    <3>1. /\ unused \in SUBSET Lifecycle!At("free")
          /\ gone = unused \cup Lifecycle!ToSet(SubSeq(dirtyList, 1, n))
      BY <2>2, <2>6, SameToSet
    <3> HIDE DEF unused
    <3>2. Lifecycle!Move(unused \cup Lifecycle!ToSet(SubSeq(dirtyList, 1, n)), "outside")
      BY <2>5, <3>1 DEF Lifecycle!Move, placed
    <3> QED
      BY <2>2, <3>1, <3>2 DEF Lifecycle!Drop
  <2> QED
    BY <2>4, <2>7, AbstractAll
<1>2. CASE CleanCache(m) \/ GoBackground(m) \/ OnConsumerDied(m)
  <2>1. ClearLocked
    BY <1>2 DEF CleanCache, GoBackground, OnConsumerDied
  <2>2. DOMAIN cache' = {} /\ dirtyList' = <<>>
    BY <2>1 DEF ClearLocked, Erase
  <2>3. Lifecycle!Clear
    BY <2>2 DEF Lifecycle!Clear, Lifecycle!Move, placed
  <2> QED
    BY <2>2, <2>3, AbstractAll DEF Kept
<1>3. CASE \/ \E size \in 1..MaxQueueSize : SetQueueSize(m, size) /\ ~(size < queueSize)
           \/ SetQueueSizeWrite(m) \/ SetStatus(m)
           \/ (\E on \in BOOLEAN : SetListener(m, on)) \/ SetProducerCacheCleanFlag(m)
  <2>1. UNCHANGED cache /\ UNCHANGED dirtyList
    BY <1>3 DEF SetQueueSize, SetQueueSizeWrite, SetStatus, SetListener,
                SetProducerCacheCleanFlag, bufferVars
  <2> QED
    BY <2>1, QuietStepOK
<1> QED
  BY <1>1, <1>2, <1>3 DEF ManagerCall, ManagerStep

LEMMA OrdinaryStepOK ==
    ASSUME TypeOK, TypeOK', ~isShared, Owned, [Next]_vars
    PROVE  Abstract /\ Kept
<1>1. CASE UNCHANGED vars
  BY <1>1, QuietStepOK DEF vars, bufferVars
<1> QED
  BY <1>1, ProducerStepOK, ConsumerStepOK, HolderStepOK, ManagerStepOK DEF Next

(* An ordinary queue implements the lifecycle, step by step: every step of *)
(* any thread is an action of the lifecycle on the buffers' places and the *)
(* dirty list, or leaves both alone.  So the queue never has more than     *)
(* SURFACE_MAX_QUEUE_SIZE buffers, a buffer is in one place, and frames    *)
(* are acquired in the order in which they were flushed.                   *)
THEOREM LifecycleImplemented ==
    ASSUME TRUE \notin Sharing
    PROVE  Spec => LifecycleSpec
<1>1. Init => Lifecycle!Init
  BY DEF Init, Lifecycle!Init
<1>2. Init => ~isShared
  BY QueueAssumption DEF Init
<1>3. ~isShared /\ [Next]_vars => ~isShared'
  BY SharedIsConstant
<1>4. TypeOK /\ TypeOK' /\ ~isShared /\ OwnershipInv /\ [Next]_vars
         => [Lifecycle!Next]_<<placed, dirtyList>>
  BY OrdinaryStepOK DEF OwnershipInv, Abstract
<1>5. Spec => []~isShared
  BY <1>2, <1>3, PTL DEF Spec
<1>6. Spec => Lifecycle!Init /\ [][Lifecycle!Next]_<<placed, dirtyList>>
  BY <1>1, <1>4, <1>5, TypeCorrect, OwnershipHolds, PTL DEF Spec
<1> QED
  BY <1>6, PTL DEF LifecycleSpec, Lifecycle!Spec, placed

----------------------------------------------------------------------------
(* A shared queue.  Its size stays 1, so that DeleteBuffers has nothing to *)
(* mark, so that no buffer is ever deleted on its return.                  *)

NoneDeleting == \A s \in DOMAIN cache : ~cache[s].isDeleting
SizeStays == \A t \in Threads : pc[t] = "setSizeWrite" => arg[t] = 1
SharedInv == isShared => queueSize = 1 /\ SizeStays /\ NoneDeleting

(* What may happen to the buffers of a shared queue.                       *)
SharedStep ==
    \/ cache' = cache
    \/ DOMAIN cache' = {}
    \/ \E s \in DOMAIN cache : \E state : cache' = [cache EXCEPT ![s].state = state]
    \/ /\ DOMAIN cache = {}
       /\ \E s, config : cache' = Put(cache, s, NewElement("REQUESTED", config))

LEMMA SharedStepKeeps ==
    ASSUME TypeOK, NoneDeleting, SharedStep
    PROVE  /\ NoneDeleting'
           /\ DOMAIN cache # {} => DOMAIN cache' \in {DOMAIN cache, {}}
<1>1. CASE cache' = cache \/ DOMAIN cache' = {}
  BY <1>1 DEF NoneDeleting
<1>2. ASSUME NEW s \in DOMAIN cache, NEW state, cache' = [cache EXCEPT ![s].state = state]
      PROVE  NoneDeleting' /\ DOMAIN cache' = DOMAIN cache
  <2>1. DOMAIN cache' = DOMAIN cache
    BY <1>2
  <2>2. \A x \in DOMAIN cache : cache[x] \in BufferElement
    BY DEF TypeOK, CacheTypeOK
  <2>3. \A x \in DOMAIN cache : cache'[x].isDeleting = cache[x].isDeleting
    BY <1>2, <2>2 DEF BufferElement
  <2> QED
    BY <2>1, <2>3 DEF NoneDeleting
<1>3. ASSUME DOMAIN cache = {}, NEW s, NEW config,
             cache' = Put(cache, s, NewElement("REQUESTED", config))
      PROVE  NoneDeleting'
  BY <1>3 DEF Put, NewElement, NoneDeleting
<1> QED
  BY <1>1, <1>2, <1>3 DEF SharedStep

LEMMA SizeStaysGoto ==
    ASSUME ThreadTypeOK, SizeStays, NEW t \in Threads, NEW label, NEW a,
           \/ Goto(t, label, a) /\ (label = "setSizeWrite" => a = 1)
           \/ NotifyAllAndGoto(t, label) /\ label # "setSizeWrite"
    PROVE  SizeStays'
<1>1. CASE Goto(t, label, a) /\ (label = "setSizeWrite" => a = 1)
  <2>1. \A u \in Threads : /\ pc'[u] = IF u = t THEN label ELSE pc[u]
                           /\ arg'[u] = IF u = t THEN a ELSE arg[u]
    BY <1>1 DEF Goto, ThreadTypeOK
  <2> QED
    BY <1>1, <2>1 DEF SizeStays
<1>2. CASE NotifyAllAndGoto(t, label) /\ label # "setSizeWrite"
  <2>1. \A u \in Threads :
          pc'[u] = IF u = t THEN label ELSE IF pc[u] = "waiting" THEN "woken" ELSE pc[u]
    BY <1>2 DEF NotifyAllAndGoto
  <2>2. \A u \in Threads : u # t => arg'[u] = arg[u]
    BY <1>2 DEF NotifyAllAndGoto, ThreadTypeOK
  <2> QED
    BY <1>2, <2>1, <2>2 DEF SizeStays
<1> QED
  BY <1>1, <1>2

LEMMA SizeStaysReturn ==
    ASSUME ThreadTypeOK, SizeStays, NEW t \in Threads, Return(t) \/ NotifyAllAndReturn(t)
    PROVE  SizeStays'
BY SizeStaysGoto DEF Return, NotifyAllAndReturn

(* DeleteBuffers is not called, since the size does not shrink.            *)
SharedOK == SharedStep /\ SizeStays' /\ queueSize' = 1

LEMMA SharedProducer ==
    ASSUME TypeOK, isShared, queueSize = 1, SizeStays, NoneDeleting, NEW p \in Producers,
           ProducerCall(p) \/ InCall(p) \/ WaitTimeout(p)
    PROVE  SharedOK
<1> USE DEF noBufferVars, bufferVars, statusVars
<1>p. p \in Threads /\ ThreadTypeOK
  BY DEF Threads, TypeOK
<1>g. ASSUME NEW label \in Labels \ {"setSizeWrite"}, NEW a, Goto(p, label, a)
      PROVE  SizeStays'
  BY <1>g, <1>p, SizeStaysGoto
<1>1. CASE \/ \E config \in Configs : RequestBuffer(p, config)
           \/ RequestMustWait(p) \/ WaitBlock(p) \/ WaitAgain(p) \/ RetryFails(p)
           \/ WaitTimeout(p)
  <2>1. UNCHANGED cache /\ UNCHANGED queueSize
    BY <1>1 DEF RequestBuffer, RequestMustWait, WaitBlock, WaitAgain, RetryFails, WaitTimeout
  <2>2. SizeStays'
    BY <1>1, <1>p, <1>g, SizeStaysReturn
       DEF RequestBuffer, RequestMustWait, WaitBlock, WaitAgain, RetryFails, WaitTimeout,
           Labels, RequestPcs
  <2> QED
    BY <2>1, <2>2 DEF SharedOK, SharedStep
<1>2. CASE CallRefused(p)
  BY <1>2 DEF CallRefused, vars, threadVars, SharedOK, SharedStep, SizeStays
<1>3. CASE \/ \E s \in SeqNumbers : FlushBuffer(p, s)
           \/ FlushHasListener(p) \/ DoFlushGone(p) \/ FlushNotify(p)
  <2>1. UNCHANGED cache /\ UNCHANGED queueSize
    BY <1>3 DEF FlushBuffer, FlushHasListener, DoFlushGone, FlushNotify
  <2>2. SizeStays'
    BY <1>3, <1>p, <1>g, SizeStaysReturn
       DEF FlushBuffer, FlushHasListener, DoFlushGone, FlushNotify, Labels, FlushPcs
  <2> QED
    BY <2>1, <2>2 DEF SharedOK, SharedStep
<1>4. CASE FlushCancels(p)
  BY <1>4, <1>p, SizeStaysReturn DEF FlushCancels, SharedOK, SharedStep
<1>5. CASE DoFlushDeletes(p)
  BY <1>5 DEF DoFlushDeletes, NoneDeleting
<1>6. CASE DoFlushBuffer(p)
  <2>1. SizeStays'
    BY <1>6, <1>p, <1>g, SizeStaysReturn DEF DoFlushBuffer, Labels, FlushPcs
  <2>2. SharedStep /\ UNCHANGED queueSize
    BY <1>6 DEF DoFlushBuffer, SharedStep
  <2> QED
    BY <2>1, <2>2 DEF SharedOK
<1>7. CASE TakeBuffer(p)
  <2>1. SizeStays' /\ UNCHANGED queueSize
    BY <1>7, <1>p, SizeStaysReturn DEF TakeBuffer
  <2>2. CASE DOMAIN cache # {}
    <3>1. PICK s \in DOMAIN cache : ReuseBuffer(p, s)
      BY <1>7, <2>2 DEF TakeBuffer, PopAndReuse, SharedHit, NothingFree
    <3>2. cache' = [cache EXCEPT ![s].state = "REQUESTED"] \/ UNCHANGED cache
      BY <3>1 DEF ReuseBuffer, ReuseSameConfig, ReuseRealloc, ReuseReallocFails, ReuseRefused
    <3> QED
      BY <2>1, <3>2 DEF SharedOK, SharedStep
  <2>3. CASE DOMAIN cache = {}
    <3>1. ASSUME NEW i \in DOMAIN freeList, ReuseBuffer(p, freeList[i])
          PROVE  SharedStep
      <4>1. cache' = [cache EXCEPT ![freeList[i]].state = "REQUESTED"] \/ UNCHANGED cache
        BY <3>1 DEF ReuseBuffer, ReuseSameConfig, ReuseRealloc, ReuseReallocFails, ReuseRefused
      <4>2. DOMAIN cache' = {}
        BY <2>3, <4>1
      <4> QED
        BY <4>2 DEF SharedStep
    <3>2. CASE AllocBuffer(p)
      BY <2>1, <2>3, <3>2 DEF AllocBuffer, SharedStep, SharedOK
    <3> QED
      BY <1>7, <2>1, <2>3, <3>1, <3>2 DEF TakeBuffer, PopAndReuse, SharedHit, SharedOK
  <2> QED
    BY <2>2, <2>3
<1>8. \A s \in SeqNumbers : ~CancelBuffer(p, s)
  BY DEF CancelBuffer
<1> QED
  BY <1>1, <1>2, <1>3, <1>4, <1>5, <1>6, <1>7, <1>8
     DEF ProducerCall, InCall, RequestStep, FlushStep, RequestLocked, RetryTakes

LEMMA SharedConsumer ==
    ASSUME TypeOK, isShared, queueSize = 1, SizeStays, NoneDeleting, NEW c \in Consumers,
           ConsumerCall(c) \/ ReleaseStep(c)
    PROVE  SharedOK
<1> USE DEF noBufferVars, bufferVars, statusVars
<1>p. c \in Threads /\ ThreadTypeOK
  BY DEF Threads, TypeOK
<1>g. ASSUME NEW label \in Labels \ {"setSizeWrite"}, NEW a,
             Goto(c, label, a) \/ NotifyAllAndGoto(c, label)
      PROVE  SizeStays'
  BY <1>g, <1>p, SizeStaysGoto
<1>1. CASE (\E s \in SeqNumbers : ReleaseBuffer(c, s)) \/ ReleaseCallback(c) \/ ReleaseGone(c)
  <2>1. UNCHANGED cache /\ UNCHANGED queueSize
    BY <1>1 DEF ReleaseBuffer, ReleaseCallback, ReleaseGone
  <2>2. SizeStays'
    BY <1>1, <1>p, <1>g, SizeStaysReturn
       DEF ReleaseBuffer, ReleaseCallback, ReleaseGone, Labels, ReleasePcs
  <2> QED
    BY <2>1, <2>2 DEF SharedOK, SharedStep
<1>2. CASE AcquireBuffer(c)
  <2>1. SizeStays' /\ UNCHANGED queueSize
    BY <1>2 DEF AcquireBuffer, threadVars, SizeStays
  <2>2. CASE DOMAIN cache # {}
    <3>1. \E s \in DOMAIN cache : cache' = [cache EXCEPT ![s].state = "ACQUIRED"]
      BY <1>2, <2>2 DEF AcquireBuffer, AcquireLocked, SharedHit
    <3> QED
      BY <2>1, <3>1 DEF SharedOK, SharedStep
  <2>3. CASE DOMAIN cache = {}
    <3>1. DOMAIN cache' = {}
      BY <1>2, <2>3 DEF AcquireBuffer, AcquireLocked, SharedHit
    <3> QED
      BY <2>1, <3>1 DEF SharedOK, SharedStep
  <2> QED
    BY <2>2, <2>3
<1>3. CASE ReleaseLocked(c)
  <2>1. /\ arg[c] \in DOMAIN cache /\ ~cache[arg[c]].isDeleting
        /\ cache' = [cache EXCEPT ![arg[c]].state = "RELEASED"]
    BY <1>3 DEF ReleaseLocked, NoneDeleting
  <2>2. SizeStays' /\ UNCHANGED queueSize
    BY <1>3, <1>p, SizeStaysReturn DEF ReleaseLocked
  <2> QED
    BY <2>1, <2>2 DEF SharedOK, SharedStep
<1> QED
  BY <1>1, <1>2, <1>3 DEF ConsumerCall, ReleaseStep

LEMMA SharedManager ==
    ASSUME TypeOK, isShared, queueSize = 1, SizeStays, NoneDeleting, NEW m \in Managers,
           ManagerCall(m) \/ ManagerStep(m)
    PROVE  SharedOK
<1> USE DEF bufferVars, statusVars
<1>p. m \in Threads /\ ThreadTypeOK
  BY DEF Threads, TypeOK
<1>g. ASSUME NEW label \in Labels \ {"setSizeWrite"}, NEW a,
             Goto(m, label, a) \/ NotifyAllAndGoto(m, label)
      PROVE  SizeStays'
  BY <1>g, <1>p, SizeStaysGoto
<1>1. ASSUME NEW size \in 1..MaxQueueSize, SetQueueSize(m, size)
      PROVE  SharedOK
  <2>1. size = 1 /\ UNCHANGED cache /\ UNCHANGED queueSize /\ Goto(m, "setSizeWrite", size)
    BY <1>1 DEF SetQueueSize
  <2> QED
    BY <1>p, <2>1, SizeStaysGoto DEF SharedOK, SharedStep
<1>2. CASE SetQueueSizeWrite(m)
  <2>1. queueSize' = 1
    BY <1>2, <1>p DEF SetQueueSizeWrite, SizeStays
  <2> QED
    BY <1>2, <1>p, <2>1, SizeStaysReturn DEF SetQueueSizeWrite, SharedOK, SharedStep
<1>3. CASE CleanCache(m) \/ GoBackground(m) \/ OnConsumerDied(m)
  <2>1. DOMAIN cache' = {} /\ UNCHANGED queueSize
    BY <1>3 DEF CleanCache, GoBackground, OnConsumerDied, ClearLocked, Erase
  <2>2. SizeStays'
    BY <1>3, <1>p, <1>g, SizeStaysReturn
       DEF CleanCache, GoBackground, OnConsumerDied, Labels
  <2> QED
    BY <2>1, <2>2 DEF SharedOK, SharedStep
<1>4. CASE SetStatus(m)
  BY <1>4, <1>p, SizeStaysReturn DEF SetStatus, SharedOK, SharedStep
<1>5. CASE (\E on \in BOOLEAN : SetListener(m, on)) \/ SetProducerCacheCleanFlag(m)
  BY <1>5 DEF SetListener, SetProducerCacheCleanFlag, threadVars, SharedOK, SharedStep, SizeStays
<1> QED
  BY <1>1, <1>2, <1>3, <1>4, <1>5 DEF ManagerCall, ManagerStep

LEMMA NextShared ==
    ASSUME TypeOK, SharedInv, [Next]_vars, isShared
    PROVE  SharedInv' /\ (DOMAIN cache # {} => DOMAIN cache' \in {DOMAIN cache, {}})
<1>s. queueSize = 1 /\ SizeStays /\ NoneDeleting
  BY DEF SharedInv
<1>1. ASSUME UNCHANGED vars
      PROVE  SharedOK
  BY <1>1, <1>s
     DEF vars, bufferVars, statusVars, threadVars, SharedOK, SharedStep, SizeStays
<1>2. ASSUME NEW t, HolderCall(t), t \in Threads
      PROVE  SharedOK
  <2>1. PICK s \in SeqNumbers : AttachToFullQueue(t, s)
    BY <1>2 DEF HolderCall, AttachBuffer, DetachBuffer
  <2> QED
    BY <2>1 DEF AttachToFullQueue
<1>3. SharedOK
  <2>1. ASSUME NEW p \in Producers,
               ProducerCall(p) \/ InCall(p) \/ WaitTimeout(p) \/ HolderCall(p)
        PROVE  SharedOK
    BY <2>1, <1>s, <1>2, SharedProducer DEF Threads
  <2>2. ASSUME NEW c \in Consumers, ConsumerCall(c) \/ ReleaseStep(c) \/ HolderCall(c)
        PROVE  SharedOK
    BY <2>2, <1>s, <1>2, SharedConsumer DEF Threads
  <2>3. ASSUME NEW m \in Managers, ManagerCall(m) \/ ManagerStep(m)
        PROVE  SharedOK
    BY <2>3, <1>s, SharedManager
  <2> QED
    BY <1>1, <2>1, <2>2, <2>3 DEF Next
<1> QED
  BY <1>s, <1>3, SharedStepKeeps DEF SharedOK, SharedInv

LEMMA SharedHolds == Spec => []SharedInv
<1>1. Init => SharedInv
  BY DEF Init, SharedInv, SizeStays, NoneDeleting
<1>2. TypeOK /\ SharedInv /\ [Next]_vars => SharedInv'
  BY NextShared, SharedIsConstant DEF SharedInv
<1> QED
  BY TypeCorrect, <1>1, <1>2, PTL DEF Spec

----------------------------------------------------------------------------
(* What a step may never do.                                               *)

(* A shared queue's buffer is never replaced or taken out alone: whatever  *)
(* configurations are requested, sizes set and calls interleaved, only     *)
(* clearing the queue removes it.                                          *)
THEOREM SharedBufferCorrect == Spec => SharedBufferStays
<1>1. TypeOK /\ SharedInv /\ [Next]_vars
        => [isShared /\ DOMAIN cache # {} => DOMAIN cache' \in {DOMAIN cache, {}}]_vars
  BY NextShared
<1> QED
  BY <1>1, TypeCorrect, SharedHolds, PTL DEF Spec, SharedBufferStays

(* No step of another thread takes a buffer away from a client that holds  *)
(* it: not a resize, not a reallocation, not a cancelled or returned       *)
(* buffer of somebody else's; only clearing the queue, or the holder's own *)
(* DetachBuffer.                                                           *)
THEOREM HeldBuffersCorrect == Spec => HeldBuffersStay
<1>1. ASSUME TypeOK, TypeOK', OwnershipInv, SharedInv, [Next]_vars
      PROVE  Kept
  <2>1. CASE isShared
    <3>1. DOMAIN cache # {} => DOMAIN cache' \in {DOMAIN cache, {}}
      BY <1>1, <2>1, NextShared
    <3> QED
      BY <3>1 DEF Kept
  <2>2. CASE ~isShared
    BY <1>1, <2>2, OrdinaryStepOK DEF OwnershipInv
  <2> QED
    BY <2>1, <2>2
<1>2. TypeOK /\ TypeOK' /\ OwnershipInv /\ SharedInv /\ [Next]_vars => [Kept]_vars
  BY <1>1
<1>3. Spec => [][Kept]_vars
  BY <1>2, TypeCorrect, OwnershipHolds, SharedHolds, PTL DEF Spec
<1> QED
  BY <1>3, PTL DEF HeldBuffersStay, Kept
=============================================================================
