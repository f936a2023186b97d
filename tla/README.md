# FangTian display engine: TLA+ models

This directory models the concurrent core of the FangTian display engine
(`display_server`) in TLA+, checks it with TLC and proves theorems about it with
TLAPS. It models

* the **buffer queue** every frame goes through, and its **client's surface**,
* the **vsync generator** and the **vsync distributor** that pace every frame, and
  the **vsync station** through which a client's windows ask for one,
* the **transactions and connections** of the render service's clients,
* the **event queue** under every thread that handles events, and
* the **reference counts** under every shared object.

## 1. The system

An application draws frames into graphic buffers. A buffer travels through a
**buffer queue** from the application (producer) to the render service or the
hardware back end (consumer) and back. A **vsync** chain tells everybody when to
draw: a generator thread predicts the display's vertical sync from sampled
hardware events, controllers shift it by a phase, and a distributor sends it to
connections over sockets. The **render service** collects transactions from its
clients, composes the screen and hands it to the **HDI back end**. The **window
manager** decides which windows exist, where they are and which is in front.

| Component | State it keeps | Operations | Hard behaviour |
|---|---|---|---|
| `BufferQueue` (`frameworks/surface`) | map of buffers with a state each, free, dirty and deleting lists, queue size, status, listener, waiters | request (blocking), cancel, flush, acquire, release, attach, detach, resize, clear, status | two critical sections per flush and release, waiting with timeout, unlocked size, failing allocations |
| `BufferQueueProducer`, `BufferQueueConsumer` | connected process, name | forward calls; `GoBackground` sets the producer cache flag | the flag is written without the queue's mutex |
| `ProducerSurface`, `BufferClientProducer` | the client's buffer cache | request, flush, disconnect | the cache must follow the queue's deletions across IPC |
| `ConsumerSurface` | consumer and producer stubs | forward; destructor tells the queue that the consumer died | death in two steps |
| `VSyncDistributor` | connections with rates, pending event, enabled flag | request next vsync, set rate, add and remove connections, delivery thread | software vsync, lost and coalesced events, failing sockets |
| `VSyncController`, `VSyncGenerator` | listener list, period, phase, reference time, expected wake-up delay | enable, callback, update mode, timer thread | modes and phases that change during a sleep nothing ends; callbacks outside the lock |
| `VSyncSampler` | samples, period and phase of the model, error | add sample, present fence times, reset | arithmetic of the sampling window |
| `VSyncReceiver`, `LocalSocketPair` | socket, pending callback | request, receive | full socket, callback replaced |
| HDI back end | layers, frame buffer surface, prepared state | create, repaint, release | order of prepare, commit, release fences |
| Render service | transactions and numbers per client, connections, screens, nodes | commit, frame, connect, clean up, screen changes | small and large parcels on different ways, lost numbers, clients that die or connect again |
| `EventQueue`, `EventRunner`, `EventHandler` | three lists by priority, idle events, wake-up time | post, remove, run, end | sleeping against inserting, lifetimes of handlers and runner |
| `RefBase`, `sptr`, `wptr` | three atomic counts and a flag | copy, promote, drop | promotion against the last drop, who deletes what |
| `VsyncStation` (window manager client) | callbacks, whether a vsync was requested, a time-out task | request, callback, time-out | one request for all windows; a time-out racing a late answer |
| Window manager server | window tree, states, focus | add, remove, raise | tree consistency |

Interaction: producers and consumers call `BufferQueue` on their own (binder)
threads; the queue calls `OnBufferAvailable` on the consumer's listener from
inside `FlushBuffer`, and an optional release callback from inside
`ReleaseBuffer`. The distributor calls the controller, which calls the generator;
the generator's thread calls back through the controller into the distributor.

What makes each correct:

* buffer queue: every buffer is in one place, nobody has a buffer somebody else
  has, no slot is lost, no waiter is forgotten, frames arrive in order and are
  announced, deletions reported to the producer are true;
* producer surface: a buffer number in a reply is one the client knows, and its
  cache holds no buffer the queue deleted and reported;
* vsync distributor: a request is answered by one event, whatever happens
  meanwhile; nobody gets an event it did not ask for; the thread never sleeps on
  work; vsync goes off when nobody wants it; the destructor returns;
* generator: time stamps of a listener increase, by about a period;
* sampler: the phase stays within a period, hardware vsync goes off only with an
  accurate model;
* vsync station: a request that all windows share always ends, and a callback that
  waits is run;
* HDI back end: a frame buffer is released after the commit that replaced it;
* render service: a client's transactions apply once and, when its threads commit in
  turn, in order; lost ones
  hold up the others for a time only; a connected client is served and a dead
  one is forgotten;
* event queue: the runner is awake when it is needed, nobody is starved, events
  do not outlive their handler, the thread ends with its runner;
* references: an object dies once, after its last strong reference, and nothing
  that somebody will still touch is freed;
* window manager: the window tree stays a tree and focus is on a visible window.

## 2. Plan

Done, in this order, the most important behaviour first:

1. `BufferQueue` with `BufferQueueCorrect`, the abstract `BufferLifecycle`, and
   the proofs of its invariants, step properties and refinement
   (`BufferQueueProofs`);
2. `VSyncDistributor` with the part of controller, generator and sockets it
   depends on, the abstract `VSyncService`, and `VSyncDistributorProofs` (types,
   sleeping, the refinement);
3. `ProducerSurface`, composed with `BufferQueue`, with `ProducerSurfaceProofs`
   (what replies name and report, what the client's cache holds);
4. `RefBase` with `RefBaseProofs` (types, the object's life, the counter's life);
5. `RSTransactions` and, composed with it, `RSConnections`, with
   `RSConnectionsProofs` (who is served, the order of transactions, what waits);
6. `EventQueue` with `EventQueueProofs` (sleeping, order, LOW events, orphans);
7. `VSyncGenerator` with `VSyncGeneratorProofs` (the spacing of events, nobody
   is forgotten, every vsync is told);
8. `VsyncStation` with `VsyncStationProofs` (requests end).

What is left is at the end of section 9.

| Module | Extends | Runs |
|---|---|---|
| `BufferQueue` | - | |
| `BufferQueueCorrect`, `MCBufferQueue` | `BufferQueue`, `BufferLifecycle` by INSTANCE | `bq_core`, `bq_live`, `bq_lost_wakeup` |
| `ProducerSurface` | `BufferQueue` | |
| `ProducerSurfaceCorrect`, `MCProducerSurface` | `ProducerSurface`, `BufferQueueCorrect` | `ps_core` |
| `VSyncDistributor` | - | |
| `VSyncDistributorCorrect`, `MCVSyncDistributor` | `VSyncDistributor`, `VSyncService` by INSTANCE | `vs_core` |
| `RSTransactions` | - | |
| `RSConnections` | `RSTransactions` | |
| `RSConnectionsCorrect`, `MCRSConnections` | `RSConnections` | `rt_core`, `rt_live`, `rc_replaced` |
| `EventQueue`, `EventQueueCorrect`, `MCEventQueue` | each the one before | `eq_core` |
| `RefBase`, `RefBaseCorrect`, `MCRefBase` | each the one before | `rb_core` |
| `VSyncGenerator`, `VSyncGeneratorCorrect`, `MCVSyncGenerator` | each the one before | `vg_core` |
| `VsyncStation`, `VsyncStationCorrect`, `MCVsyncStation` | each the one before | `vt_core` |
| `BufferQueueProofs` | `BufferQueueCorrect`, `TLAPS` | |
| `ProducerSurfaceProofs` | `ProducerSurfaceCorrect`, `BufferQueueProofs` | |
| `VSyncDistributorProofs`, `VSyncGeneratorProofs`, `VsyncStationProofs`, `RSConnectionsProofs`, `RefBaseProofs`, `EventQueueProofs` | the `Correct` module, `TLAPS` | |

Each run stays within a few minutes on two workers. State counts below are
approximate numbers of distinct states, after symmetry where a run uses it.

## 3. The buffer queue

### Modules

* `BufferQueue` - the queue, its threads and their clients. `cache` is
  `bufferQueueCache_`, a partial map from sequence numbers to elements with
  state, `isDeleting` and configuration; `freeList`, `dirtyList`,
  `deletingList`, `queueSize`, `isValidStatus`, `producerCacheClean` and
  `producerCacheList` are the members of the same names; `listener` stands for
  `listener_` and `listenerClazz_`. What mutex_ protects is one action; `pc`
  and `arg` say where a thread stands between two critical sections:

  | Code | Actions |
  |---|---|
  | `RequestBuffer` | `RequestBuffer` (status and listener), `RequestLocked`, `RequestMustWait`, `WaitBlock`, `WaitTimeout`, `WaitAgain`, `RetryTakes`, `RetryFails`; `CallRefused` for an error at the door |
  | `ReuseBuffer`, `PopFromFreeList`, `AllocBuffer` | operators used by both critical sections of a request |
  | `FlushBuffer`, `DoFlushBuffer` | `FlushBuffer` (first check), `FlushHasListener` or `FlushCancels`, `DoFlushGone`, `DoFlushDeletes` or `DoFlushBuffer`, `FlushNotify` |
  | `ReleaseBuffer` | `ReleaseBuffer` (first check), `ReleaseCallback`, `ReleaseGone` or `ReleaseLocked` |
  | `AttachBuffer`, `DetachBuffer` | `AttachBuffer`, `AttachToFullQueue`, `DetachBuffer` |
  | `SetQueueSize`, `DeleteBuffers` | `SetQueueSize`, `SetQueueSizeWrite` |
  | `CleanCache`, `GoBackground`, `OnConsumerDied`, `SetStatus` | actions of the same names; the last two follow each other in `~ConsumerSurface` |
  | listeners, `BufferQueueProducer::GoBackground` | `SetListener`, `SetProducerCacheCleanFlag` |

  A thread between the test of `wait_for`'s predicate and its blocking
  (`waitEnter`) holds `mutex_`, which is what loses the wake-up of
  `SetQueueSize`. The clients are the environment: `producerHeld` and
  `consumerHeld` are the buffers they were given and have not returned, and
  `notifications` counts `OnBufferAvailable` calls the consumer has not acted on.
* `BufferLifecycle` - the promise: where each buffer is, the frames in their
  order, the capacity. No threads, no locks.
* `BufferQueueCorrect` - the properties, and the refinement mapping.
* `MCBufferQueue` - the instance TLC runs.
* `BufferQueueProofs` - the theorems.

Abstractions: a buffer is its sequence number, given out in order; `MaxSequence`
bounds them and stands for memory running out. `Alloc` and `Map` are one call
that fails or not. A number that a failed allocation wasted is not skipped: only
that numbers are new matters. A configuration is a model value. Fences, damage,
time stamps and other metadata are left out. Spurious wake-ups are left out: the
predicate loop sends such a waiter back to sleep, and no property may rely on one.
A flush is only made of a buffer the producer holds, and a release of one the
consumer holds; acquires follow notifications, as `OnBufferAvailable` handlers do.

Operators named `...Fault...` are mistakes one could make in the definition after
them; each property is checked to notice one of them.

### Runs

| Run | States | Asks |
|---|---|---|
| `bq_core` | 691 000 | all invariants of the queue, `HeldBuffersStay`, and the refinement `LifecycleSpec`, with two producers and every call but changing the listener: cancelling, attaching, detaching, resizing, clearing, the consumer's death |
| `bq_live` | 66 000 | `SharedBufferStays`, `RequestReturns`, `FrameConsumed` under `Fairness`, in a shared and an ordinary queue, with two configurations, cancelling, detaching and a listener that comes and goes |
| `bq_lost_wakeup` | - | a comment the code does not keep, see section 8 |

The queue runs once more, with configurations, clearing, failures and the
consumer's death, under `ps_core` (section 4). `Sharing` says which arguments its
constructor gets; `isShared` is what it got.

Bounds: with two producers one can wait while the other flushes or cancels; with
capacity 2 one buffer can be dirty and one held. Two numbers allow one buffer to be
deleted and replaced; the making of a third, beside two in use or after another
deletion, is generated and checked from every state, and what goes on after it is
not followed (`FewBuffers`, a constraint of the run). The theorems below are for any
number of buffers. `MaxListLength` only limits the lists of shared queues, which
grow without bound in the code. `bq_core` does not check deadlock:
`AttachBuffer` in a full queue really stops its thread while it holds `mutex_`.

Fairness (`FairSpec`): a thread inside a call keeps running and gets `mutex_` in
the end, as its critical sections are finite; this is strong fairness because
others take the mutex in between. The deadline of `wait_for` is absolute, so
`WaitTimeout` is strongly fair. The consumer acts on notifications and finishes
its calls. No client is assumed ever to return a buffer: `RequestReturns` holds
by the timeout, and `FrameConsumed` by the consumer's acquires alone, as long as there
is a listener to be told.

What the model shows of the code and no property states, because it follows at
once from the lines named:

* a failing `FlushCache` leaves the frame queued and unannounced
  (`buffer_queue.cpp:450`): `EveryFrameAnnounced` is checked without such
  failures;
* a release callback that answers OK leaves the buffer acquired for ever
  (`buffer_queue.cpp:528`): `NoSlotLost` is checked without such callbacks;
* `AttachBuffer` in a full queue locks `mutex_` twice (`buffer_queue.cpp:673`):
  `AttachToFullQueue`;
* shrinking drops announced frames, so a notified consumer may find nothing, and
  `DeleteBuffers` stops after as many buffers as the size shrank by.

### Proofs

The proofs assume what `BufferQueue` assumes of its constants (`QueueAssumption`,
`ThreadAssumption`): any number of threads, any configurations, sizes, calls and
failures. Where a theorem assumes more, it says so and why.

* `TypeCorrect`: `Spec => []TypeOK`. `TypeOK` is inductive because it says, with
  `ArgOK`, what a thread carries at each place it may stand (a flushing thread
  carries a buffer number, a waiting one a configuration): without that the
  second critical section of a call could not be typed. There is one lemma per
  group of operations (`RequestType`, `FlushType`, `ConsumerType`, `HolderType`,
  `ManagerType`), and one per helper on maps and lists.
* `SleepCorrect`: `Spec => []NoSleepBesideFree`. A step keeps the invariant in
  one of three ways, each a lemma: it frees nothing and puts nobody to sleep
  (`QuietStep`), it puts a thread to sleep while the free list is empty and it
  holds `mutex_` (`EmptyStep`), or it may free a buffer and wakes everybody
  (`NotifyStep`). Every action falls under one of them.

* `AnnouncedCorrect`: `EveryFrameAnnounced`, when the listener stays
  (`"SetListener" \notin Calls`), `FlushCache` does not fail (its failure leaves a
  frame unannounced, see above) and the producers are finitely many, as they are
  counted. A step that lengthens the dirty list puts its thread among those
  about to announce; an announcement that was due becomes one that was made; the
  consumer takes a notification and the first frame together; all other steps only
  shorten the list.

The second part of the module proves the three invariants about who has which
buffer. Its inductive invariant `Owned` (for a queue that is not shared) is over a
ledger: `status`, the state of each buffer or "outside", and `flushing` and
`releasing`, the buffer each thread is between the critical sections of. Its four
parts need each other. `ListsOK` (the lists hold what is released or flushed, each
once) is kept by the second half of `FlushBuffer` only if no other thread may push
the same buffer meanwhile; that is `HandsOK` (a held buffer, or one in an
unfinished call, is with one side, in one call, in a state of that side). `HandsOK`
is kept by `RequestBuffer` only if the buffer it hands out is in nobody's hands,
which `ListsOK` says of those on the free list and `FreshOK` (numbers not yet given
out are nowhere) of new ones. `SlotsOK` says that a buffer on no list has a holder.
An effect lemma per action says what it does to the ledger, and the invariant is
kept by each effect.

* `ListsCorrect`: `ListsMatchStates`; `HoldersCorrect`: `ExclusiveHolders`, both
  for every instance.
* `SlotsCorrect`: `NoSlotLost`, when no release callback answers OK
  (`"ok" \notin ReleaseResults`); with one that does a buffer is lost, see above.

The last part maps each effect on the ledger to a step of
`BufferLifecycle`.

* `LifecycleImplemented`: `Spec => LifecycleSpec` for queues that are not shared
  (`TRUE \notin Sharing`); a shared queue has another life, as its buffer is
  with both sides at once.
* `SharedBufferCorrect`: `SharedBufferStays`. A shared queue's size is 1 and stays so,
  also what a thread in `SetQueueSize` is about to write, hence nothing is ever
  marked as deleting and no return deletes a buffer (`SharedInv`).
* `HeldBuffersCorrect`: `HeldBuffersStay` for every queue: in an ordinary one the
  ledger says that what `DeleteBuffers` and reallocation take is held by
  nobody; in a shared one nothing but a clear takes a buffer.

`RequestReturns` and `FrameConsumed` are liveness, which this prover does not reach;
they stay with TLC.

## 4. The client's surface

`ProducerSurface` puts the client's end on top of `BufferQueue`: the producers of
the queue are the client's threads, and the cache of the buffers it was sent
(`bufferProducerCache_`) has to follow the queue's deletions through replies.

| Code | Actions |
|---|---|
| `ProducerSurface::RequestBuffer`, `BufferQueueProducer::RequestBuffer` | `SurfaceRequest`, then `RequestServed`, `RequestWaits`, `RequestRefused`: the queue's own steps of a request, and what they answer |
| `AddCacheLocked`, the rest of `RequestBuffer` | `ApplyReply` |
| `FlushBuffer`, `CancelBuffer` | `SurfaceReturns` |
| `CleanCache`, `GoBackground`, `Disconnect` | `SurfaceCleanCache`, `SurfaceGoBackground`, `SurfaceDisconnect` empty the client's cache; `ProducerCleanCache`, `ProducerGoBackground`, `ProducerDisconnect`, `DisconnectClears`, `SetDisconnected` are the calls they make; `NotConnected` is `CheckConnectLocked` |
| consumer and managers | `OtherSide`, with `ConsumerGoBackground` |

A reply carries the number, the buffer itself unless the queue thinks the client
knows it (`Sends`), and what was deleted (`Reported`).

| Run | States | Asks |
|---|---|---|
| `ps_core` | 1 740 000 | `ReplyResolves`, `NoGhosts`, `ReportedNotInUse` |

Two client threads with two configurations and two buffers are enough for one
reply on its way while another is made, for a buffer replaced by a new one, and
for a cleared cache with a buffer held. The client stops when its consumer is
dead and every call is refused, hence no deadlock check.

The consumer clears the queue, too: `rs_surface_render_node.cpp:174` and `:193` call
`ConsumerSurface::GoBackground` whenever a surface node leaves the tree or loses its
parent. No reply tells the client of the buffers that go, nor of those that were
waiting to be reported, so their memory stays in the client's cache until the client
clears it itself or is refused. `NoGhosts` is therefore not kept for them: the
history variable `untold` collects what such clears took, and the property is about
all other buffers. The call may come at any moment of the run, between the queue's
answer and `AddCacheLocked`, too, and `ReplyResolves` holds without an exception.

`Habits` names what users of the surface might do that its cache does not provide
for. It is empty in the run, and the model shows what each does:

* with `"ClearWhileRequesting"` both `ReplyResolves` and `NoGhosts` fail: a clear
  between the queue's answer and `AddCacheLocked` makes the client forget a
  buffer that the reply names by number. `RSRenderThread` requests and clears on
  one thread (`rs_ui_director.cpp:100-115`), so it does not have the habit;
* with `SetListener` among the `Calls`, a request without listener clears the
  client's cache (`producer_surface.cpp:79`) and the queue does not know:
  `ReplyResolves` fails once a listener is back.

Left out: a shared queue, which sends its one buffer in every reply
(`OwnBuffers`), user data, errors of binder (a dead consumer's process), and
attaching, which only local producers can do and which does not enter the
client's cache.

### Proofs

`ProducerSurfaceProofs` proves the three properties for any number of client threads,
configurations, buffers and failures, from the assumptions of the two modules.

* `ReportsUnused`: `SurfaceSpec => []ReportedNotInUse`.
* `RepliesResolve`: `SurfaceSpec => []ReplyResolves`, if `"ClearWhileRequesting"` is
  not among the `Habits` and `"SetListener"` not among the `Calls`.
* `NoGhostsKept`: `SurfaceSpec => []NoGhosts`, under the same two hypotheses.

Both hypotheses are needed, see above what each of the two does. The consumer's clearing
is in all three theorems.

A step of `SurfaceSpec` is not a step of the queue's `Next`, as it also moves the
client, so what the queue keeps is shown again of the surface's steps, from the
lemmas of `BufferQueueProofs` about single actions. What a step does to the queue
is put into one of a few effects (`Moved`: what leaves the map goes to the deleting
list; `Cleared`: map and lists are emptied; `Handed`: a request is answered), and
the invariants are shown of the effects. They build on one another:

* `ReportInv`: types, and no number is listed, in the map or in a report that was
  not given out (`Numbered`). What is reported left the map, and numbers are new.
* `SentInv`: the ledger of the queue (`Ordered` is `Owned` until the status is
  lost), where a client thread stands (`PlaceInv`, `PendingHeld`: the buffer of a
  reply on its way is held by the thread it goes to, so it is nobody else's and is
  not deleted), and `SentOnce`: a buffer of the queue that the client does not know
  is on its way to it (`Coming`), or will be sent with the next reply that names it
  (`Due`). This is why a reply may name a buffer by its number alone.
* `GhostInv`: what the client knows is in the queue or about to be reported
  (`GhostFree`) or was cleared by the consumer, and what a reply names is still in
  the queue (`PendingIn`).

## 5. The vsync distributor

### Modules

* `VSyncDistributor` - the delivery thread, the binder threads of its clients,
  the generator's thread, the sockets and their readers. `connections`, `rate`,
  `vsyncEnabled` are the members of the same names; `highPriorityRate` also says
  whether `highPriorityState_` is set; `eventPending` is
  `event_.timestamp # 0`. `pc` says where `ThreadMain` stands:

  | Code | Actions |
  |---|---|
  | `while (vsyncThreadRunning_)` | `LoopTest` |
  | first critical section, with `CollectConnections` | `TakeEvent`, `TakeUnwanted` (vsync goes off), `TakeEnables` (vsync goes on, 16 ms wait), `TakeWaits` |
  | `wait_for` ends | `SoftwareVSync` by its time, `SoftwareWaitNotified` by a notification |
  | `PostEvent` and what follows | `PostEvent`; `PostFails`, then `RetryPost` (EAGAIN) or `DropConnection` |
  | generator, controller, `OnVSyncEvent` | `GetListenerTimeouted`, `OnVSyncEvent` |
  | `AddConnection` ... `SetQosVSyncRate` | actions of the same names; `SetHighPriorityVSyncRate` stands for both ways to set it, with a positive rate: `SetQosVSyncRate` does not check for one, and a connection with a negative high priority rate gets no event at all |
  | clients | `OnReadable`, `ClientDies`, `ReceiverCloses` |
  | `~VSyncDistributor` | `Destroy`, `DestroyNotifies`; the join is the end of the thread |

* `VSyncService` - the promise: members, what each wishes, whom the event in
  flight is for, how many each was sent. No threads, rates or sockets.
* `VSyncDistributorCorrect` - the properties and the refinement mapping;
  `MCVSyncDistributor` - the instance TLC runs; `VSyncDistributorProofs` - the
  theorems.

Abstractions: time is left out, so the 16 ms may pass at any moment, and a time
stamp is only present or not. `vsyncCount` is kept modulo `RateCycle`, a common
multiple of the rates, which is all that `vsyncCount % rate` can tell;
`postVSyncCount_` is kept modulo 2. The order in which one event reaches its
connections is open. The service keeps `receiveFd_` of every socket, so the
socket of a client that died is never closed, only full: `peer` tells the
`"dead"` from the `"closed"`, the service's own receivers. Spurious wake-ups are
left out; they send the thread once more round its loop. The model ends with the
distributor: the controller keeps a pointer to it, and a call after that is
undefined in the code.

### Runs

| Run | States | Asks |
|---|---|---|
| `vs_core` | 452 000 | two connections, one with a rate and a high priority rate, one of the service's own that may be closed, dying clients and the destructor: `TypeOK`, `SleepsOnlyIdle`, the refinement `ServiceSpec`; under fairness `RequestAnswered`, `VSyncGoesOff`, `StopEndsThread` |

Bounds: a socket of one event is full after one unread event, and two events in
a row find it full. Two connections let one event be posted to one while the other
asks, leaves or dies. `RatedConnections` and `OwnConnections` bound the run: who
sets a rate, and who belongs to the service, may be closed and does not die. The
rates are 1; larger ones are covered by the proofs, which are for every rate. The
run may stop with the destructor, hence no deadlock check.

Fairness (`FairSpec`): the delivery thread keeps running; a timed wait ends by
its time when nothing else ends it; the generator has a period, takes the
listener and calls it; a living client reads what arrives in its socket; the
destructor goes on to notify; the render service removes the connections of dead
clients (`CleanAll`, called by the death recipient). Weak fairness is enough, as
each of these stays possible until it happens. Nobody is assumed to request,
leave, or destroy. Without a period in the generator only the request that
enables vsync is served, by the software vsync, so `RequestAnswered` would not
hold.

### Proofs

`VSyncDistributorProofs` assumes `DistributorAssumption`: the rates are positive
and divide `RateCycle`, a bound of the model, and a socket holds at least one
event.

* `TypeCorrect`: `Spec => []TypeOK`. `TypeOK` also says that events are being
  posted exactly while somebody is left, that only a closed socket leads to
  `DropConnection`, and that a connection to come wants nothing (`NewOK`): the
  last is needed because the thread may still make the request of a removed
  connection again.
* `SleepCorrect`: `Spec => []SleepsOnlyIdle`, inductive together with `TypeOK`.
  A step that gives the thread work notifies it (`NotifyAllWakes`); all others
  leave a sleeping thread's reasons to sleep alone (`SleepKept`). Connections
  that join want nothing (`JoiningWantsNothing`), which is why `AddConnection`
  need not notify.
* `ServiceCorrect`: `Spec => ServiceSpec`, the refinement. Each action is a step
  of `VSyncService` or leaves its variables alone, one lemma per abstract action;
  `TypeOK` is the invariant it needs (who is dropped has closed; nobody is being
  served when an event is taken).

Liveness stays with TLC.

### The generator

`VSyncGenerator` is its thread, the callers that change its mode and listeners, and
its destructor. Time is discrete.

| Code | Actions |
|---|---|
| `while (vsyncThreadRunning_)` of `ThreadLoop` | `LoopTest` |
| first critical section, `ComputeNextVSyncTimeStamp` | `NothingToDo` (sleeps until somebody calls), `ComputeNext` |
| `wait_for` on `waitForTimeoutCon_` | `WaitFor`, `WaitTimesOut`, `SpuriousWakeup` |
| second critical section with `GetListenerTimeouted` | `Deliver`; `Due` and `NextVSync` are `ComputeListenerNextVSyncTimeStamp` |
| `UpdateMode`, called by the sampler | `SamplerCalls` |
| `AddListener`, `RemoveListener`, `ChangePhaseOffset`, the destructor | `AddListener`, `RemoveListener`, `ChangePhaseOffset`, `Destructor` |
| time | `Tick` |

| Run | States | Asks |
|---|---|---|
| `vg_core` | 6 415 000 | `NobodyForgotten`, `WellSpaced`, `Regular` |

Bounds: periods of a few units of time with `MaxTime` 16 give several vsyncs before
and after a change, four calls at any of these times, and a thread that is late by
up to `MaxLate`. The constants of the code (`maxWaleupDelay`, `errorThreshold`, the
weight 64 of the running mean) are scaled down with the period.

Nothing notifies `waitForTimeoutCon_`: a new mode, phase or listener, and the
destructor, have to do with the thread's waking at the time it computed before;
`NobodyForgotten` bounds what that costs a listener. A spurious end of that wait
makes a late thread compute afresh and pass over the vsync it missed, so `Regular`
is about times without one. `period_` is read again after the sleep, to divide by:
it would be zero only after `VSyncSampler::Reset`, which tests alone call.

`VSyncGeneratorProofs` proves, for every mode, phase, lateness and number of listeners,
from `GeneratorAssumption` and, where it says so, from the constants' proportions,

* `SpacingCorrect`: `Spec => WellSpaced`. What is computed for a listener is at least
  three fifths of a period, less the expected wake-up delay, after its last event
  (`NextVSyncSpaced`, from `GridPointAfter` and `NextMultiple` on rounding) only if
  there is a period and the delay is not negative. The first is so because the thread
  computes with one before it delivers and none is taken back; the second because a
  delay is measured only when a wait timed out, and a wait counts from no earlier
  than its computation (`DelayInv`, `DelayNotNegative`).

* `NobodyLost`: `Spec => []NobodyForgotten`, if `Proportions` holds. `ShortWaits` says
  that no wait is longer than two periods, so that a change made while the thread
  waits need not end the wait; `InTime`, for each place of the loop, that the wait
  that will bring a listener's event is over in time. The step that could break it
  is the delivery, which looks at every listener and leaves alone those not due: such
  a one has its next vsync ahead, and so is not overdue (`NotDueNear`).
* `RegularCorrect`: `Spec => Regular`, if `Smooth` holds. `OnTime` says that what a
  listener was told last is, but for the delay expected then, a point of its grid,
  and that the thread looks at it again before the next point but one; `SteadyNext`
  is what such a listener is told next. After a change of mode or phase nobody is
  steady, so that `OnTime` need not survive one.

Both rest on `TimingInv` (nothing that has happened is ahead of the clock by more than
the threshold, and the thread is late as bounded) and on what the code computes with
division and remainder, restated as a grid: it is the first point of the listener's
grid after the time given (`GridStep`, `GridPointFirst`, `VSyncPoint`, `VSyncAhead`).

Both suppose `Tuned`: the threshold is positive, and the sampler's phase is at most
half its period, as the angle `atan2` returns is at most half a turn. `Proportions`
adds that one of the modes has the longest period, and that offsets, the delay allowed
for (1.5 ms) and two and a half thresholds (0.5 ms each) are at most as long; the
delay and thresholds of the code are, for any display of less than 600 Hz. That
offsets are is the callers' part: the code does not check them. `Smooth` adds that, for
every mode, twice the lateness is less than a period and the delay allowed for less
than three fifths of one. How late a thread is no code can bound; a thread that is
later passes over a vsync, as it must. The constants of `vg_core` satisfy both.

### The station

`VsyncStation` is a window manager client's station with its receiver, the threads
that ask and the thread of its event handler.

| Code | Actions |
|---|---|
| `VsyncStation::RequestVsync` | `RequestVsync` under `mtx_`, `RequestNextVSync` after it |
| `RemoveCallback` | `RemoveCallback` |
| `VSyncCallBackListener::OnReadable` | `OnReadable` |
| `VsyncCallbackInner` | `VsyncCallbackInner`, then `OnCallback` for each callback, which may ask again, and `CallbacksDone` |
| `VSYNC_TIME_OUT_TASK`, `OnVsyncTimeOut` | `TimeoutPasses`, `OnVsyncTimeOut` |
| the service | `ServiceAnswers`, `ServiceLoses` |

| Run | States | Asks |
|---|---|---|
| `vt_core` | 4 300 | two threads, three callbacks, a socket of two events: `RequestEnds`, `CallbackRuns` |

`unreliable` is chosen at the start: the service may lose an answer or come after
the 600 ms. If it does not, every callback runs. If it does, the time-out takes the
flag back but requests nothing, so a waiting callback runs when somebody asks
again. The handler's thread serves its socket and its due tasks in turn (strong
fairness); threads finish what they began. Left out: creating the receiver, which
is repeated under `mtx_` until the service answers, and `SetVsyncEventHandler`,
which replaces the handler without `mtx_`.

`VsyncStationProofs` proves `RequestCorrect`: `Spec => []RequestEnds`, for any threads
and callbacks and a service of either kind. The invariant `StationInv` adds to it that
only the handler's thread runs callbacks and time-outs, so that a client that asks
cannot meet another's end of the same request half way. `CallbackRuns` is liveness.

## 6. The render service's clients

### Modules

* `RSTransactions` - the way of a transaction in unified rendering. A transaction
  is its connection and its number, and an identity, as numbers may repeat.

  | Code | Actions |
  |---|---|
  | `RSTransactionProxy` and `RSRenderServiceConnectionProxy::CommitTransaction` | `CommitTransaction` (a mutex is taken and `transactionDataIndex_` read), `StoreIndex`, `FillParcel`, `LoadIndex` for the next parcel, `SendParcel` for each parcel; `CommitFails` |
  | the stub's `COMMIT_TRANSACTION` | `StubReceives`, `StubStores` (`RecvRSTransactionData`), `StubRequestsVSync`, `StubDrops` |
  | `RSUnmarshalThread` | `UnmarshalParcel`, `UnmarshalFails`, `UnmarshalBarrier` (`PostTask` of the main thread's barrier) |
  | `RSMainThread` | `RequestNextVSync`, `OnVsync`, `ForceRefreshForUni` (both merge and post the barrier), `ProcessCommand` (`ProcessCommandForUniRender`, its walk over each client's numbers is `Walk`), `AddTransactionDataPidInfo`, `ClearTransactionDataPidInfo` |

* `RSConnections` - who is connected.

  | Code | Actions |
  |---|---|
  | `RSRenderServiceConnectHub` | `GetRenderServiceConnection`, `SetConn`, `Die` |
  | `RSRenderServiceClient::CommitTransaction` | `Commit`: a commit on the hub's connection, one at a time under each mutex |
  | `RSRenderService::CreateConnection` | `Construct`, `Store`, `AddPid`, `Release` (of the replaced connection), `Reply` |
  | `CleanAll` | `OnRemoteDied` or `Destroy`, `CleanTask` (on the main thread), `CleanRest` with `RemoveConnection` |

  References to a connection are counted by who has them (`Referenced`).
* `RSConnectionsCorrect` - the properties; `MCRSConnections` - the instance.

Abstractions: what commands do is left out; elapsed frames stand for the
difference of time stamps, and are counted up to one more than the limit. Binder,
which is external, delivers the one-way calls on one object in order, one at a
time. Divided rendering does not number transactions and is left out.

### Two mutexes, one count

`RSTransactionProxy` commits under `mutex_` (`FlushImplicitTransaction`, `Commit`) and
under `mutexForRT_` (`FlushImplicitTransactionFromRT`, which `RSRenderThread` calls
when it switches to unified rendering, `rs_render_thread.cpp:341`). Both reach the same
`RSRenderServiceConnectionProxy`, whose `transactionDataIndex_` is a plain `uint32_t`.
So two commits may run on one proxy, and the model lets them interleave at each read
and write of the count and at each parcel that is sent; the number that `SetIndex`
gets may be the one just computed or one read again. When they do overlap

* a number may be used twice, and a later number may be sent before an earlier one;
* the main thread may then wait for a number that is not lost but not sent yet, give
  it up after the limit, and process it after its successor;
* of two transactions with one number the second waits for the limit like one that
  follows a gap.

No document of the repository says what should happen then. The properties say what
is kept. No transaction is processed twice and none is processed while it is
still waiting, in any case. That they are processed in the order of their numbers, and
that the main thread waits only for what was lost, is promised for the connections on
which no two commits ran at a time; the history variable `overlapped` collects the
others (`Before`, `Alternating`). The runs have both kinds of behaviour.

### Runs

| Run | States | Asks |
|---|---|---|
| `rt_core` | 1 650 000 | one client with two threads that connect and two that commit, two parcels, everything may fail: `NoneOvertaken`, `WaitsOnlyForTheLost`, `ServedWhileConnected` |
| `rt_live` | 24 000 | one connection, two threads that commit, two parcels, everything may fail: `ReceivedIsProcessed`, `DeadAreForgotten` |
| `rc_replaced` | - | a comment the code does not keep, see section 8 |

Bounds: of two parcels one may be lost or late, on the slower of the two ways or not
sent yet, while the other waits; they belong to one commit, to two in turn or to two
at a time. The proofs are for any number. A frame is `SkipLimit` frames after another
or right after it. Two threads of one client make two connections, one replacing the
other. The state per process is
separate in the code, so one process shows what a process can see. Clients may
stop at any time, hence no deadlock check.

Fairness (`FairSpec`): threads of the service finish what they have begun. The
main thread's queue is first in, first out, so `CleanTask` and `OnVsync` get their
turn between forced refreshes, which is strong fairness. Clients owe nothing.
`ReceivedIsProcessed` is about clients that keep living and have one connection. A
gap in the numbers is ended by a later frame, which somebody must ask for.

### Proofs

`RSConnectionsProofs` assumes what the modules assume of their constants.

* `ServedCorrect`: `Spec => []ServedWhileConnected`, for any processes, threads, numbers
  and failures. Only a cleaning takes a client from the main thread. The inductive
  invariant `ServeInv` says why the one connection of a living client is not
  cleaned: the death recipient does not run for it, and the destructor does not,
  because its `CreateConnection` refers to it until `connections_` does, and no
  other connection of the process replaces or erases that entry (`Living`); that a
  hub has only connections that were made, by calls that returned (`Made`); and that
  such a call told the main thread. `Single`, which counts, enters only through
  `SingleUnreplaced`. The hypothesis is in the property: for a client whose
  connection was replaced it fails, which is `rc_replaced`.

* `NeverOvertaken`: `Spec => []NoneOvertaken`. A transaction of a connection is
  with the commit that numbered it, on the wire, at the stub, with the unmarshalling
  thread, in a task or pending, and each of these is in order, as are any two of them
  after each other (`WireOrder`, `ArrivalOrder`, `TaskOrder`, `BarrierOnce`; together
  `OrderInv`). `FrameOrder` says of a frame that is due that what it will find comes
  before what is too late for it, and `ProcessedOrder` that what was processed comes
  before all that has arrived since. `SendInv` is about the commits: what they have
  numbered comes after what was sent (`SentOrder`), no two have the same transaction,
  and while no two commits overlapped on a proxy its count is how many parcels it
  numbered, so that a transaction's number is its identity (`Counted`, `InRange`).
* `WaitsForTheLost`: `Spec => []WaitsOnlyForTheLost`. `LossInv` adds that what is
  coming has a number beyond the last one processed, and that while a client waits
  it is for a number before all that is coming (`WaitOrder`), for clients whose
  connection was not replaced and whose commits took turns.

Both need what the main thread's walk over the sorted transactions of a client
returns, which is a loop. It is written as a recursive function (`Walked`), whose
defining equation holds for each length of the walk, and a fact about it is shown by
its least counterexample: the set of the lengths for which it fails, if not empty,
has a smallest member (`Smallest`, `UpTo`). The two liveness properties stay with TLC.

## 7. The platform

### The event queue

`EventQueue` is an `EventRunner` in a thread of its own with its queue and its
handlers.

| Code | Actions |
|---|---|
| `EventHandler::SendEvent`, `SendSyncEvent`, `EventQueue::Insert` | `SendEvent`, `SendSyncEvent`, `Insert`, `SyncReturn` |
| `EventQueue::Remove`, `RemoveAll` of an owner | `RemoveEvent`, `RemoveAllEvents` |
| `~EventHandler`, `RemoveOrphan`, `~EventRunner`, `Finish` | `DropHandler`, `RemoveOrphan`, `DropRunner`, `Finish` |
| `EventRunnerImpl::Run`, `ExecuteEventHandler` | `Prepare`, `CheckOwner`, `Dispatch`, `Distributed` |
| `EventQueue::GetEvent` with `GetExpiredEventLocked`, `PickEventLocked` | `GetEvent`: one turn of its loop, with `Ready` and `Pick` |
| time | `Tick` |

References to handlers and to the runner are sets of those who hold them, so the
last one is known: the runner's thread may be it, for a handler it is running.
`overtaken`, how many events in a row were picked past a LOW one that was due before
all of them, is a history variable.

| Run | States | Asks |
|---|---|---|
| `eq_core` | 110 000 | `NeverOversleeps`, `PostedInOrder`, `LowIsServed`, `NoOrphanLeft`, `EventHandled`, `RunnerEnds` |

Bounds: one sender beside the runner's own handler, three events of priorities
IMMEDIATE, LOW and IDLE, delays of 0 and 1, one event per turn. Three events are
enough for one to overtake another and a third to be inserted while the thread
sleeps. Fairness: threads inside a call go on and time passes; nobody has to post
or to let go. Once everything is gone the system stops, hence no deadlock check.

`EventQueueProofs` assumes what `EventQueue` assumes of its constants, for any
number of senders, handlers, events, priorities and delays.

* `TypeCorrect` (`TypeOK`), `SleepsInTime` (`NeverOversleeps`), `OrderKept`
  (`PostedInOrder`), `LowServed` (`LowIsServed`), `OrphansLeave` (`NoOrphanLeft`),
  all from one inductive invariant, `QueueInv`:
  * `ListsOK`: each list is sorted by due time, holds events of its own priority,
    and two events that one thread posted with the same delay are in the order it
    posted them (`Fifo`);
  * `Scalars`, `Standing`: types, and which places each kind of thread may be at;
  * `Posting`: an event between `SendEvent` and `Insert` is the latest its thread has
    sent, and the thread refers to the handler that owns it, so no orphan is made by
    inserting it;
  * `WakesInTime`: while the runner waits and nobody has notified it, `wakeUpTime` is
    not after any event of the sub event queues.

  A removal, by identity or of all events of a handler, makes each list a selection
  of itself that keeps the order (`Thinned`, `Fewer`); an insertion puts an event in
  after those due no later (`InsertedList`). A selection is written as a recursive
  function (`Without`) and what it keeps is shown by induction over lengths, as a set
  of numbers.
* `LowServed` rests on `TurnsUsed`: each pick in a row that passes over a waiting LOW
  event uses up a turn of IMMEDIATE or of HIGH, and the counts are bounded. The
  statement is about picks in a row. Counted per event it fails with two senders: an
  event that is due before a LOW one but is inserted later takes its place before
  it, and its own pick sets the counts back, so that the LOW event may be overtaken
  anew as often.

`EventHandled` and `RunnerEnds` are liveness and stay with TLC.

Known behaviours outside the properties: an idle event does not wake the thread
(`event_queue.cpp:124`), so `EventHandled` is about the other priorities; the
temporary reference that `Remove`'s filter takes (`event_queue.cpp:166`) may
become the last one, and `~EventHandler` then locks the queue's mutex again (the
model's filters hold no reference); `ThreadCollector`, which may stop a thread
before its `Prepare`, is left out, as are file descriptor listeners.

### References

`RefBase` is one object with its `RefCounter` and the `sptr` and `wptr` variables
that name it; each variable is an actor and each atomic operation a step.

| Code | Actions |
|---|---|
| `IncStrongRef` | `CopyStrong`, `IncWeak`, `IncLoad`, `IncAdd`, `IncFix` |
| `AttemptIncStrongRef` | `Promote`, `AttLoad`, `AttWeak`, `AttSwap`, `AttReload`, `AttFail` |
| `DecStrongRef` | `DropStrong`, `DecLoad`, `DecSub`, `DecCall` |
| `DecWeakRefCount`, `DecRefCount` | `WeakLoad`, `WeakSub`, `WeakLast`, `RefLoad`, `RefSub` |
| `wptr`, `WeakRefCounter` | `NewWeak`, `NewRef`, `CopyWeak`, `OwnAdd`, `NewWeakCount`, `DropWeak`, `OwnSub`, `DelLoad`, `DelSub` |

The atomics are taken as sequentially consistent. `ExtendObjectLifetime` and
`AttemptAcquire` have no caller and are left out.

| Run | States | Asks |
|---|---|---|
| `rb_core` | 161 000 | three `sptr`, two `wptr`: `ObjectAlive`, `CounterOutlivesUsers`, `NothingLeaks`, `PromoteFailsOnlyWhenGone` |

Three strong pointers are enough for one to be promoted while two others are
dropped; two weak ones share a `WeakRefCounter` or have one each. Everything may
be dropped in the end, hence no deadlock check.

`EarlyWeak` lets a constructor hand out `wptr(this)` before the creator has its
first `sptr`, as that of `RSRenderServiceConnection` does for its death
recipients. It is FALSE in the run: with it `ObjectAlive` fails, as the weak
pointer may be promoted and dropped first.

### Proofs

`RefBaseProofs` assumes what `RefBase` assumes of its constants: finitely many
variables, and an `INITIAL_PRIMARY_VALUE` larger than there are of them.

* `TypeCorrect`: `Spec => []TypeOK`. Its inductive form adds that a `wptr` that
  only gives up counts reads no other pointer.
* `ObjectCorrect`: `~EarlyWeak` implies `Spec => []ObjectAlive`. The inductive
  invariant `ObjectInv` says what `atomicStrong_` counts: the strong pointers
  that are held, being fixed, or not yet decremented (`Counted`,
  `StrongOK`). It is exactly that from the moment the first `sptr` is complete;
  before, the count is `INITIAL_PRIMARY_VALUE` and no other variable exists
  (`FreshOK`, `FirstOK`), which `EarlyWeak` would break. A copy reads a held
  pointer (`CopyOK`), so the count is positive when it is raised; a promotion
  raises a positive count only; the one that decrements the count from 1 leaves
  `Counted` empty for good (`LastOK`).

The other four theorems share the inductive invariant `CounterInv` and the hypothesis
`~EarlyWeak`: without it the object may die under its creator, and nothing that
follows is about a live counter. It says what each count counts between any two
atomic operations, not only at rest:

* `own` of a `WeakRefCounter` its `wptr`s that have not given up their share (`OwnOK`);
* `atomicWeak_` the `sptr`s with a share and the `WeakRefCounter`s registered (`WeakOK`);
* `atomicRefCount_` the `WeakRefCounter`s that refer to the `RefCounter` and, until it is
  given up, the share of the object (`RefsOK`), which exactly one thread gives up,
  when `atomicWeak_` has fallen to zero (`GiverOK`);
* a pointer being copied or promoted is held (`ReadOK`), a `wptr` names a
  `WeakRefCounter` unless it is null (`NamedOK`) and is alone with it while it makes
  or deletes it (`AloneOK`), and a deleted `RefCounter` has nobody left (`FreedOK`).

From it follow `CounterCorrect` (`CounterOutlivesUsers`), `CountsCorrect`
(`CountsAgree`, what `refbase.h:238` says of the counts at rest; no run checks it, as
the theorem does), `LeakCorrect` (`NothingLeaks`) and, with `GoneOK` and `TriedOK` on
what a promotion that lost a race has seen, `PromoteCorrect`
(`PromoteFailsOnlyWhenGone`).

## 8. Disagreements between code and comments

| Run | Statement | What the code does |
|---|---|---|
| `bq_lost_wakeup` | `buffer_queue.cpp:739`: "if increase the queue size, try to wakeup the blocked thread" | the size is written and notified without `mutex_`; a waiter that has just tested the predicate sleeps beside a free slot |
| `rc_replaced` | `rs_render_service.cpp:137`: "if connections_ has the same token one, replace it." | the destructor of the replaced connection cleans up for the process, after the new connection was added for it; the main thread forgets the client and drops its transactions |

## 9. Not modelled

* Drawing, effects, animation, wrappers of OpenGL and Vulkan, EGL, drivers,
  parcels and C interfaces: they compute data or do I/O and have no protocol.
* Buffer metadata, `SetTunnelHandle`, the delete listener.
* `VSyncSampler`: means and trigonometric functions of nanoseconds; what it does to
  the generator is modelled as a new mode at any moment.
* The HDI back end: calls into a vendor's device in a fixed order on one thread.
* The sync fence tracker: a thread that waits for one kernel fence after another.
* The window manager server: one task loop runs nearly every operation, so it has no
  interleaving of its own, and most of what it does is answered by processes
  outside this repository.
* Screens, render nodes and hardware threads of the render service.

Every safety property of the runs that pass is proved. Their liveness properties need
fairness and ENABLED, which this prover does not handle, and stay with TLC. What is left
to model, if the code moves that way: the screen manager and hardware threads of the
render service, and divided rendering.

`PROJECT.json` names each component and lists the hazards at their lines, also
those no property covers, with the reason.
