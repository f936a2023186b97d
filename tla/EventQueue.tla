----------------------------- MODULE EventQueue -----------------------------
(***************************************************************************)
(* The event queue of an EventRunner that runs in a thread of its own: the *)
(* threads that post events to handlers, the runner's thread that takes    *)
(* events out and hands them to their handlers, and the end of handlers    *)
(* and runner, whose lifetimes shared_ptr counts decide.                   *)
(*                                                                         *)
(* Every step is one critical section of queueLock_, or one step between   *)
(* two of them that others can see.  The runner sleeps in NoneIoWaiter;    *)
(* file descriptor listeners and their waiter are left out.                *)
(***************************************************************************)
EXTENDS Integers, Sequences, FiniteSets, FiniteSetsExt, SequencesExt

CONSTANTS
    Senders,    \* threads that post events
    Runner,     \* the runner's thread
    Creator,    \* the thread that made the runner
    Handlers,   \* EventHandlers on this runner
    Priorities, \* the priorities in use
    Delays,     \* the delays in use
    MaxHandled, \* maxHandledEventsCount
    MaxSent,    \* bound on the events that are posted
    MaxTime,    \* bound on the clock
    None

IMMEDIATE == 0
HIGH == 1
LOW  == 2
IDLE == 3
SubQueues == {IMMEDIATE, HIGH, LOW}

ASSUME EventAssumption ==
    /\ Priorities \subseteq SubQueues \cup {IDLE} /\ Delays \subseteq Nat
    /\ MaxHandled \in Nat /\ MaxSent \in Nat /\ MaxTime \in Nat
ASSUME EventThreadAssumption ==
    /\ Runner # Creator /\ {Runner, Creator} \cap Senders = {}
    /\ Creator \notin Handlers

Threads == Senders \cup {Runner, Creator}
Never == MaxTime + 1  \* TimePoint::max()
Event == [id : 1..MaxSent, owner : Handlers, from : Senders \cup {Runner},
          priority : Priorities, send : 0..MaxTime, handle : 0..MaxTime]

VARIABLES
    queue,         \* subEventQueues_[0..2].queue and, at IDLE, idleEvents_
    handled,       \* handledEventsCount of each sub event queue
    overtaken,     \* history: events picked in a row past a LOW one that was the oldest
    wakeUpTime,    \* wakeUpTime_
    isIdle,        \* isIdle_
    idleTimeStamp, \* idleTimeStamp_
    finished,      \* finished_
    pred,          \* NoneIoWaiter::pred_
    now,           \* the clock
    sent,          \* events posted so far
    pc,            \* where each thread stands
    arg,           \* the event it posts or waits for, or the handler it destroys
    current,       \* the event the runner's thread holds
    held,          \* the threads that hold each handler
    runnerRefs     \* who holds the EventRunner: its creator, its handlers

listVars   == <<queue, handled, overtaken>>
sleepVars  == <<wakeUpTime, isIdle, idleTimeStamp, finished, pred>>
threadVars == <<pc, arg, current>>
refVars    == <<held, runnerRefs>>
vars == <<listVars, sleepVars, now, sent, threadVars, refVars>>

Init ==
    /\ queue = [p \in SubQueues \cup {IDLE} |-> <<>>]
    /\ handled = [p \in SubQueues |-> 0] /\ overtaken = 0
    /\ wakeUpTime = Never /\ isIdle = TRUE /\ idleTimeStamp = 0
    /\ finished = TRUE /\ pred = FALSE
    /\ now = 0 /\ sent = 0
    /\ pc = [t \in Threads |-> IF t = Runner THEN "start" ELSE "idle"]
    /\ arg = [t \in Threads |-> None]
    /\ current = None
    /\ held = [h \in Handlers |-> Senders]
    /\ runnerRefs = Handlers \cup {Creator}

Tick ==
    /\ now < MaxTime /\ now' = now + 1
    /\ UNCHANGED <<listVars, sleepVars, sent, threadVars, refVars>>

Goto(t, l, a) == pc' = [pc EXCEPT ![t] = l] /\ arg' = [arg EXCEPT ![t] = a]
Notify == pred' = (pred \/ pc[Runner] = "waiting")

-----------------------------------------------------------------------------
(* Posting: EventHandler sets the times, and EventQueue takes the event in *)
(* under its lock.                                                         *)

(* SendEvent up to Insert.  The runner's thread posts from the handler it  *)
(* is running.                                                             *)
SendEvent(t, h, p, d) ==
    /\ t \in held[h] /\ sent < MaxSent /\ now + d <= MaxTime
    /\ pc[t] = IF t = Runner THEN "running" ELSE "idle"
    /\ sent' = sent + 1
    /\ Goto(t, "insert",
            [id |-> sent + 1, owner |-> h, from |-> t, priority |-> p,
             send |-> now, handle |-> now + d])
    /\ UNCHANGED <<listVars, sleepVars, now, current, refVars>>

(* SendSyncEvent on another thread's runner: posted at once, then awaited. *)
SendSyncEvent(t, h, p) ==
    /\ t \in Senders /\ p # IDLE /\ t \in held[h] /\ sent < MaxSent
    /\ pc[t] = "idle"
    /\ sent' = sent + 1
    /\ Goto(t, "insertSync",
            [id |-> sent + 1, owner |-> h, from |-> t, priority |-> p,
             send |-> now, handle |-> now])
    /\ UNCHANGED <<listVars, sleepVars, now, current, refVars>>

(* InsertEventsLocked: std::upper_bound by handle time.                    *)
InsertFaultLowerBound(q, e) ==
    LET n == Cardinality({i \in DOMAIN q : q[i].handle < e.handle})
    IN  InsertAt(q, n + 1, e)
InsertSorted(q, e) ==
    LET n == Cardinality({i \in DOMAIN q : q[i].handle <= e.handle})
    IN  InsertAt(q, n + 1, e)

(* Insert's needNotify.                                                    *)
NeedNotifyFaultLater(e) == e.priority # IDLE /\ e.handle > wakeUpTime
NeedNotify(e) == e.priority # IDLE /\ e.handle < wakeUpTime

Insert(t) ==
    /\ pc[t] \in {"insert", "insertSync"}
    /\ LET e == arg[t]
       IN  /\ queue' = [queue EXCEPT ![e.priority] = InsertSorted(@, e)]
           /\ IF NeedNotify(e) THEN Notify ELSE UNCHANGED pred
           /\ IF pc[t] = "insertSync" THEN Goto(t, "awaited", e)
              ELSE Goto(t, IF t = Runner THEN "running" ELSE "idle", None)
    /\ UNCHANGED <<handled, overtaken, wakeUpTime, isIdle, idleTimeStamp, finished,
                   now, sent, current, refVars>>

Queued(id) == \E p \in DOMAIN queue : \E i \in DOMAIN queue[p] : queue[p][i].id = id

(* The event is recycled, by its distribution or its removal, and          *)
(* ClearEvent notifies the waiter.                                         *)
SyncReturn(t) ==
    /\ pc[t] = "awaited"
    /\ ~Queued(arg[t].id) /\ (current # None => current.id # arg[t].id)
    /\ Goto(t, "idle", None)
    /\ UNCHANGED <<listVars, sleepVars, now, sent, current, refVars>>

-----------------------------------------------------------------------------
(* Removing events, handlers and the runner.                               *)

Without(q, gone) ==
    LET kept[i \in 0..Len(q)] ==
          IF i = 0 THEN <<>>
          ELSE IF q[i] \in gone THEN kept[i - 1] ELSE Append(kept[i - 1], q[i])
    IN  kept[Len(q)]

(* The events that a filter can meet, and the removal of what it selects.  *)
Enqueued == UNION {ToSet(queue[p]) : p \in DOMAIN queue}
RemoveEvents(gone) == queue' = [p \in DOMAIN queue |-> Without(queue[p], gone)]

(* RemoveAllEvents                                                         *)
RemoveAllEvents(t, h) ==
    /\ t \in Senders /\ pc[t] = "idle" /\ t \in held[h]
    /\ RemoveEvents({e \in Enqueued : e.owner = h})
    /\ UNCHANGED <<handled, overtaken, sleepVars, now, sent, threadVars, refVars>>

(* RemoveEvent, RemoveTask: one event by its number or name.               *)
RemoveEvent(t, h) ==
    /\ t \in Senders /\ pc[t] = "idle" /\ t \in held[h]
    /\ \E id \in 1..sent : Queued(id) /\ RemoveEvents({e \in Enqueued : e.owner = h /\ e.id = id})
    /\ UNCHANGED <<handled, overtaken, sleepVars, now, sent, threadVars, refVars>>

Resume(t) == IF t = Runner THEN "get" ELSE "idle"

(* A thread gives up its reference; the last one runs ~EventHandler.       *)
Release(t, h) ==
    /\ held' = [held EXCEPT ![h] = @ \ {t}]
    /\ IF held[h] = {t} THEN Goto(t, "removeOrphan", h) ELSE Goto(t, Resume(t), None)

DropHandler(t, h) ==
    /\ t \in Senders /\ pc[t] = "idle" /\ t \in held[h]
    /\ Release(t, h)
    /\ UNCHANGED <<listVars, sleepVars, now, sent, current, runnerRefs>>

(* Giving up the runner; the last reference runs ~EventRunner.             *)
ReleaseRunner(t, ref) ==
    /\ runnerRefs' = runnerRefs \ {ref}
    /\ Goto(t, IF runnerRefs = {ref} THEN "finish" ELSE Resume(t), None)

(* ~EventHandler: RemoveOrphan, then the member eventRunner_ is destroyed. *)
OrphansFaultNotIdle == {e \in Enqueued : held[e.owner] = {} /\ e.priority # IDLE}
Orphans == {e \in Enqueued : held[e.owner] = {}}
RemoveOrphan(t) ==
    /\ pc[t] = "removeOrphan"
    /\ RemoveEvents(Orphans)
    /\ ReleaseRunner(t, arg[t])
    /\ UNCHANGED <<handled, overtaken, sleepVars, now, sent, current, held>>

DropRunner ==
    /\ Creator \in runnerRefs
    /\ ReleaseRunner(Creator, Creator)
    /\ UNCHANGED <<listVars, sleepVars, now, sent, current, held>>

(* Finish, from ~EventRunner.                                              *)
Finish(t) ==
    /\ pc[t] = "finish"
    /\ finished' = TRUE /\ Notify
    /\ Goto(t, Resume(t), None)
    /\ UNCHANGED <<listVars, wakeUpTime, isIdle, idleTimeStamp, now, sent,
                   current, refVars>>

-----------------------------------------------------------------------------
(* The runner's thread: EventRunnerImpl::Run and EventQueue::GetEvent.     *)

Prepare ==
    /\ pc[Runner] = "start"
    /\ finished' = FALSE
    /\ Goto(Runner, "prepared", None)
    /\ UNCHANGED <<listVars, wakeUpTime, isIdle, idleTimeStamp, pred, now,
                   sent, current, refVars>>

(* owner_.expired()                                                        *)
AfterOwnerCheckFaultNone == "get"
AfterOwnerCheck == IF runnerRefs = {} THEN "ended" ELSE "get"
CheckOwner ==
    /\ pc[Runner] = "prepared"
    /\ Goto(Runner, AfterOwnerCheck, None)
    /\ UNCHANGED <<listVars, sleepVars, now, sent, current, refVars>>

HeadTime(p) == IF queue[p] = <<>> THEN Never ELSE Head(queue[p]).handle

(* The sub event queues in which CheckEventInListLocked finds an event to  *)
(* distribute: due, and earlier than the heads of all lists before.        *)
Ready == {p \in SubQueues : /\ HeadTime(p) <= now
                            /\ \A i \in 0..p - 1 : HeadTime(p) < HeadTime(i)}

(* PickEventLocked: the first that has not used up its turns, or the last. *)
PickFaultNoTurns == Min(Ready)
Pick == Min({p \in Ready : handled[p] < MaxHandled \/ p = Max(Ready)})

Handled(picked) ==
    [p \in SubQueues |->
        IF p < picked THEN 0
        ELSE IF p = picked /\ p # Max(Ready) THEN handled[p] + 1
        ELSE handled[p]]

Overtaken(picked) ==
    IF picked # LOW /\ \A p \in {IMMEDIATE, HIGH} : HeadTime(LOW) < HeadTime(p)
    THEN overtaken + 1 ELSE 0

(* GetExpiredEventLocked's idle event: posted before the idle time stamp.  *)
IdleReady(stamp) ==
    /\ queue[IDLE] # <<>>
    /\ Head(queue[IDLE]).send <= stamp /\ Head(queue[IDLE]).handle <= now

Take(p) ==
    /\ current' = Head(queue[p])
    /\ Goto(Runner, "dispatch", None)

(* NoneIoWaiter::WaitFor ends by its predicate or its timeout.             *)
SleepOverFaultNoTimeout == pred
SleepOver == pred \/ (wakeUpTime # Never /\ wakeUpTime <= now)

(* One turn of GetEvent's loop, entered from Run or from the wait.  The    *)
(* value that a pick leaves in wakeUpTime_ is overwritten before any wait. *)
GetEvent ==
    /\ pc[Runner] = "get" \/ (pc[Runner] = "waiting" /\ SleepOver)
    /\ pred' = FALSE
    /\ \/ /\ finished
          /\ Goto(Runner, "ended", None)
          /\ UNCHANGED <<listVars, wakeUpTime, isIdle, idleTimeStamp, current>>
       \/ /\ ~finished /\ Ready # {}
          /\ Take(Pick)
          /\ queue' = [queue EXCEPT ![Pick] = Tail(@)]
          /\ handled' = Handled(Pick) /\ overtaken' = Overtaken(Pick)
          /\ wakeUpTime' = Min({HeadTime(p) : p \in SubQueues})
          /\ isIdle' = FALSE /\ UNCHANGED idleTimeStamp
       \/ /\ ~finished /\ Ready = {}
          /\ wakeUpTime' = Min({HeadTime(p) : p \in SubQueues})
          /\ isIdle' = TRUE
          /\ idleTimeStamp' = IF isIdle THEN idleTimeStamp ELSE now
          /\ UNCHANGED <<handled, overtaken>>
          /\ IF IdleReady(idleTimeStamp')
             THEN Take(IDLE) /\ queue' = [queue EXCEPT ![IDLE] = Tail(@)]
             ELSE Goto(Runner, "waiting", None) /\ UNCHANGED <<queue, current>>
    /\ UNCHANGED <<finished, now, sent, refVars>>

(* GetOwner: the runner's thread holds the handler while it runs, or drops *)
(* the event of a handler that is gone.                                    *)
Dispatch ==
    /\ pc[Runner] = "dispatch"
    /\ IF held[current.owner] # {}
       THEN /\ held' = [held EXCEPT ![current.owner] = @ \cup {Runner}]
            /\ Goto(Runner, "running", None)
            /\ UNCHANGED current
       ELSE /\ Goto(Runner, "get", None)
            /\ current' = None
            /\ UNCHANGED held
    /\ UNCHANGED <<listVars, sleepVars, now, sent, runnerRefs>>

(* DistributeEvent returns, the event is recycled, the handler released.   *)
Distributed ==
    /\ pc[Runner] = "running"
    /\ current' = None
    /\ Release(Runner, current.owner)
    /\ UNCHANGED <<listVars, sleepVars, now, sent, runnerRefs>>

-----------------------------------------------------------------------------
Next ==
    \/ Tick \/ DropRunner \/ Prepare \/ CheckOwner \/ GetEvent \/ Dispatch \/ Distributed
    \/ \E t \in Threads :
        \/ Insert(t) \/ SyncReturn(t) \/ RemoveOrphan(t) \/ Finish(t)
        \/ \E h \in Handlers :
            \/ RemoveAllEvents(t, h) \/ RemoveEvent(t, h) \/ DropHandler(t, h)
            \/ \E p \in Priorities :
                SendSyncEvent(t, h, p) \/ \E d \in Delays : SendEvent(t, h, p, d)

Spec == Init /\ [][Next]_vars

(* Threads inside a call go on and time passes; nobody has to post or let go. *)
Fairness ==
    /\ WF_vars(Tick) /\ WF_vars(Prepare) /\ WF_vars(CheckOwner) /\ WF_vars(GetEvent)
    /\ WF_vars(Dispatch) /\ WF_vars(Distributed)
    /\ \A t \in Threads : WF_vars(Insert(t)) /\ WF_vars(SyncReturn(t))
                          /\ WF_vars(RemoveOrphan(t)) /\ WF_vars(Finish(t))
FairSpec == Spec /\ Fairness
=============================================================================
