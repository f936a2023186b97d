-------------------------- MODULE EventQueueCorrect --------------------------
(* What the event queue and its runner promise.                            *)
EXTENDS EventQueue

Pcs == {"idle", "insert", "insertSync", "awaited", "removeOrphan", "finish",
        "start", "prepared", "get", "waiting", "dispatch", "running", "ended"}

(* Lists hold events of their own priority in the order of handle times,   *)
(* posted in the past, and the runner's thread holds the handler it runs.  *)
TypeOK ==
    /\ queue \in [SubQueues \cup {IDLE} -> Seq(Event)]
    /\ \A p \in DOMAIN queue : \A i \in DOMAIN queue[p] :
          /\ queue[p][i].priority = p /\ queue[p][i].send <= now
          /\ \A j \in 1..i - 1 : queue[p][j].handle <= queue[p][i].handle
    /\ handled \in [SubQueues -> 0..MaxHandled] /\ overtaken \in Nat
    /\ wakeUpTime \in 0..Never /\ idleTimeStamp \in 0..now
    /\ isIdle \in BOOLEAN /\ finished \in BOOLEAN /\ pred \in BOOLEAN
    /\ now \in 0..MaxTime /\ sent \in 0..MaxSent
    /\ pc \in [Threads -> Pcs] /\ DOMAIN arg = Threads
    /\ current \in Event \cup {None}
    /\ held \in [Handlers -> SUBSET (Senders \cup {Runner})]
    /\ runnerRefs \subseteq Handlers \cup {Creator}
    /\ pc[Runner] \in {"running", "insert"} => Runner \in held[current.owner]

(* The runner's thread never sleeps, un-notified, past the handle time of  *)
(* an ordinary event or after Finish: an Insert that does not notify knows *)
(* that the thread wakes in time, whatever was removed meanwhile.          *)
NeverOversleeps ==
    pc[Runner] = "waiting" /\ ~pred =>
        ~finished /\ \A p \in SubQueues : wakeUpTime <= HeadTime(p)

(* Tasks that one thread posts with one priority and delay stay in their   *)
(* order, even when the clock gives them the same time.                    *)
PostedInOrder ==
    \A p \in DOMAIN queue : \A i, j \in DOMAIN queue[p] :
        LET e == queue[p][i]
            f == queue[p][j]
        IN  i < j /\ e.from = f.from /\ e.handle - e.send = f.handle - f.send
            => e.id < f.id

(* While the oldest event of all is a LOW one, at most MaxHandled events of *)
(* each higher priority in use are picked before it, and those of the      *)
(* highest again after each of the other, however many are posted.         *)
Turns(p) == IF p \in Priorities THEN MaxHandled + 1 ELSE 1
LowIsServed == overtaken < Turns(IMMEDIATE) * Turns(HIGH)

(* The events of a handler that is gone leave with it: they wait only for  *)
(* the RemoveOrphan under way in its destructor.                           *)
NoOrphanLeft ==
    \A p \in DOMAIN queue : \A i \in DOMAIN queue[p] :
        held[queue[p][i].owner] = {} =>
            \E t \in Threads : pc[t] = "removeOrphan" /\ arg[t] = queue[p][i].owner

(* An ordinary event is distributed, or removed, once its time has come,   *)
(* unless the queue is finished.                                           *)
EventHandled ==
    \A id \in 1..MaxSent :
        (\E p \in SubQueues : \E i \in DOMAIN queue[p] : queue[p][i].id = id)
            ~> (finished \/ ~Queued(id))

(* When the runner is gone its thread ends and can be joined, also when    *)
(* Finish came before the thread's Prepare.                                *)
RunnerEnds == runnerRefs = {} ~> pc[Runner] = "ended"
=============================================================================
