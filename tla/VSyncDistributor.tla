-------------------------- MODULE VSyncDistributor --------------------------
(***************************************************************************)
(* The vsync distributor of rosen/modules/composer/vsync, with the         *)
(* controller and generator it listens to and the sockets of its clients.  *)
(*                                                                         *)
(* One thread (ThreadMain) takes the pending vsync event under mutex_ and  *)
(* posts it, without mutex_, to the connections that are due.  Binder      *)
(* threads request events and set rates, the generator's thread brings     *)
(* events, clients read their sockets or close them.  What mutex_ protects *)
(* is one step; waiting releases mutex_ in that same step.                 *)
(*                                                                         *)
(* Time is left out: the 16 ms of the software vsync may pass at any       *)
(* moment, and a pending event is a flag.  The order in which one event    *)
(* reaches the connections is left open.  An operator named ...Fault... is *)
(* a mistake one could make in the definition that follows it.             *)
(***************************************************************************)
EXTENDS Integers, FiniteSets

CONSTANTS
    Connections,     \* VSyncConnection objects
    Rates,           \* rates asked for by SetVSyncRate
    HighRates,       \* rates set by quality of service
    RateCycle,       \* bound: vsyncCount is kept modulo RateCycle
    OwnConnections,  \* those with receivers in the service's own process
    RatedConnections, \* those whose rates are set
    SocketSize       \* bound: events a client's socket holds

ASSUME DistributorAssumption ==
    /\ RateCycle \in Nat \ {0} /\ SocketSize \in Nat \ {0}
    /\ Rates \cup HighRates \subseteq 1..RateCycle
    /\ \A r \in Rates \cup HighRates : RateCycle % r = 0

VARIABLES
    connections,       \* connections_
    rate,              \* rate_: -1 nothing wanted, 0 the next event, n every n-th
    highPriorityRate,  \* highPriorityRate_, -1 while highPriorityState_ is false
    eventPending,      \* event_.timestamp # 0
    vsyncCount,        \* event_.vsyncCount
    vsyncEnabled,      \* vsyncEnabled_: the controller is the generator's listener
    callingBack,       \* the generator is about to call the controller
    pc,                \* where ThreadMain stands
    conns,             \* the connections it has still to post to
    failed,            \* the one of them whose post has just failed, if any
    destructor,        \* how far ~VSyncDistributor has come
    peer,              \* each client: see Peers
    socket,            \* events in its socket
    postVSyncCount     \* the connection's postVSyncCount_, modulo 2

queueVars  == <<eventPending, vsyncCount>>
postVars   == <<conns, failed>>
threadVars == <<pc, postVars, vsyncEnabled>>
clientVars == <<peer, socket, postVSyncCount>>
vars == <<connections, rate, highPriorityRate, queueVars, threadVars, callingBack, destructor,
          clientVars>>

Init ==
    /\ connections = {}
    /\ rate = [c \in Connections |-> -1]
    /\ highPriorityRate = [c \in Connections |-> -1]
    /\ eventPending = FALSE /\ vsyncCount = 0
    /\ vsyncEnabled = FALSE /\ callingBack = FALSE
    /\ pc = "loop" /\ conns = {} /\ failed = {}
    /\ destructor = "none"
    /\ peer = [c \in Connections |-> "new"]
    /\ socket = [c \in Connections |-> 0]
    /\ postVSyncCount = [c \in Connections |-> 0]

(* A client reads its socket; or its process died, and the service's own    *)
(* copy of the descriptor keeps the socket open; or it is the service's    *)
(* own receiver, which closed that descriptor.                             *)
Peers == {"new", "reading", "dead", "closed"}

Running == destructor = "none"     \* vsyncThreadRunning_

(* con_.notify_all(): the thread leaves its wait.  In the timed wait it    *)
(* may still find that the time has passed.                                *)
NotifyAll ==
    pc' = CASE pc = "waiting"   -> "loop"
            [] pc = "softWait"  -> "softWoken"
            [] OTHER            -> pc

----------------------------------------------------------------------------
(* CollectConnections                                                      *)

EffectiveRate(c) == IF highPriorityRate[c] # -1 THEN highPriorityRate[c] ELSE rate[c]
Wanting ==
    {c \in connections :
       \/ EffectiveRate(c) = 0
       \/ EffectiveRate(c) > 0 /\ rate[c] >= 0}
Due ==
    {c \in Wanting : EffectiveRate(c) > 0 => vsyncCount % EffectiveRate(c) = 0}
TakeRequestsFaultKept(S) == UNCHANGED rate
TakeRequests(S) ==
    rate' = [c \in Connections |-> IF c \in S /\ rate[c] = 0 THEN -1 ELSE rate[c]]

----------------------------------------------------------------------------
(* ThreadMain                                                              *)

LoopTest ==
    /\ pc = "loop"
    /\ pc' = IF Running THEN "take" ELSE "ended"
    /\ UNCHANGED <<connections, rate, highPriorityRate, queueVars, postVars, vsyncEnabled,
                   callingBack, destructor, clientVars>>

(* An event and somebody who waits for events: those due get it.           *)
TakeEvent ==
    /\ pc = "take" /\ eventPending /\ Wanting # {}
    /\ eventPending' = FALSE
    /\ TakeRequests(Due)
    /\ conns' = Due
    /\ pc' = IF Due = {} THEN "loop" ELSE "post"
    /\ UNCHANGED <<connections, highPriorityRate, vsyncCount, failed, vsyncEnabled, callingBack,
                   destructor, clientVars>>

(* An event nobody waits for: vsync goes off.                              *)
DisableVSyncFaultForgets == UNCHANGED vsyncEnabled
DisableVSync == vsyncEnabled' = FALSE
TakeUnwanted ==
    /\ pc = "take" /\ eventPending /\ Wanting = {}
    /\ eventPending' = FALSE
    /\ DisableVSync
    /\ pc' = "loop"
    /\ UNCHANGED <<connections, rate, highPriorityRate, vsyncCount, postVars, callingBack,
                   destructor, clientVars>>

(* No event, and vsync was off: it goes on, and the thread waits 16 ms for *)
(* the generator before it makes an event itself.                          *)
TakeEnables ==
    /\ pc = "take" /\ ~eventPending /\ Wanting # {} /\ ~vsyncEnabled
    /\ vsyncEnabled' = TRUE
    /\ pc' = "softWait"
    /\ UNCHANGED <<connections, rate, highPriorityRate, queueVars, postVars, callingBack,
                   destructor, clientVars>>

MayWaitFaultUnchecked == TRUE
MayWait == Running
TakeWaits ==
    /\ pc = "take" /\ ~eventPending /\ (Wanting = {} \/ vsyncEnabled)
    /\ pc' = IF MayWait THEN "waiting" ELSE "loop"
    /\ UNCHANGED <<connections, rate, highPriorityRate, queueVars, postVars, vsyncEnabled,
                   callingBack, destructor, clientVars>>

CountEvent == vsyncCount' = (vsyncCount + 1) % RateCycle

(* wait_for ends: by its time, also when it was notified in that moment,   *)
(* or by the notification alone.                                           *)
SoftwareVSync ==
    /\ pc \in {"softWait", "softWoken"}
    /\ eventPending' = TRUE /\ CountEvent
    /\ pc' = "loop"
    /\ UNCHANGED <<connections, rate, highPriorityRate, postVars, vsyncEnabled, callingBack,
                   destructor, clientVars>>
SoftwareWaitNotified ==
    /\ pc = "softWoken"
    /\ pc' = "loop"
    /\ UNCHANGED <<connections, rate, highPriorityRate, queueVars, postVars, vsyncEnabled,
                   callingBack, destructor, clientVars>>

PostedTo(c) ==
    /\ conns' = conns \ {c} /\ failed' = {}
    /\ pc' = IF conns = {c} THEN "loop" ELSE "post"

SocketTakes(c) == peer[c] # "closed" /\ socket[c] < SocketSize

PostEvent(c) ==
    /\ pc = "post" /\ c \in conns /\ SocketTakes(c)
    /\ socket' = [socket EXCEPT ![c] = @ + 1]
    /\ postVSyncCount' = [postVSyncCount EXCEPT ![c] = (@ + 1) % 2]
    /\ PostedTo(c)
    /\ UNCHANGED <<connections, rate, highPriorityRate, queueVars, vsyncEnabled, callingBack,
                   destructor, peer>>

(* SendData has failed; mutex_ is taken only after it.  Only a socket that *)
(* is closed, not one that is full, ends the connection.                   *)
AfterFailureFaultDrops(c) == "drop"
AfterFailure(c) == IF peer[c] = "closed" THEN "drop" ELSE "retry"
PostFails(c) ==
    /\ pc = "post" /\ c \in conns /\ ~SocketTakes(c)
    /\ failed' = {c}
    /\ pc' = AfterFailure(c)
    /\ UNCHANGED <<connections, rate, highPriorityRate, queueVars, conns, vsyncEnabled,
                   callingBack, destructor, clientVars>>

(* EAGAIN: unless a rate was set or another request made, the request is   *)
(* made again.                                                             *)
RetryLater(c) == rate' = [rate EXCEPT ![c] = IF @ < 0 THEN 0 ELSE @]
RetryPost(c) ==
    /\ pc = "retry" /\ c \in failed
    /\ RetryLater(c)
    /\ PostedTo(c)
    /\ UNCHANGED <<connections, highPriorityRate, queueVars, vsyncEnabled, callingBack,
                   destructor, clientVars>>

DropConnection(c) ==
    /\ pc = "drop" /\ c \in failed
    /\ connections' = connections \ {c}
    /\ PostedTo(c)
    /\ UNCHANGED <<rate, highPriorityRate, queueVars, vsyncEnabled, callingBack, destructor,
                   clientVars>>

ThreadMain ==
    \/ LoopTest \/ TakeEvent \/ TakeUnwanted \/ TakeEnables \/ TakeWaits
    \/ SoftwareWaitNotified
    \/ \E c \in Connections :
         PostEvent(c) \/ PostFails(c) \/ RetryPost(c) \/ DropConnection(c)

----------------------------------------------------------------------------
(* The generator's thread, through the controller.  It copies its due      *)
(* listeners under its own lock and calls them without it, so a call may   *)
(* come after DisableVSync.  The model ends with the distributor: a call   *)
(* that comes later still reaches it in the code, and is undefined.        *)

GetListenerTimeouted ==
    /\ vsyncEnabled /\ ~callingBack /\ pc # "ended"
    /\ callingBack' = TRUE
    /\ UNCHANGED <<connections, rate, highPriorityRate, queueVars, threadVars, destructor,
                   clientVars>>

OnVSyncEvent ==
    /\ callingBack /\ pc # "ended" /\ callingBack' = FALSE
    /\ eventPending' = TRUE /\ CountEvent
    /\ NotifyAll
    /\ UNCHANGED <<connections, rate, highPriorityRate, postVars, vsyncEnabled, destructor,
                   clientVars>>

----------------------------------------------------------------------------
(* The clients and the render service.                                     *)

(* CreateVSyncConnection makes a connection, and adds it.                 *)
AddConnection(c) ==
    /\ Running /\ peer[c] = "new"
    /\ connections' = connections \cup {c}
    /\ peer' = [peer EXCEPT ![c] = "reading"]
    /\ UNCHANGED <<rate, highPriorityRate, queueVars, threadVars, callingBack, destructor,
                   socket, postVSyncCount>>

RemoveConnection(c) ==
    /\ Running /\ c \in connections
    /\ connections' = connections \ {c}
    /\ UNCHANGED <<rate, highPriorityRate, queueVars, threadVars, callingBack, destructor,
                   clientVars>>

RequestNextVSyncFaultSilent(c) ==
    /\ Running /\ c \in connections /\ peer[c] = "reading"
    /\ rate[c] < 0
    /\ rate' = [rate EXCEPT ![c] = 0]
    /\ UNCHANGED <<connections, highPriorityRate, queueVars, pc, postVars, vsyncEnabled, callingBack,
                   destructor, clientVars>>
RequestNextVSync(c) ==
    /\ Running /\ c \in connections /\ peer[c] = "reading"
    /\ rate[c] < 0
    /\ rate' = [rate EXCEPT ![c] = 0]
    /\ NotifyAll
    /\ UNCHANGED <<connections, highPriorityRate, queueVars, postVars, vsyncEnabled, callingBack,
                   destructor, clientVars>>

SetVSyncRate(c, r) ==
    /\ Running /\ c \in connections \cap RatedConnections /\ peer[c] = "reading"
    /\ rate[c] # r
    /\ rate' = [rate EXCEPT ![c] = r]
    /\ NotifyAll
    /\ UNCHANGED <<connections, highPriorityRate, queueVars, postVars, vsyncEnabled, callingBack,
                   destructor, clientVars>>

(* SetHighPriorityVSyncRate, and SetQosVSyncRate with a positive rate.     *)
SetHighPriorityVSyncRate(c, r) ==
    /\ Running /\ c \in connections \cap RatedConnections
    /\ highPriorityRate[c] # r
    /\ highPriorityRate' = [highPriorityRate EXCEPT ![c] = r]
    /\ NotifyAll
    /\ UNCHANGED <<connections, rate, queueVars, postVars, vsyncEnabled, callingBack, destructor,
                   clientVars>>

(* VSyncCallBackListener::OnReadable reads all that is there.              *)
OnReadable(c) ==
    /\ peer[c] = "reading" /\ socket[c] > 0
    /\ socket' = [socket EXCEPT ![c] = 0]
    /\ UNCHANGED <<connections, rate, highPriorityRate, queueVars, threadVars, callingBack,
                   destructor, peer, postVSyncCount>>

ClientDies(c) ==
    /\ peer[c] = "reading" /\ c \notin OwnConnections
    /\ peer' = [peer EXCEPT ![c] = "dead"]
    /\ UNCHANGED <<connections, rate, highPriorityRate, queueVars, threadVars, callingBack,
                   destructor, socket, postVSyncCount>>

(* ~VSyncReceiver in the service's own process.                            *)
ReceiverCloses(c) ==
    /\ peer[c] = "reading" /\ c \in OwnConnections
    /\ peer' = [peer EXCEPT ![c] = "closed"]
    /\ socket' = [socket EXCEPT ![c] = 0]
    /\ UNCHANGED <<connections, rate, highPriorityRate, queueVars, threadVars, callingBack,
                   destructor, postVSyncCount>>

(* ~VSyncDistributor clears vsyncThreadRunning_, notifies, and joins the   *)
(* thread.                                                                 *)
Destroy ==
    /\ Running
    /\ destructor' = "cleared"
    /\ UNCHANGED <<connections, rate, highPriorityRate, queueVars, threadVars, callingBack,
                   clientVars>>
DestroyNotifies ==
    /\ destructor = "cleared"
    /\ destructor' = "joining"
    /\ NotifyAll
    /\ UNCHANGED <<connections, rate, highPriorityRate, queueVars, postVars, vsyncEnabled,
                   callingBack, clientVars>>

----------------------------------------------------------------------------
Next ==
    \/ ThreadMain \/ SoftwareVSync
    \/ GetListenerTimeouted \/ OnVSyncEvent
    \/ \E c \in Connections :
         \/ AddConnection(c) \/ RemoveConnection(c)
         \/ RequestNextVSync(c)
         \/ \E r \in Rates : SetVSyncRate(c, r)
         \/ \E r \in HighRates : SetHighPriorityVSyncRate(c, r)
         \/ OnReadable(c) \/ ClientDies(c) \/ ReceiverCloses(c)
    \/ Destroy \/ DestroyNotifies

Spec == Init /\ [][Next]_vars

(* The threads run, and the generator has a period (without one, only the  *)
(* first request is served, by the software vsync); the timed wait ends by *)
(* its time if by nothing else; living clients read what arrives, and the  *)
(* render service removes the connections of dead ones (CleanAll, called   *)
(* by their death recipient).                                              *)
Fairness ==
    /\ WF_vars(ThreadMain) /\ WF_vars(pc = "softWait" /\ SoftwareVSync)
    /\ WF_vars(GetListenerTimeouted) /\ WF_vars(OnVSyncEvent)
    /\ WF_vars(DestroyNotifies)
    /\ \A c \in Connections :
         WF_vars(OnReadable(c)) /\ WF_vars(peer[c] = "dead" /\ RemoveConnection(c))

FairSpec == Spec /\ Fairness

=============================================================================
