----------------------- MODULE VSyncDistributorProofs -----------------------
(***************************************************************************)
(* Theorems about VSyncDistributor, for every set of connections, every    *)
(* rate and every size of a socket.                                        *)
(***************************************************************************)
EXTENDS VSyncDistributorCorrect, TLAPS

USE DEF Peers, Pcs, PostPcs, postVars

----------------------------------------------------------------------------
(* Lemmas about the operators of the model.                                *)

LEMMA WantingConnected ==
    ASSUME ConnectionTypeOK
    PROVE  /\ Wanting \subseteq connections
           /\ \A c \in Wanting : rate[c] >= 0
BY DistributorAssumption DEF Wanting, EffectiveRate, ConnectionTypeOK

LEMMA DueWanting == Due \subseteq Wanting
BY DEF Due

LEMMA TakeRequestsType ==
    ASSUME ConnectionTypeOK, NEW S, TakeRequests(S)
    PROVE  rate' \in [Connections -> {-1, 0} \cup Rates]
BY DEF TakeRequests, ConnectionTypeOK

LEMMA NotifyAllType ==
    ASSUME ThreadTypeOK, NotifyAll
    PROVE  /\ pc' \in Pcs /\ pc' # "waiting"
           /\ pc \in PostPcs => pc' = pc
           /\ pc' \in PostPcs => pc' = pc
BY DEF NotifyAll, ThreadTypeOK

LEMMA CountEventType ==
    ASSUME ThreadTypeOK, CountEvent
    PROVE  vsyncCount' \in 0..(RateCycle - 1)
BY DistributorAssumption DEF CountEvent, ThreadTypeOK

----------------------------------------------------------------------------
(* Type correctness: ThreadMain, then the generator, then everybody else.  *)

LEMMA InitType == Init => TypeOK
<1> SUFFICES ASSUME Init
             PROVE  TypeOK
  OBVIOUS
<1>1. ConnectionTypeOK /\ NewOK
  BY DEF Init, ConnectionTypeOK, NewOK
<1>2. ThreadTypeOK
  <2>1. vsyncCount \in 0..(RateCycle - 1)
    BY DistributorAssumption DEF Init
  <2>2. /\ pc \in Pcs /\ conns \subseteq Connections /\ (conns # {} <=> pc \in PostPcs)
        /\ failed \subseteq conns /\ pc # "drop"
    BY DEF Init
  <2>3. /\ eventPending \in BOOLEAN /\ vsyncEnabled \in BOOLEAN /\ callingBack \in BOOLEAN
        /\ destructor \in {"none", "cleared", "joining"}
    BY DEF Init
  <2> QED
    BY <2>1, <2>2, <2>3 DEF ThreadTypeOK
<1>3. ClientTypeOK
  BY DistributorAssumption DEF Init, ClientTypeOK
<1> QED
  BY <1>1, <1>2, <1>3 DEF TypeOK

LEMMA TakeType ==
    ASSUME TypeOK, TakeEvent \/ TakeUnwanted \/ TakeEnables \/ TakeWaits
    PROVE  TypeOK'
<1> USE DEF TypeOK
<1>1. CASE TakeEvent
  <2>1. ConnectionTypeOK'
    BY <1>1, TakeRequestsType DEF TakeEvent, ConnectionTypeOK
  <2>2. ThreadTypeOK'
    BY <1>1, WantingConnected, DueWanting DEF TakeEvent, ThreadTypeOK, ConnectionTypeOK
  <2>3. ClientTypeOK'
    BY <1>1 DEF TakeEvent, ClientTypeOK, clientVars
  <2>4. NewOK'
    BY <1>1, WantingConnected, DueWanting
    DEF TakeEvent, TakeRequests, NewOK, clientVars
  <2> QED
    BY <2>1, <2>2, <2>3, <2>4
<1>2. CASE TakeUnwanted
  BY <1>2 DEF TakeUnwanted, DisableVSync, ConnectionTypeOK, ThreadTypeOK, ClientTypeOK, NewOK,
              clientVars
<1>3. CASE TakeEnables
  BY <1>3 DEF TakeEnables, ConnectionTypeOK, ThreadTypeOK, ClientTypeOK, NewOK, clientVars,
              queueVars
<1>4. CASE TakeWaits
  BY <1>4 DEF TakeWaits, ConnectionTypeOK, ThreadTypeOK, ClientTypeOK, NewOK, clientVars,
              queueVars
<1> QED
  BY <1>1, <1>2, <1>3, <1>4

LEMMA PostedToType ==
    ASSUME ThreadTypeOK, NEW c \in conns, PostedTo(c)
    PROVE  /\ pc' \in Pcs /\ conns' \subseteq Connections /\ (conns' # {} <=> pc' \in PostPcs)
           /\ failed' \subseteq conns' /\ pc' # "drop"
BY DEF ThreadTypeOK, PostedTo

LEMMA PostType ==
    ASSUME TypeOK, NEW c \in Connections,
           PostEvent(c) \/ PostFails(c) \/ RetryPost(c) \/ DropConnection(c)
    PROVE  TypeOK'
<1> USE DEF TypeOK, queueVars
<1>1. CASE PostEvent(c)
  <2>1. ConnectionTypeOK' /\ NewOK'
    BY <1>1 DEF PostEvent, PostedTo, ConnectionTypeOK, NewOK
  <2>2. ThreadTypeOK'
    BY <1>1, PostedToType DEF PostEvent, ThreadTypeOK
  <2>3. ClientTypeOK'
    <3>1. socket[c] + 1 \in 0..SocketSize
      BY <1>1, DistributorAssumption DEF PostEvent, SocketTakes, ClientTypeOK
    <3>2. (postVSyncCount[c] + 1) % 2 \in {0, 1}
      BY DEF ClientTypeOK
    <3> QED
      BY <1>1, <3>1, <3>2 DEF PostEvent, ClientTypeOK
  <2> QED
    BY <2>1, <2>2, <2>3
<1>2. CASE PostFails(c)
  <2>1. ConnectionTypeOK' /\ NewOK' /\ ClientTypeOK'
    BY <1>2 DEF PostFails, ConnectionTypeOK, NewOK, ClientTypeOK, clientVars
  <2>2. ThreadTypeOK'
    BY <1>2 DEF PostFails, AfterFailure, ThreadTypeOK, clientVars
  <2> QED
    BY <2>1, <2>2
<1>3. CASE RetryPost(c)
  <2>1. ConnectionTypeOK' /\ NewOK'
    BY <1>3 DEF RetryPost, PostedTo, RetryLater, ConnectionTypeOK, ThreadTypeOK, NewOK, clientVars
  <2>2. ThreadTypeOK' /\ ClientTypeOK'
    BY <1>3, PostedToType DEF RetryPost, ThreadTypeOK, ClientTypeOK, clientVars
  <2> QED
    BY <2>1, <2>2
<1>4. CASE DropConnection(c)
  <2>1. ConnectionTypeOK' /\ NewOK'
    BY <1>4 DEF DropConnection, PostedTo, ConnectionTypeOK, NewOK, clientVars
  <2>2. ThreadTypeOK' /\ ClientTypeOK'
    BY <1>4, PostedToType DEF DropConnection, ThreadTypeOK, ClientTypeOK, clientVars
  <2> QED
    BY <2>1, <2>2
<1> QED
  BY <1>1, <1>2, <1>3, <1>4

LEMMA TimerType ==
    ASSUME TypeOK,
           LoopTest \/ SoftwareVSync \/ SoftwareWaitNotified \/ GetListenerTimeouted
    PROVE  TypeOK'
<1> USE DEF TypeOK, clientVars
<1>1. CASE LoopTest
  BY <1>1 DEF LoopTest, ConnectionTypeOK, ThreadTypeOK, ClientTypeOK, NewOK, queueVars
<1>2. CASE SoftwareVSync
  BY <1>2, CountEventType
  DEF SoftwareVSync, ConnectionTypeOK, ThreadTypeOK, ClientTypeOK, NewOK
<1>3. CASE SoftwareWaitNotified
  BY <1>3 DEF SoftwareWaitNotified, ConnectionTypeOK, ThreadTypeOK, ClientTypeOK, NewOK,
              queueVars
<1>4. CASE GetListenerTimeouted
  BY <1>4 DEF GetListenerTimeouted, ConnectionTypeOK, ThreadTypeOK, ClientTypeOK, NewOK,
              queueVars, threadVars
<1> QED
  BY <1>1, <1>2, <1>3, <1>4

LEMMA NotifierType ==
    ASSUME TypeOK,
           \/ OnVSyncEvent \/ DestroyNotifies
           \/ \E c \in Connections :
                \/ RequestNextVSync(c)
                \/ \E r \in Rates : SetVSyncRate(c, r)
                \/ \E r \in HighRates : SetHighPriorityVSyncRate(c, r)
    PROVE  TypeOK'
<1> USE NotifyAllType DEF TypeOK, clientVars
<1>1. CASE OnVSyncEvent
  BY <1>1, CountEventType
  DEF OnVSyncEvent, ConnectionTypeOK, ThreadTypeOK, ClientTypeOK, NewOK
<1>2. CASE DestroyNotifies
  BY <1>2 DEF DestroyNotifies, ConnectionTypeOK, ThreadTypeOK, ClientTypeOK, NewOK, queueVars
<1>3. ASSUME NEW c \in Connections, RequestNextVSync(c)
      PROVE  TypeOK'
  BY <1>3 DEF RequestNextVSync, ConnectionTypeOK, ThreadTypeOK, ClientTypeOK, NewOK, queueVars
<1>4. ASSUME NEW c \in Connections, NEW r \in Rates, SetVSyncRate(c, r)
      PROVE  TypeOK'
  BY <1>4 DEF SetVSyncRate, ConnectionTypeOK, ThreadTypeOK, ClientTypeOK, NewOK, queueVars
<1>5. ASSUME NEW c \in Connections, NEW r \in HighRates, SetHighPriorityVSyncRate(c, r)
      PROVE  TypeOK'
  BY <1>5 DEF SetHighPriorityVSyncRate, ConnectionTypeOK, ThreadTypeOK, ClientTypeOK, NewOK,
              queueVars
<1> QED
  BY <1>1, <1>2, <1>3, <1>4, <1>5

LEMMA ClientType ==
    ASSUME TypeOK,
           \/ Destroy
           \/ \E c \in Connections :
                \/ AddConnection(c) \/ RemoveConnection(c)
                \/ OnReadable(c) \/ ClientDies(c) \/ ReceiverCloses(c)
    PROVE  TypeOK'
<1> USE DEF TypeOK, queueVars, threadVars
<1>1. CASE Destroy
  BY <1>1 DEF Destroy, ConnectionTypeOK, ThreadTypeOK, ClientTypeOK, NewOK, clientVars
<1>2. ASSUME NEW c \in Connections, AddConnection(c)
      PROVE  TypeOK'
  BY <1>2 DEF AddConnection, ConnectionTypeOK, ThreadTypeOK, ClientTypeOK, NewOK
<1>3. ASSUME NEW c \in Connections, RemoveConnection(c)
      PROVE  TypeOK'
  BY <1>3 DEF RemoveConnection, ConnectionTypeOK, ThreadTypeOK, ClientTypeOK, NewOK, clientVars
<1>4. ASSUME NEW c \in Connections, OnReadable(c)
      PROVE  TypeOK'
  BY <1>4, DistributorAssumption
  DEF OnReadable, ConnectionTypeOK, ThreadTypeOK, ClientTypeOK, NewOK
<1>5. ASSUME NEW c \in Connections, ClientDies(c)
      PROVE  TypeOK'
  BY <1>5 DEF ClientDies, ConnectionTypeOK, ThreadTypeOK, ClientTypeOK, NewOK
<1>6. ASSUME NEW c \in Connections, ReceiverCloses(c)
      PROVE  TypeOK'
  BY <1>6, DistributorAssumption
  DEF ReceiverCloses, ConnectionTypeOK, ThreadTypeOK, ClientTypeOK, NewOK
<1> QED
  BY <1>1, <1>2, <1>3, <1>4, <1>5, <1>6

LEMMA NextType == TypeOK /\ [Next]_vars => TypeOK'
<1> SUFFICES ASSUME TypeOK, [Next]_vars
             PROVE  TypeOK'
  OBVIOUS
<1>1. CASE Next
  BY <1>1, TakeType, PostType, TimerType, NotifierType, ClientType DEF Next, ThreadMain
<1>2. CASE UNCHANGED vars
  BY <1>2 DEF vars, queueVars, threadVars, clientVars, TypeOK, ConnectionTypeOK, ThreadTypeOK,
              ClientTypeOK, NewOK
<1> QED
  BY <1>1, <1>2

(* Every reachable state is well typed.                                    *)
THEOREM TypeCorrect == Spec => []TypeOK
<1>1. TypeOK /\ [Next]_vars => TypeOK'
  BY NextType
<1> QED
  BY InitType, <1>1, PTL DEF Spec

----------------------------------------------------------------------------
(* The thread sleeps only when there is nothing to do: either its wait was *)
(* just tested for, or it sleeps on and nothing it waits for has changed.  *)

LEMMA NotifyAllWakes == NotifyAll => pc' # "waiting"
BY DEF NotifyAll

LEMMA WantingStays ==
    ASSUME connections' \subseteq connections, UNCHANGED <<rate, highPriorityRate>>
    PROVE  Wanting' \subseteq Wanting
BY DEF Wanting, EffectiveRate

LEMMA JoiningWantsNothing ==
    ASSUME TypeOK, NEW c \in Connections, AddConnection(c)
    PROVE  Wanting' \subseteq Wanting
<1>1. rate[c] = -1 /\ (highPriorityRate[c] # -1 => highPriorityRate[c] > 0)
  BY DistributorAssumption DEF AddConnection, TypeOK, NewOK, ConnectionTypeOK
<1> QED
  BY <1>1 DEF AddConnection, Wanting, EffectiveRate

LEMMA SleepKept ==
    ASSUME SleepsOnlyIdle, Wanting' \subseteq Wanting,
           pc' = pc, eventPending' = eventPending, vsyncEnabled' = vsyncEnabled,
           destructor' \in {destructor, "cleared"}
    PROVE  SleepsOnlyIdle'
BY DEF SleepsOnlyIdle

LEMMA SleepStep == TypeOK /\ SleepsOnlyIdle /\ [Next]_vars => SleepsOnlyIdle'
<1> SUFFICES ASSUME TypeOK, SleepsOnlyIdle, [Next]_vars
             PROVE  SleepsOnlyIdle'
  OBVIOUS
<1> USE DEF queueVars, threadVars, clientVars
<1>1. CASE TakeWaits
  <2>1. UNCHANGED <<eventPending, vsyncEnabled, destructor>> /\ Wanting' = Wanting
    BY <1>1 DEF TakeWaits, Wanting, EffectiveRate
  <2> QED
    BY <1>1, <2>1 DEF TakeWaits, MayWait, Running, SleepsOnlyIdle
<1>2. CASE \/ LoopTest \/ TakeEvent \/ TakeUnwanted \/ TakeEnables
           \/ SoftwareVSync \/ SoftwareWaitNotified
  BY <1>2 DEF LoopTest, TakeEvent, TakeUnwanted, TakeEnables, SoftwareVSync,
              SoftwareWaitNotified, SleepsOnlyIdle
<1>3. ASSUME NEW c \in Connections,
             PostEvent(c) \/ PostFails(c) \/ RetryPost(c) \/ DropConnection(c)
      PROVE  SleepsOnlyIdle'
  BY <1>3 DEF PostEvent, PostFails, AfterFailure, RetryPost, DropConnection, PostedTo, SleepsOnlyIdle
<1>4. CASE OnVSyncEvent \/ DestroyNotifies
  BY <1>4, NotifyAllWakes DEF OnVSyncEvent, DestroyNotifies, SleepsOnlyIdle
<1>5. ASSUME NEW c \in Connections,
             \/ RequestNextVSync(c)
             \/ \E r \in Rates : SetVSyncRate(c, r)
             \/ \E r \in HighRates : SetHighPriorityVSyncRate(c, r)
      PROVE  SleepsOnlyIdle'
  BY <1>5, NotifyAllWakes
  DEF RequestNextVSync, SetVSyncRate, SetHighPriorityVSyncRate, SleepsOnlyIdle
<1>6. ASSUME NEW c \in Connections, AddConnection(c)
      PROVE  SleepsOnlyIdle'
  BY <1>6, JoiningWantsNothing, SleepKept DEF AddConnection
<1>7. ASSUME NEW c \in Connections, RemoveConnection(c)
      PROVE  SleepsOnlyIdle'
  BY <1>7, WantingStays, SleepKept DEF RemoveConnection
<1>8. ASSUME NEW c \in Connections, OnReadable(c) \/ ClientDies(c) \/ ReceiverCloses(c)
      PROVE  SleepsOnlyIdle'
  BY <1>8, WantingStays, SleepKept DEF OnReadable, ClientDies, ReceiverCloses
<1>9. CASE GetListenerTimeouted \/ Destroy \/ UNCHANGED vars
  BY <1>9, WantingStays, SleepKept DEF GetListenerTimeouted, Destroy, vars
<1> QED
  BY <1>1, <1>2, <1>3, <1>4, <1>5, <1>6, <1>7, <1>8, <1>9 DEF Next, ThreadMain

(* No wake-up of the distributor's thread is ever lost: in every reachable *)
(* state it sleeps only when it has nothing to do.                         *)
THEOREM SleepCorrect == Spec => []SleepsOnlyIdle
<1>1. Init => SleepsOnlyIdle
  BY DEF Init, SleepsOnlyIdle
<1>2. TypeOK /\ SleepsOnlyIdle /\ [Next]_vars => SleepsOnlyIdle'
  BY SleepStep
<1> QED
  BY TypeCorrect, <1>1, <1>2, PTL DEF Spec

----------------------------------------------------------------------------
(* Refinement of the service: every step is a step of it or a stutter.     *)

Wishes == [c \in Connections |-> WishOf(rate[c])]
Closed == {c \in Connections : peer[c] = "closed"}
serviceVars == <<connections, Wishes, conns, postVSyncCount, Closed>>

LEMMA WishKept == UNCHANGED rate => Wishes' = Wishes
BY DEF Wishes

LEMMA ClosedKept == UNCHANGED peer => Closed' = Closed
BY DEF Closed

(* Setting one connection's rate sets its wish.                            *)
LEMMA WishSet ==
    ASSUME ConnectionTypeOK, NEW c \in Connections, NEW r,
           rate' = [rate EXCEPT ![c] = r]
    PROVE  Wishes' = [Wishes EXCEPT ![c] = WishOf(r)]
BY DEF Wishes, ConnectionTypeOK

(* The service's actions, with its variables written out.                  *)
LEMMA ServeStep ==
    ASSUME TypeOK, TakeEvent
    PROVE  Service!Serve(Due)
<1>1. conns = {} /\ conns' = Due
  BY DEF TakeEvent, TypeOK, ThreadTypeOK
<1>2. Due \subseteq {c \in connections : Wishes[c] # "none"}
  <2>1. ASSUME NEW c \in Due
        PROVE  c \in connections /\ c \in Connections /\ rate[c] >= 0
    BY WantingConnected, DueWanting DEF TypeOK, ConnectionTypeOK
  <2>2. ASSUME NEW c \in Due
        PROVE  WishOf(rate[c]) # "none"
    <3>1. rate[c] \in Int
      BY <2>1, DistributorAssumption DEF TypeOK, ConnectionTypeOK
    <3> QED
      BY <2>1, <3>1 DEF WishOf
  <2> QED
    BY <2>1, <2>2 DEF Wishes
<1>3. Wishes' = [c \in Connections |->
                   IF c \in Due /\ Wishes[c] = "one" THEN "none" ELSE Wishes[c]]
  <2>1. ASSUME NEW c \in Connections
        PROVE  WishOf(rate'[c]) =
                 IF c \in Due /\ WishOf(rate[c]) = "one" THEN "none" ELSE WishOf(rate[c])
    <3>1. rate[c] \in Int
      BY DistributorAssumption DEF TypeOK, ConnectionTypeOK
    <3>2. rate'[c] = IF c \in Due /\ rate[c] = 0 THEN -1 ELSE rate[c]
      BY DEF TakeEvent, TakeRequests
    <3> QED
      BY <3>1, <3>2 DEF WishOf
  <2> QED
    BY <2>1 DEF Wishes
<1>4. UNCHANGED <<connections, postVSyncCount, Closed>>
  BY ClosedKept DEF TakeEvent, clientVars
<1> QED
  BY <1>1, <1>2, <1>3, <1>4 DEF Service!Serve, Wishes, Closed

LEMMA AnswerStep ==
    ASSUME TypeOK, NEW c \in Connections, PostEvent(c)
    PROVE  Service!Answer(c)
<1>1. postVSyncCount' = [postVSyncCount EXCEPT ![c] = 1 - @]
  <2>1. (postVSyncCount[c] + 1) % 2 = 1 - postVSyncCount[c]
    BY DEF TypeOK, ClientTypeOK
  <2> QED
    BY <2>1 DEF PostEvent
<1>2. c \in conns /\ conns' = conns \ {c} /\ c \notin Closed
  BY DEF PostEvent, PostedTo, SocketTakes, Closed
<1>3. UNCHANGED <<connections, Wishes, Closed>>
  BY WishKept, ClosedKept DEF PostEvent
<1> QED
  BY <1>1, <1>2, <1>3 DEF Service!Answer, Service!Sent, Wishes, Closed

LEMMA PostponeStep ==
    ASSUME TypeOK, NEW c \in Connections, RetryPost(c)
    PROVE  Service!Postpone(c)
<1>1. rate[c] \in Int
  BY DistributorAssumption DEF TypeOK, ConnectionTypeOK
<1>2. Wishes' = [Wishes EXCEPT ![c] = WishOf(IF rate[c] < 0 THEN 0 ELSE rate[c])]
  BY WishSet DEF RetryPost, RetryLater, TypeOK
<1>3. Wishes' = [Wishes EXCEPT ![c] = IF @ = "none" THEN "one" ELSE @]
  <2>1. WishOf(IF rate[c] < 0 THEN 0 ELSE rate[c]) =
          IF WishOf(rate[c]) = "none" THEN "one" ELSE WishOf(rate[c])
    BY <1>1 DEF WishOf
  <2>2. Wishes[c] = WishOf(rate[c])
    BY DEF Wishes
  <2> QED
    BY <1>2, <2>1, <2>2
<1>4. c \in conns /\ conns' = conns \ {c}
  BY DEF RetryPost, PostedTo, TypeOK, ThreadTypeOK
<1>5. UNCHANGED <<connections, postVSyncCount, Closed>>
  BY ClosedKept DEF RetryPost, clientVars
<1> QED
  BY <1>3, <1>4, <1>5 DEF Service!Postpone, Service!Sent, Wishes, Closed

LEMMA GiveUpStep ==
    ASSUME TypeOK, NEW c \in Connections, DropConnection(c)
    PROVE  Service!GiveUp(c)
<1>1. c \in conns /\ conns' = conns \ {c} /\ c \in Closed /\ connections' = connections \ {c}
  BY DEF DropConnection, PostedTo, Closed, TypeOK, ThreadTypeOK
<1>2. UNCHANGED <<Wishes, postVSyncCount, Closed>>
  BY WishKept, ClosedKept DEF DropConnection, clientVars
<1> QED
  BY <1>1, <1>2 DEF Service!GiveUp, Service!Sent, Wishes, Closed

LEMMA AskStep ==
    ASSUME TypeOK, NEW c \in Connections, RequestNextVSync(c)
    PROVE  Service!Ask(c)
<1>1. c \in connections /\ Wishes[c] = "none"
  BY DEF RequestNextVSync, Wishes, WishOf
<1>2. Wishes' = [Wishes EXCEPT ![c] = "one"]
  <2>1. WishOf(0) = "one"
    BY DEF WishOf
  <2> QED
    BY <2>1, WishSet DEF RequestNextVSync, TypeOK
<1>3. UNCHANGED <<connections, conns, postVSyncCount, Closed>>
  BY ClosedKept DEF RequestNextVSync, clientVars
<1> QED
  BY <1>1, <1>2, <1>3 DEF Service!Ask, Wishes, Closed

LEMMA SubscribeStep ==
    ASSUME TypeOK, NEW c \in Connections, NEW r \in Rates, SetVSyncRate(c, r)
    PROVE  Service!Subscribe(c)
<1>1. WishOf(r) = "every"
  BY DistributorAssumption DEF WishOf
<1>2. c \in connections /\ Wishes' = [Wishes EXCEPT ![c] = "every"]
  BY <1>1, WishSet DEF SetVSyncRate, TypeOK
<1>3. UNCHANGED <<connections, conns, postVSyncCount, Closed>>
  BY ClosedKept DEF SetVSyncRate, clientVars
<1> QED
  BY <1>2, <1>3 DEF Service!Subscribe, Wishes, Closed

LEMMA MemberStep ==
    ASSUME TypeOK, NEW c \in Connections,
           AddConnection(c) \/ RemoveConnection(c) \/ ReceiverCloses(c)
    PROVE  Service!Join(c) \/ Service!Leave(c) \/ Service!Close(c)
<1> USE DEF TypeOK, ClientTypeOK, threadVars
<1>1. CASE AddConnection(c)
  <2>1. Closed' = Closed
    BY <1>1 DEF AddConnection, Closed
  <2> QED
    BY <1>1, <2>1, WishKept DEF AddConnection, Service!Join, Wishes, Closed
<1>2. CASE RemoveConnection(c)
  BY <1>2, WishKept, ClosedKept DEF RemoveConnection, clientVars, Service!Leave, Wishes, Closed
<1>3. CASE ReceiverCloses(c)
  <2>1. Closed' = Closed \cup {c}
    BY <1>3 DEF ReceiverCloses, Closed
  <2> QED
    BY <1>3, <2>1, WishKept DEF ReceiverCloses, Service!Close, Wishes, Closed
<1> QED
  BY <1>1, <1>2, <1>3

(* What the service does not see: the thread's own steps, the generator,   *)
(* priorities, reading and dying.                                          *)
LEMMA StutterStep ==
    ASSUME TypeOK,
           \/ LoopTest \/ TakeUnwanted \/ TakeEnables \/ TakeWaits
           \/ SoftwareVSync \/ SoftwareWaitNotified
           \/ GetListenerTimeouted \/ OnVSyncEvent \/ Destroy \/ DestroyNotifies
           \/ \E c \in Connections :
                \/ \E r \in HighRates : SetHighPriorityVSyncRate(c, r)
                \/ PostFails(c) \/ OnReadable(c) \/ ClientDies(c)
           \/ UNCHANGED vars
    PROVE  UNCHANGED serviceVars
<1>1. UNCHANGED <<connections, rate, conns, postVSyncCount>>
  BY DEF LoopTest, TakeUnwanted, TakeEnables, TakeWaits, SoftwareVSync, SoftwareWaitNotified,
         GetListenerTimeouted, OnVSyncEvent, Destroy, DestroyNotifies,
         SetHighPriorityVSyncRate, PostFails, OnReadable, ClientDies, vars, threadVars,
         clientVars
<1>2. Closed' = Closed
  BY DEF LoopTest, TakeUnwanted, TakeEnables, TakeWaits, SoftwareVSync, SoftwareWaitNotified,
         GetListenerTimeouted, OnVSyncEvent, Destroy, DestroyNotifies,
         SetHighPriorityVSyncRate, PostFails, OnReadable, ClientDies, vars, threadVars,
         clientVars,
         Closed, TypeOK, ClientTypeOK
<1> QED
  BY <1>1, <1>2, WishKept DEF serviceVars

LEMMA ServiceStep == TypeOK /\ [Next]_vars => [Service!Next]_serviceVars
<1> SUFFICES ASSUME TypeOK, [Next]_vars
             PROVE  Service!Next \/ UNCHANGED serviceVars
  OBVIOUS
<1>1. CASE TakeEvent
  <2>1. Due \in SUBSET Connections
    BY WantingConnected, DueWanting DEF TypeOK, ConnectionTypeOK
  <2> QED
    BY <1>1, <2>1, ServeStep DEF Service!Next
<1>2. ASSUME NEW c \in Connections,
             PostEvent(c) \/ RetryPost(c) \/ DropConnection(c)
      PROVE  Service!Next
  BY <1>2, AnswerStep, PostponeStep, GiveUpStep DEF Service!Next
<1>3. ASSUME NEW c \in Connections,
             RequestNextVSync(c) \/ \E r \in Rates : SetVSyncRate(c, r)
      PROVE  Service!Next
  BY <1>3, AskStep, SubscribeStep DEF Service!Next
<1>4. ASSUME NEW c \in Connections,
             AddConnection(c) \/ RemoveConnection(c) \/ ReceiverCloses(c)
      PROVE  Service!Next
  BY <1>4, MemberStep DEF Service!Next
<1> QED
  BY <1>1, <1>2, <1>3, <1>4, StutterStep DEF Next, ThreadMain

(* The distributor implements VSyncService: whatever is requested, removed *)
(* or refused while an event is being posted, one wish has one event.      *)
THEOREM ServiceCorrect == Spec => ServiceSpec
<1>1. Init => Service!Init
  BY DEF Init, Service!Init, WishOf
<1>2. TypeOK /\ [Next]_vars => [Service!Next]_serviceVars
  BY ServiceStep
<1> QED
  BY TypeCorrect, <1>1, <1>2, PTL
  DEF Spec, ServiceSpec, Service!Spec, serviceVars, Wishes, Closed
=============================================================================
