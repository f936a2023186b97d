------------------------- MODULE VsyncStationProofs -------------------------
(***************************************************************************)
(* A theorem about the vsync station, for every number of client threads,  *)
(* callbacks and events, and for a service that loses or delays answers.   *)
(***************************************************************************)
EXTENDS VsyncStationCorrect, TLAPS

Places == {"idle", "request", "calling", "vsync", "timeout"}
StationTypeOK ==
    /\ pc \in [Threads -> Places]
    /\ hasRequestedVsync \in BOOLEAN /\ timeoutTask \in BOOLEAN
    /\ running \subseteq Callbacks /\ vsyncCallbacks \subseteq Callbacks

(* Whoever asked first is still on his way to the service, or has asked.   *)
(* Only the handler's thread gives up, runs callbacks or reads events.     *)
ClientsOnlyAsk == \A t \in Clients : pc[t] \in {"idle", "request"}

StationInv == StationTypeOK /\ ClientsOnlyAsk /\ RequestEnds

LEMMA GoToPlace ==
    ASSUME StationTypeOK, NEW t \in Threads, NEW place \in Places, GoTo(t, place)
    PROVE  /\ pc' \in [Threads -> Places] /\ pc'[t] = place
           /\ \A u \in Threads : u # t => pc'[u] = pc[u]
BY DEF StationTypeOK, GoTo

LEMMA AskingKeeps ==
    ASSUME StationInv, NEW t \in Threads,
           \/ \E c \in Callbacks : RequestVsync(t, c)
           \/ RequestNextVSync(t) \/ RemoveCallback(t)
    PROVE  StationInv'
<1> USE DEF StationInv, StationTypeOK, stationVars
<1>h. Handler \in Threads /\ Clients \subseteq Threads /\ (t # Handler => t \in Clients)
  BY DEF Threads
<1>1. ASSUME NEW c \in Callbacks, RequestVsync(t, c)
      PROVE  StationInv'
  <2>1. CASE hasRequestedVsync
    BY <1>1, <2>1 DEF RequestVsync, ClientsOnlyAsk, RequestEnds
  <2>2. CASE ~hasRequestedVsync
    <3>1. GoTo(t, "request") /\ timeoutTask' = TRUE /\ hasRequestedVsync' = TRUE
      BY <1>1, <2>2 DEF RequestVsync
    <3>2. /\ pc' \in [Threads -> Places] /\ pc'[t] = "request"
          /\ \A u \in Threads : u # t => pc'[u] = pc[u]
      BY <3>1, GoToPlace DEF Places
    <3>3. ClientsOnlyAsk' /\ RequestEnds'
      BY <1>h, <3>1, <3>2 DEF ClientsOnlyAsk, RequestEnds
    <3> QED
      BY <1>1, <3>1, <3>2, <3>3 DEF RequestVsync
  <2> QED
    BY <2>1, <2>2
<1>2. CASE RequestNextVSync(t)
  <2>1. PICK place \in {"idle", "calling"} :
          GoTo(t, place) /\ (t # Handler => place = "idle")
    BY <1>2 DEF RequestNextVSync
  <2>2. /\ pc' \in [Threads -> Places] /\ pc'[t] = place
        /\ \A u \in Threads : u # t => pc'[u] = pc[u]
    BY <2>1, GoToPlace DEF Places
  <2>3. pc[t] = "request" /\ UNCHANGED <<stationVars, running>>
    BY <1>2 DEF RequestNextVSync
  <2>4. ClientsOnlyAsk' /\ RequestEnds'
    BY <1>h, <2>1, <2>2, <2>3, StationAssumption DEF ClientsOnlyAsk, RequestEnds
  <2> QED
    BY <2>2, <2>3, <2>4
<1>3. CASE RemoveCallback(t)
  BY <1>3 DEF RemoveCallback, ClientsOnlyAsk, RequestEnds
<1> QED
  BY <1>1, <1>2, <1>3

LEMMA HandlerKeeps ==
    ASSUME StationInv,
           \/ OnReadable \/ VsyncCallbackInner \/ OnCallback \/ CallbacksDone
           \/ TimeoutPasses \/ OnVsyncTimeOut
    PROVE  StationInv'
<1> USE DEF StationInv, StationTypeOK, stationVars
<1>h. Handler \in Threads /\ Clients \subseteq Threads \ {Handler}
  BY StationAssumption DEF Threads
<1>g. ASSUME NEW place \in Places, GoTo(Handler, place)
      PROVE  pc' \in [Threads -> Places] /\ pc'[Handler] = place /\ ClientsOnlyAsk'
  BY <1>g, <1>h, GoToPlace DEF ClientsOnlyAsk
<1>1. CASE OnReadable
  <2>1. GoTo(Handler, "vsync") /\ pc[Handler] = "idle" /\ UNCHANGED <<stationVars, running>>
    BY <1>1 DEF OnReadable
  <2> QED
    BY <1>g, <2>1 DEF RequestEnds, Places
<1>2. CASE VsyncCallbackInner
  <2>1. /\ GoTo(Handler, "calling") /\ hasRequestedVsync' = FALSE /\ timeoutTask' = FALSE
        /\ running' = vsyncCallbacks /\ vsyncCallbacks' = {}
    BY <1>2 DEF VsyncCallbackInner, FlagAt
  <2> QED
    BY <1>g, <2>1 DEF RequestEnds, Places
<1>3. CASE OnCallback
  BY <1>3 DEF OnCallback, RequestEnds, ClientsOnlyAsk
<1>4. CASE CallbacksDone
  <2>1. /\ GoTo(Handler, "idle") /\ pc[Handler] = "calling" /\ UNCHANGED <<stationVars, running>>
    BY <1>4 DEF CallbacksDone, FlagAt
  <2> QED
    BY <1>g, <2>1 DEF RequestEnds, Places
<1>5. CASE TimeoutPasses
  <2>1. /\ GoTo(Handler, "timeout") /\ timeoutTask' = FALSE
        /\ UNCHANGED <<hasRequestedVsync, vsyncCallbacks, running>>
    BY <1>5 DEF TimeoutPasses
  <2> QED
    BY <1>g, <2>1 DEF RequestEnds, Places
<1>6. CASE OnVsyncTimeOut
  <2>1. /\ GoTo(Handler, "idle") /\ hasRequestedVsync' = FALSE
        /\ UNCHANGED <<timeoutTask, vsyncCallbacks, running>>
    BY <1>6 DEF OnVsyncTimeOut
  <2> QED
    BY <1>g, <2>1 DEF RequestEnds, Places
<1> QED
  BY <1>1, <1>2, <1>3, <1>4, <1>5, <1>6

(* As long as the station believes that it has requested a vsync, the task *)
(* that ends the request is queued or running: a lost answer, or one that  *)
(* meets the time-out, leaves no station that never requests again.        *)
THEOREM RequestCorrect == Spec => []RequestEnds
<1>1. Init => StationInv
  BY DEF Init, StationInv, StationTypeOK, ClientsOnlyAsk, RequestEnds, Places, Threads
<1>2. StationInv /\ [Next]_vars => StationInv'
  <2> SUFFICES ASSUME StationInv, [Next]_vars PROVE StationInv'
    OBVIOUS
  <2>1. CASE UNCHANGED stationVars /\ UNCHANGED pc /\ UNCHANGED running
    BY <2>1 DEF StationInv, StationTypeOK, ClientsOnlyAsk, RequestEnds, stationVars
  <2> QED
    BY <2>1, AskingKeeps, HandlerKeeps DEF Next, ServiceAnswers, ServiceLoses, vars
<1>3. StationInv => RequestEnds
  BY DEF StationInv
<1> QED
  BY <1>1, <1>2, <1>3, PTL DEF Spec
=============================================================================
