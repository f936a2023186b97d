-------------------------- MODULE ProducerSurface --------------------------
(***************************************************************************)
(* The client's end of a buffer queue: ProducerSurface keeps the buffers   *)
(* it was sent (bufferProducerCache_), so that the queue need name a       *)
(* buffer the client knows by its number only.  A request is three steps:  *)
(* the call to BufferQueueProducer, BufferQueue's own critical sections,   *)
(* and the reply, which is applied under the surface's mutex_.  Clearing   *)
(* calls empty the cache first and then tell the queue.                    *)
(*                                                                         *)
(* The producers of BufferQueue are the client's threads here; a thread    *)
(* waits for its call, so the binder thread that serves it needs no name.  *)
(***************************************************************************)
EXTENDS BufferQueue

CONSTANT
    Habits   \* what the surface's users do that its cache does not provide for

(* "ClearWhileRequesting": one thread clears while another requests (the   *)
(* render thread, RSRenderThread, does both itself).                       *)
ASSUME HabitAssumption == Habits \subseteq {"ClearWhileRequesting"}

(* A shared queue sends its one buffer in every reply; it is left out.     *)
ASSUME OwnBuffers == Sharing = {FALSE}

VARIABLES
    clientCache,     \* the keys of bufferProducerCache_
    isDisconnected,
    connected,       \* connectedPid_ # 0 in BufferQueueProducer
    at,              \* where each client thread stands in a surface's call
    reply,           \* the RequestBufferReturnValue it was sent
    untold           \* history: what the consumer's clearing took from the queue

surfaceVars == <<clientCache, isDisconnected, connected, at, reply>>
allVars == <<vars, surfaceVars, untold>>

NoReply == [sequence |-> 0, buffer |-> FALSE, deletingBuffers |-> {}]

SurfaceInit ==
    /\ Init
    /\ clientCache = {} /\ isDisconnected = TRUE /\ connected = FALSE
    /\ at = [p \in Producers |-> "app"]
    /\ reply = [p \in Producers |-> NoReply]
    /\ untold = {}

MoveTo(p, label) == at' = [at EXCEPT ![p] = label]
InApp(p) == at[p] = "app" /\ Idle(p)

(* A thread that clears is alone, unless users have the habit.             *)
RequestPlaces == {"request", "reply", "refused"}
ClearPlaces ==
    {"cleanCache", "goBackground", "disconnect", "queueGoBackground", "setDisconnected"}
MayRequest ==
    "ClearWhileRequesting" \in Habits \/ \A q \in Producers : at[q] \notin ClearPlaces
MayClear ==
    "ClearWhileRequesting" \in Habits
    \/ \A q \in Producers : at[q] \notin RequestPlaces \cup ClearPlaces

----------------------------------------------------------------------------
(* RequestBuffer                                                           *)

(* BufferQueueProducer notes the caller, then the queue looks at status    *)
(* and listener: NO_CONSUMER is answered at once.                          *)
SurfaceRequest(p, config) ==
    /\ InApp(p) /\ MayRequest
    /\ \/ RequestBuffer(p, config) /\ MoveTo(p, "request")
       \/ CallRefused(p) /\ MoveTo(p, "refused")
    /\ connected' = TRUE
    /\ UNCHANGED <<clientCache, isDisconnected, reply>>

(* The queue found a buffer.  It sends the buffer itself if it is new, or  *)
(* while it knows the client's cache to be empty; a reused buffer's reply  *)
(* also carries what was deleted, the replaced one included.               *)
SendsFaultIgnoresFlag(s) == s \notin DOMAIN cache
Sends(s) == s \notin DOMAIN cache \/ producerCacheClean
Reported ==
    (ToSet(deletingList) \cup (DOMAIN cache \ DOMAIN cache')) \ ToSet(deletingList')

RequestServed(p) ==
    /\ at[p] = "request"
    /\ RequestLocked(p) \/ RetryTakes(p)
    /\ IF producerHeld' = producerHeld
       THEN MoveTo(p, "app") /\ UNCHANGED reply
       ELSE \E s \in producerHeld' \ producerHeld :
              /\ reply' = [reply EXCEPT ![p] =
                     [sequence |-> s, buffer |-> Sends(s), deletingBuffers |-> Reported]]
              /\ MoveTo(p, "reply")
    /\ UNCHANGED <<clientCache, isDisconnected, connected>>

RequestWaits(p) ==
    /\ at[p] = "request"
    /\ RequestMustWait(p) \/ WaitBlock(p) \/ WaitAgain(p) \/ WaitTimeout(p) \/ RetryFails(p)
    /\ CASE pc'[p] # "idle"  -> UNCHANGED at
         [] isValidStatus    -> MoveTo(p, "app")        \* NO_BUFFER
         [] OTHER            -> MoveTo(p, "refused")    \* NO_CONSUMER
    /\ UNCHANGED <<clientCache, isDisconnected, connected, reply>>

RequestRefused(p) ==
    /\ at[p] = "refused"
    /\ clientCache' = {}
    /\ MoveTo(p, "app")
    /\ UNCHANGED <<vars, isDisconnected, connected, reply>>

(* The reply, under mutex_.  Without a buffer, and with none in the cache, *)
(* it is API_FAILED: the caller gets nothing, and what was deleted is not  *)
(* looked at.                                                              *)
KnownFaultKeepsDeleted(r) == clientCache \cup {r.sequence}
Known(r) == (clientCache \cup {r.sequence}) \ r.deletingBuffers
Resolves(r) == r.buffer \/ r.sequence \in clientCache

ApplyReply(p) ==
    LET r == reply[p] IN
    /\ at[p] = "reply"
    /\ isDisconnected' = FALSE
    /\ IF Resolves(r)
       THEN clientCache' = Known(r) /\ UNCHANGED vars
       ELSE /\ producerHeld' = producerHeld \ {r.sequence}
            /\ UNCHANGED <<clientCache, bufferVars, statusVars, cleanVars, nextSequence,
                           threadVars, consumerHeld, notifications>>
    /\ reply' = [reply EXCEPT ![p] = NoReply]
    /\ MoveTo(p, "app")
    /\ UNCHANGED connected

----------------------------------------------------------------------------
(* FlushBuffer and CancelBuffer forward to the queue, for a buffer whose   *)
(* reply has been applied.                                                 *)

Delivered(s) == \A q \in Producers : reply[q].sequence # s

SurfaceReturns(p) ==
    /\ at[p] = "app"
    /\ \/ FlushStep(p)
       \/ \E s \in SeqNumbers : Delivered(s) /\ (CancelBuffer(p, s) \/ FlushBuffer(p, s))
    /\ UNCHANGED surfaceVars

----------------------------------------------------------------------------
(* CleanCache, GoBackground and Disconnect                                 *)

Forgets(p, label) ==
    /\ InApp(p) /\ MayClear
    /\ clientCache' = {}
    /\ MoveTo(p, label)
    /\ UNCHANGED <<vars, isDisconnected, connected, reply>>

SurfaceCleanCache(p)   == "CleanCache" \in Calls /\ Forgets(p, "cleanCache")
SurfaceGoBackground(p) == "SetProducerCacheCleanFlag" \in Calls /\ Forgets(p, "goBackground")
SurfaceDisconnect(p) ==
    "GoBackground" \in Calls /\ ~isDisconnected /\ Forgets(p, "disconnect")

(* CheckConnectLocked: an error for a client that is not connected.        *)
NotConnected(p) ==
    /\ at[p] \in {"cleanCache", "goBackground", "disconnect"} /\ ~connected
    /\ MoveTo(p, "app")
    /\ UNCHANGED <<vars, clientCache, isDisconnected, connected, reply>>

ProducerCleanCache(p) ==
    /\ at[p] = "cleanCache" /\ connected
    /\ CleanCache(p)
    /\ MoveTo(p, "app")
    /\ UNCHANGED <<clientCache, isDisconnected, connected, reply>>

ProducerGoBackground(p) ==
    /\ at[p] = "goBackground" /\ connected
    /\ SetProducerCacheCleanFlag(p)
    /\ MoveTo(p, "app")
    /\ UNCHANGED <<clientCache, isDisconnected, connected, reply>>

ProducerDisconnect(p) ==
    /\ at[p] = "disconnect" /\ connected
    /\ connected' = FALSE
    /\ MoveTo(p, "queueGoBackground")
    /\ UNCHANGED <<vars, clientCache, isDisconnected, reply>>

DisconnectClears(p) ==
    /\ at[p] = "queueGoBackground"
    /\ GoBackground(p)
    /\ MoveTo(p, "setDisconnected")
    /\ UNCHANGED <<clientCache, isDisconnected, connected, reply>>

SetDisconnected(p) ==
    /\ at[p] = "setDisconnected"
    /\ isDisconnected' = TRUE
    /\ MoveTo(p, "app")
    /\ UNCHANGED <<vars, clientCache, connected, reply>>

----------------------------------------------------------------------------
(* The consumer and the queue's managers.                                  *)

(* ConsumerSurface::GoBackground, when a node leaves the tree: no reply    *)
(* tells the client of the buffers that go, or were to be reported.        *)
ConsumerGoBackground(m) ==
    /\ GoBackground(m)
    /\ untold' = untold \cup DOMAIN cache \cup ToSet(deletingList)
    /\ UNCHANGED surfaceVars

OtherSide ==
    \/ /\ \/ \E c \in Consumers : ConsumerCall(c) \/ ReleaseStep(c)
          \/ \E m \in Managers :
               \/ \E size \in 1..MaxQueueSize : SetQueueSize(m, size)
               \/ OnConsumerDied(m)
               \/ \E on \in BOOLEAN : SetListener(m, on)
               \/ ManagerStep(m)
       /\ UNCHANGED <<surfaceVars, untold>>
    \/ \E m \in Managers : ConsumerGoBackground(m)

ClientStep(p) ==
    \/ \E config \in Configs : SurfaceRequest(p, config)
    \/ RequestServed(p) \/ RequestWaits(p) \/ RequestRefused(p) \/ ApplyReply(p)
    \/ SurfaceReturns(p)
    \/ SurfaceCleanCache(p) \/ SurfaceGoBackground(p) \/ SurfaceDisconnect(p)
    \/ NotConnected(p) \/ ProducerCleanCache(p) \/ ProducerGoBackground(p)
    \/ ProducerDisconnect(p) \/ DisconnectClears(p) \/ SetDisconnected(p)

SurfaceNext ==
    \/ \E p \in Producers : ClientStep(p) /\ UNCHANGED untold
    \/ OtherSide

SurfaceSpec == SurfaceInit /\ [][SurfaceNext]_allVars
=============================================================================
