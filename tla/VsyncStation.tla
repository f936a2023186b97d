---------------------------- MODULE VsyncStation ----------------------------
(***************************************************************************)
(* The vsync station of a window manager client, with its VSyncReceiver.   *)
(*                                                                         *)
(* Any thread asks for a callback at the next vsync.  The first to ask     *)
(* requests that vsync from the render service, after it released mtx_;    *)
(* the others share it.  The thread of the station's event handler reads   *)
(* the receiver's socket, runs the callbacks, which may ask again, and     *)
(* runs the task by which a request that got no answer in 600 ms is given  *)
(* up.  What mtx_ protects is one step.                                    *)
(*                                                                         *)
(* The render service answers a request by one event, and may lose it, as  *)
(* when it dies.  Creating the receiver is left out.  An operator named    *)
(* ...Fault... is a mistake one could make in the definition after it.     *)
(***************************************************************************)
EXTENDS Integers

CONSTANTS
    Clients,         \* threads that ask
    Handler,         \* the thread of vsyncHandler_
    Callbacks,       \* VsyncCallback objects
    SocketSize       \* bound: events the socket holds

ASSUME StationAssumption ==
    Handler \notin Clients /\ SocketSize \in Nat \ {0}

VARIABLES
    vsyncCallbacks, hasRequestedVsync,   \* members of these names
    timeoutTask,     \* VSYNC_TIME_OUT_TASK is in the handler's queue
    pc,              \* where each thread stands
    running,         \* callbacks the handler's thread has still to run
    wanted,          \* the service owes the connection an event
    socket,          \* events in the receiver's socket
    unreliable       \* answers may be lost, or come after the time-out

stationVars == <<vsyncCallbacks, hasRequestedVsync, timeoutTask>>
serviceVars == <<wanted, socket, unreliable>>
vars == <<stationVars, pc, running, serviceVars>>

Threads == Clients \cup {Handler}

Init ==
    /\ vsyncCallbacks = {} /\ hasRequestedVsync = FALSE /\ timeoutTask = FALSE
    /\ pc = [t \in Threads |-> "idle"]
    /\ running = {}
    /\ wanted = FALSE /\ socket = 0 /\ unreliable \in BOOLEAN

GoTo(t, place) == pc' = [pc EXCEPT ![t] = place]

----------------------------------------------------------------------------
(* RequestVsync: a client is idle before it, the handler in a callback.    *)

MayAsk(t) == pc[t] = IF t = Handler THEN "calling" ELSE "idle"

RequestVsync(t, c) ==
    /\ MayAsk(t)
    /\ vsyncCallbacks' = vsyncCallbacks \cup {c}
    /\ IF hasRequestedVsync
       THEN UNCHANGED <<hasRequestedVsync, timeoutTask, pc>>
       ELSE hasRequestedVsync' = TRUE /\ timeoutTask' = TRUE /\ GoTo(t, "request")
    /\ UNCHANGED <<running, serviceVars>>

(* VSyncReceiver::RequestNextVSync, a call of the service: requests that   *)
(* meet are one.                                                           *)
RequestNextVSync(t) ==
    /\ pc[t] = "request"
    /\ wanted' = TRUE
    /\ GoTo(t, IF t = Handler THEN "calling" ELSE "idle")
    /\ UNCHANGED <<stationVars, running, socket, unreliable>>

RemoveCallback(t) ==
    /\ MayAsk(t)
    /\ vsyncCallbacks' = {}
    /\ UNCHANGED <<hasRequestedVsync, timeoutTask, pc, running, serviceVars>>

----------------------------------------------------------------------------
(* The thread of the handler                                               *)

(* VSyncCallBackListener::OnReadable takes the latest of all events.       *)
OnReadable ==
    /\ pc[Handler] = "idle" /\ socket > 0
    /\ socket' = 0
    /\ GoTo(Handler, "vsync")
    /\ UNCHANGED <<stationVars, running, wanted, unreliable>>

(* VsyncCallbackInner: the flag is off before the callbacks run, for these *)
(* may ask again.                                                          *)
FlagAtFaultLate(place) ==
    hasRequestedVsync' = IF place = "done" THEN FALSE ELSE hasRequestedVsync
FlagAtFaultNever(place) == UNCHANGED hasRequestedVsync
FlagAt(place) ==
    hasRequestedVsync' = IF place = "take" THEN FALSE ELSE hasRequestedVsync
VsyncCallbackInner ==
    /\ pc[Handler] = "vsync"
    /\ FlagAt("take")
    /\ running' = vsyncCallbacks
    /\ vsyncCallbacks' = {}
    /\ timeoutTask' = FALSE
    /\ GoTo(Handler, "calling")
    /\ UNCHANGED serviceVars

OnCallback ==
    /\ pc[Handler] = "calling"
    /\ \E c \in running : running' = running \ {c}
    /\ UNCHANGED <<stationVars, pc, serviceVars>>

CallbacksDone ==
    /\ pc[Handler] = "calling" /\ running = {}
    /\ FlagAt("done")
    /\ GoTo(Handler, "idle")
    /\ UNCHANGED <<vsyncCallbacks, timeoutTask, running, serviceVars>>

(* The task has left the queue, and RemoveTask comes too late for it.      *)
Answered == wanted \/ socket > 0 \/ \E t \in Threads : pc[t] = "request"
TimeoutPasses ==
    /\ pc[Handler] = "idle" /\ timeoutTask
    /\ unreliable \/ ~Answered
    /\ timeoutTask' = FALSE
    /\ GoTo(Handler, "timeout")
    /\ UNCHANGED <<vsyncCallbacks, hasRequestedVsync, running, serviceVars>>

OnVsyncTimeOut ==
    /\ pc[Handler] = "timeout"
    /\ hasRequestedVsync' = FALSE
    /\ GoTo(Handler, "idle")
    /\ UNCHANGED <<vsyncCallbacks, timeoutTask, running, serviceVars>>

----------------------------------------------------------------------------
(* The render service                                                      *)

ServiceAnswers ==
    /\ wanted /\ socket < SocketSize
    /\ wanted' = FALSE
    /\ socket' = socket + 1
    /\ UNCHANGED <<stationVars, pc, running, unreliable>>

ServiceLoses ==
    /\ unreliable /\ wanted
    /\ wanted' = FALSE
    /\ UNCHANGED <<stationVars, pc, running, socket, unreliable>>

AnyRequest == \E t \in Clients, c \in Callbacks : RequestVsync(t, c)

Next ==
    \/ \E t \in Threads, c \in Callbacks : RequestVsync(t, c)
    \/ \E t \in Threads : RequestNextVSync(t) \/ RemoveCallback(t)
    \/ OnReadable \/ VsyncCallbackInner \/ OnCallback \/ CallbacksDone
    \/ TimeoutPasses \/ OnVsyncTimeOut
    \/ ServiceAnswers \/ ServiceLoses

Spec == Init /\ [][Next]_vars

(* Threads go on with what they are at; an overdue task and a readable     *)
(* socket both get their turn; the service answers again and again.        *)
FairSpec ==
    /\ Spec
    /\ \A t \in Threads : WF_vars(RequestNextVSync(t))
    /\ SF_vars(OnReadable) /\ WF_vars(VsyncCallbackInner) /\ WF_vars(OnCallback)
    /\ SF_vars(CallbacksDone) /\ SF_vars(TimeoutPasses) /\ WF_vars(OnVsyncTimeOut)
    /\ SF_vars(ServiceAnswers)
=============================================================================
