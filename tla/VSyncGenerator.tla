--------------------------- MODULE VSyncGenerator ---------------------------
(***************************************************************************)
(* The software vsync generator of rosen/modules/composer/vsync.           *)
(*                                                                         *)
(* Its thread computes when the next of its listeners is due, sleeps that  *)
(* long and gives an event to every listener that is due by then.  The     *)
(* sampler changes period, phase and reference time (UpdateMode), and      *)
(* controllers come, go and change their phase, at any moment and without  *)
(* waking the thread from that sleep.  What mutex_ protects is one step.   *)
(*                                                                         *)
(* Time is discrete and explicit.  The thread is late by at most MaxLate   *)
(* after each sleep and between reading the clock and going to sleep; its  *)
(* other steps take no time.  Calling the listeners back, which            *)
(* VSyncDistributor models, is part of the step that finds them due.  An   *)
(* operator named ...Fault... is a mistake one could make in the           *)
(* definition that follows it.                                             *)
(***************************************************************************)
EXTENDS Integers, FiniteSets

CONSTANTS
    Callbacks,       \* the controllers
    Modes,           \* records of period and phase, as the sampler finds them
    Offsets,         \* phases of listeners
    DelayWeight,     \* 64: wakeupDelay_ moves by this part of the last delay
    MaxWakeupDelay,  \* maxWaleupDelay
    ErrorThreshold,  \* errorThreshold
    MaxLate,         \* bound: how late the thread may run
    MaxTime,         \* bound on the clock
    MaxCalls         \* bound on the calls and spurious wakeups

ASSUME GeneratorAssumption ==
    /\ Modes \subseteq [period : Nat \ {0}, phase : Int] /\ Offsets \subseteq Int
    /\ DelayWeight \in Nat \ {0}
    /\ {MaxWakeupDelay, ErrorThreshold, MaxLate, MaxTime, MaxCalls} \subseteq Nat

VARIABLES
    period, phase, refrenceTime, wakeupDelay,  \* members of these names
    listeners,       \* listeners_: [registered callbacks -> phase and lastTime]
    vsyncThreadRunning,
    pc,              \* where ThreadLoop stands
    occurTimestamp, nextTimeStamp, isWakeup,   \* its variables
    timeoutAt,       \* when its timed wait is over
    now,             \* the steady clock
    calls,           \* calls and spurious wakeups so far
    disturbedAt      \* history: when the last call or spurious wakeup came

modeVars   == <<period, phase, refrenceTime>>
threadVars == <<pc, occurTimestamp, nextTimeStamp, isWakeup, timeoutAt>>
callVars   == <<calls, disturbedAt>>
vars == <<modeVars, wakeupDelay, listeners, vsyncThreadRunning, threadVars, now, callVars>>

Init ==
    /\ period = 0 /\ phase = 0 /\ refrenceTime = 0 /\ wakeupDelay = 0
    /\ listeners = << >>
    /\ vsyncThreadRunning = TRUE
    /\ pc = "loop" /\ occurTimestamp = 0 /\ nextTimeStamp = 0
    /\ isWakeup = FALSE /\ timeoutAt = 0
    /\ now = 1 /\ calls = 0 /\ disturbedAt = 0

----------------------------------------------------------------------------
(* When a listener is due                                                  *)

AtLeast(a, b) == IF a < b THEN b ELSE a
AtMost(a, b)  == IF a < b THEN a ELSE b

(* The first vsync of the listener's grid after t.  Before the grid begins *)
(* this is its first point.                                                *)
GridPoint(l, t) ==
    LET start == refrenceTime + phase + l.phase
    IN  IF t < start THEN start ELSE start + ((t - start) \div period + 1) * period

(* ComputeListenerNextVSyncTimeStamp at time t with wake-up delay d.  A    *)
(* grid point within 3 / 5 of a period of the last event is that event.    *)
NextVSyncFaultTwice(l, t, d) == GridPoint(l, AtLeast(t, l.lastTime + d)) - d
NextVSyncFaultSkips(l, t, d) ==
    LET next == GridPoint(l, AtLeast(t, l.lastTime + d))
    IN  (IF next - l.lastTime <= period THEN next + period ELSE next) - d
NextVSync(l, t, d) ==
    LET next == GridPoint(l, AtLeast(t, l.lastTime + d))
    IN  (IF next - l.lastTime < (3 * period) \div 5 THEN next + period ELSE next) - d

(* GetListenerTimeouted: a listener is due with what came next a period    *)
(* ago, if that is over or nearly so.                                      *)
Due(l, d) ==
    LET t == NextVSync(l, now - period, d) IN t < now \/ t - now < ErrorThreshold

----------------------------------------------------------------------------
(* ThreadLoop; its variables are zero while nothing reads them             *)

LoopTest ==
    /\ pc = "loop"
    /\ pc' = IF vsyncThreadRunning THEN "compute" ELSE "ended"
    /\ UNCHANGED <<modeVars, wakeupDelay, listeners, vsyncThreadRunning, occurTimestamp,
                   nextTimeStamp, isWakeup, timeoutAt, now, callVars>>

(* No mode or no listener: sleep until somebody calls, unless it is over.  *)
Sleeps == pc' = IF vsyncThreadRunning THEN "sleeping" ELSE "loop"
NoMode == period = 0
NothingToDo ==
    /\ pc = "compute"
    /\ NoMode \/ DOMAIN listeners = {}
    /\ Sleeps
    /\ UNCHANGED <<modeVars, wakeupDelay, listeners, vsyncThreadRunning, occurTimestamp,
                   nextTimeStamp, isWakeup, timeoutAt, now, callVars>>

ComputeNext ==
    /\ pc = "compute"
    /\ ~NoMode /\ DOMAIN listeners # {}
    /\ occurTimestamp' = now
    /\ \E t \in {NextVSync(listeners[c], now, wakeupDelay) : c \in DOMAIN listeners} :
          /\ \A c \in DOMAIN listeners : t <= NextVSync(listeners[c], now, wakeupDelay)
          /\ nextTimeStamp' = t
    /\ pc' = "unlocked"
    /\ UNCHANGED <<modeVars, wakeupDelay, listeners, vsyncThreadRunning, isWakeup, timeoutAt,
                   now, callVars>>

(* wait_for counts from now, not from occurTimestamp.                      *)
WaitFor ==
    /\ pc = "unlocked"
    /\ IF occurTimestamp < nextTimeStamp
       THEN pc' = "timedWait" /\ timeoutAt' = now + nextTimeStamp - occurTimestamp
       ELSE pc' = "deliver" /\ UNCHANGED timeoutAt
    /\ UNCHANGED <<modeVars, wakeupDelay, listeners, vsyncThreadRunning, occurTimestamp,
                   nextTimeStamp, isWakeup, now, callVars>>

WaitTimesOut ==
    /\ pc = "timedWait" /\ now >= timeoutAt
    /\ isWakeup' = TRUE
    /\ timeoutAt' = 0
    /\ pc' = "deliver"
    /\ UNCHANGED <<modeVars, wakeupDelay, listeners, vsyncThreadRunning, occurTimestamp,
                   nextTimeStamp, now, callVars>>

(* Nobody notifies waitForTimeoutCon_; either wait may end by itself, and  *)
(* wait_for tells from the clock that it was not the timeout.  A thread    *)
(* that is late then computes afresh and passes over the vsync it missed.  *)
SpuriousWakeup ==
    /\ \/ pc = "sleeping"
       \/ pc = "timedWait" /\ now < timeoutAt
    /\ calls < MaxCalls /\ calls' = calls + 1
    /\ disturbedAt' = now
    /\ pc' = "loop"
    /\ occurTimestamp' = 0 /\ nextTimeStamp' = 0 /\ timeoutAt' = 0
    /\ UNCHANGED <<modeVars, wakeupDelay, listeners, vsyncThreadRunning, isWakeup, now>>

WakeupDelay ==
    IF isWakeup
    THEN AtMost((wakeupDelay * (DelayWeight - 1) + now - nextTimeStamp) \div DelayWeight,
                MaxWakeupDelay)
    ELSE wakeupDelay

Deliver ==
    /\ pc = "deliver"
    /\ occurTimestamp' = 0 /\ nextTimeStamp' = 0 /\ isWakeup' = FALSE
    /\ wakeupDelay' = WakeupDelay
    /\ listeners' = [c \in DOMAIN listeners |->
          IF Due(listeners[c], wakeupDelay')
          THEN [listeners[c] EXCEPT
                  !.lastTime = NextVSync(listeners[c], now - period, wakeupDelay')]
          ELSE listeners[c]]
    /\ pc' = "loop"
    /\ UNCHANGED <<modeVars, vsyncThreadRunning, timeoutAt, now, callVars>>

----------------------------------------------------------------------------
(* The sampler, the controllers, the end                                   *)

NotifyAllFaultFirst ==
    pc' = IF pc = "sleeping" /\ (DOMAIN listeners # {} \/ ~vsyncThreadRunning') THEN "loop" ELSE pc
NotifyAll == pc' = IF pc = "sleeping" THEN "loop" ELSE pc

(* Somebody calls who holds a reference: the generator is not going away.  *)
Calls ==
    /\ vsyncThreadRunning /\ UNCHANGED vsyncThreadRunning
    /\ calls < MaxCalls
    /\ calls' = calls + 1
    /\ disturbedAt' = now

UpdateMode(m, reference) ==
    /\ Calls
    /\ period' = m.period /\ phase' = m.phase /\ refrenceTime' = reference
    /\ NotifyAll
    /\ UNCHANGED <<wakeupDelay, listeners, occurTimestamp, nextTimeStamp,
                   isWakeup, timeoutAt, now>>

(* VSyncSampler: the first sample of a series renews the reference time    *)
(* with the period it knows, if any; later ones bring a mode.              *)
SamplerCalls ==
    \/ UpdateMode([period |-> period, phase |-> 0], now)
    \/ refrenceTime # 0 /\ \E m \in Modes : UpdateMode(m, refrenceTime)

(* Each callback is a controller, which registers itself once.             *)
AddListener(c, offset) ==
    /\ Calls
    /\ c \notin DOMAIN listeners
    /\ listeners' = [x \in DOMAIN listeners \cup {c} |->
          IF x = c THEN [phase |-> offset, lastTime |-> now - period \div 2 + phase]
                   ELSE listeners[x]]
    /\ NotifyAll
    /\ UNCHANGED <<modeVars, wakeupDelay, occurTimestamp, nextTimeStamp, isWakeup, timeoutAt, now>>

RemoveListener(c) ==
    /\ Calls
    /\ c \in DOMAIN listeners
    /\ listeners' = [x \in DOMAIN listeners \ {c} |-> listeners[x]]
    /\ NotifyAll
    /\ UNCHANGED <<modeVars, wakeupDelay, occurTimestamp, nextTimeStamp, isWakeup, timeoutAt, now>>

ChangePhaseOffset(c, offset) ==
    /\ Calls
    /\ c \in DOMAIN listeners
    /\ listeners' = [listeners EXCEPT ![c].phase = offset]
    /\ UNCHANGED <<modeVars, wakeupDelay, threadVars, now>>

(* ~VSyncGenerator: stop, notify, join.                                    *)
Destructor ==
    /\ vsyncThreadRunning
    /\ vsyncThreadRunning' = FALSE
    /\ disturbedAt' = now
    /\ NotifyAll
    /\ UNCHANGED <<modeVars, wakeupDelay, listeners, occurTimestamp, nextTimeStamp, isWakeup,
                   timeoutAt, now, calls>>

----------------------------------------------------------------------------
(* Time passes while the thread sleeps, or is kept from running for a bit. *)
Tick ==
    /\ now < MaxTime
    /\ \/ pc \in {"sleeping", "ended"}
       \/ pc = "timedWait" /\ now < timeoutAt + MaxLate
       \/ pc = "unlocked" /\ now < occurTimestamp + MaxLate
    /\ now' = now + 1
    /\ UNCHANGED <<modeVars, wakeupDelay, listeners, vsyncThreadRunning, threadVars, callVars>>

Next ==
    \/ LoopTest \/ NothingToDo \/ ComputeNext \/ WaitFor \/ WaitTimesOut \/ SpuriousWakeup
    \/ Deliver
    \/ SamplerCalls
    \/ \E c \in Callbacks, offset \in Offsets : AddListener(c, offset) \/ ChangePhaseOffset(c, offset)
    \/ \E c \in Callbacks : RemoveListener(c)
    \/ Destructor
    \/ Tick

Spec == Init /\ [][Next]_vars
=============================================================================
