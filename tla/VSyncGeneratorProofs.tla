------------------------ MODULE VSyncGeneratorProofs ------------------------
(***************************************************************************)
(* Proof that the generator tells a listener times that rise by most of a  *)
(* period, for any controllers, modes, phases, lateness and bounds; that   *)
(* it forgets no listener; and that, while nothing changes, it tells each  *)
(* vsync once.  The last two suppose something of the constants, which     *)
(* Proportions and Smooth name.                                            *)
(*                                                                         *)
(* Two things could make a listener's times fall back: an expected wake-up *)
(* delay below zero, which would put the next grid point before the last   *)
(* one told, and a period of zero, which has no grid.  The delay is a mean *)
(* of nonnegative parts only because the thread never measures a delay     *)
(* unless its wait has timed out, and wait_for counts from a moment at or  *)
(* after the one the thread computed with: that is what DelayInv keeps.    *)
(***************************************************************************)
EXTENDS VSyncGeneratorCorrect, TLAPS

Listener == [phase : Int, lastTime : Int]
ListenersTyped ==
    DOMAIN listeners \subseteq Callbacks /\ listeners \in [DOMAIN listeners -> Listener]

(* Every member has its type; the expected wake-up delay is not negative.  *)
GeneratorTypes ==
    /\ period \in Nat /\ phase \in Int /\ refrenceTime \in Int
    /\ wakeupDelay \in Nat
    /\ ListenersTyped
    /\ vsyncThreadRunning \in BOOLEAN /\ isWakeup \in BOOLEAN
    /\ pc \in {"loop", "compute", "sleeping", "unlocked", "timedWait", "deliver", "ended"}
    /\ occurTimestamp \in Nat /\ now \in Nat
    /\ nextTimeStamp \in Int /\ timeoutAt \in Int

(* The thread waits for a grid it has, counts its wait from no earlier     *)
(* than it computed, and measures only a wait that is over.                *)
DelayInv ==
    /\ pc \in {"unlocked", "timedWait", "deliver"} => period > 0
    /\ pc = "unlocked" => occurTimestamp <= now
    /\ pc = "timedWait" => nextTimeStamp <= timeoutAt
    /\ isWakeup => pc = "deliver" /\ nextTimeStamp <= now

GeneratorInv == GeneratorTypes /\ DelayInv

----------------------------------------------------------------------------
(* Arithmetic of the grid                                                  *)

(* Rounding down to a multiple of p and adding p goes beyond a.            *)
LEMMA NextMultiple ==
    ASSUME NEW a \in Nat, NEW p \in Nat \ {0}
    PROVE  /\ (a \div p + 1) * p \in Int
           /\ (a \div p + 1) * p >= a
<1>1. a \div p \in Int /\ p * (a \div p) <= a /\ a < p * (a \div p) + p
    BY Z3
<1> DEFINE q == a \div p
<1>2. q \in Int /\ a < p * q + p
    BY <1>1
<1>. HIDE DEF q
<1>3. (q + 1) * p = p * q + p
    BY <1>2, Z3
<1>. QED BY <1>2, <1>3 DEF q

(* A share of a number that is not negative is not negative.               *)
LEMMA ShareOfNat ==
    ASSUME NEW a \in Nat, NEW w \in Nat \ {0}
    PROVE  a \div w \in Nat
BY Z3

LEMMA ProductOfNats ==
    ASSUME NEW a \in Nat, NEW b \in Nat
    PROVE  a * b \in Nat
BY Z3

(* With a period, the next grid point is not before the time asked for.    *)
LEMMA GridPointAfter ==
    ASSUME GeneratorTypes, period > 0, NEW l \in Listener, NEW t \in Int
    PROVE  GridPoint(l, t) \in Int /\ GridPoint(l, t) >= t
<1> DEFINE start == refrenceTime + phase + l.phase
<1>1. start \in Int /\ period \in Nat \ {0}
    BY DEF GeneratorTypes, Listener
<1>2. GridPoint(l, t) = IF t < start THEN start ELSE start + ((t - start) \div period + 1) * period
    BY DEF GridPoint
<1>. HIDE DEF start
<1>3. CASE t < start
    BY <1>1, <1>2, <1>3
<1>4. CASE ~(t < start)
    <2>1. t - start \in Nat
        BY <1>1, <1>4
    <2> DEFINE up == ((t - start) \div period + 1) * period
    <2>2. up \in Int /\ up >= t - start
        BY <2>1, <1>1, NextMultiple
    <2>3. GridPoint(l, t) = start + up
        BY <1>2, <1>4
    <2>. HIDE DEF up
    <2>. QED BY <2>2, <2>3, <1>1
<1>. QED BY <1>3, <1>4

(* What the computation names is an integer, and at least three fifths of  *)
(* a period, but for the delay, after the listener's last event.           *)
LEMMA NextVSyncSpaced ==
    ASSUME GeneratorTypes, period > 0, NEW l \in Listener, NEW t \in Int, NEW d \in Nat
    PROVE  /\ NextVSync(l, t, d) \in Int
           /\ NextVSync(l, t, d) - l.lastTime >= (3 * period) \div 5 - d
<1> DEFINE from == AtLeast(t, l.lastTime + d)
           next == GridPoint(l, from)
<1>1. l.lastTime \in Int /\ period \in Nat
    BY DEF Listener, GeneratorTypes
<1>2. from \in Int /\ from >= l.lastTime + d
    BY <1>1 DEF AtLeast
<1>3. next \in Int /\ next >= from
    BY <1>2, GridPointAfter
<1>4. NextVSync(l, t, d)
        = (IF next - l.lastTime < (3 * period) \div 5 THEN next + period ELSE next) - d
    BY DEF NextVSync
<1>. HIDE DEF from, next
<1>5. (3 * period) \div 5 \in Int /\ (3 * period) \div 5 <= period
    BY <1>1, Z3
<1>. QED BY <1>1, <1>2, <1>3, <1>4, <1>5

----------------------------------------------------------------------------
(* The invariant                                                           *)

LEMMA InitInv == Init => GeneratorInv
<1>. SUFFICES ASSUME Init PROVE GeneratorInv
    OBVIOUS
<1>1. ListenersTyped
    <2>1. DOMAIN listeners = {} /\ listeners = [c \in {} |-> listeners[c]]
        BY DEF Init
    <2>. QED BY <2>1 DEF ListenersTyped
<1>2. /\ period = 0 /\ phase = 0 /\ refrenceTime = 0 /\ wakeupDelay = 0 /\ now = 1
      /\ pc = "loop" /\ occurTimestamp = 0 /\ nextTimeStamp = 0 /\ timeoutAt = 0
    BY DEF Init
<1>3. vsyncThreadRunning \in BOOLEAN /\ isWakeup \in BOOLEAN /\ ~isWakeup
    BY Zenon DEF Init
<1>4. GeneratorTypes
    BY <1>1, <1>2, <1>3 DEF GeneratorTypes
<1>5. DelayInv
    BY <1>2, <1>3 DEF DelayInv
<1>. QED BY <1>4, <1>5 DEF GeneratorInv

(* The delay the thread expects is a mean of what it measured, which is    *)
(* never negative.                                                         *)
LEMMA DelayNotNegative ==
    ASSUME GeneratorInv, pc = "deliver"
    PROVE  WakeupDelay \in Nat
<1>. USE GeneratorAssumption
<1>1. CASE ~isWakeup
    BY <1>1 DEF WakeupDelay, GeneratorInv, GeneratorTypes, ListenersTyped
<1>2. CASE isWakeup
    <2> DEFINE late == now - nextTimeStamp
               before == wakeupDelay * (DelayWeight - 1)
    <2>1. late \in Nat
        BY <1>2 DEF GeneratorInv, GeneratorTypes, ListenersTyped, DelayInv
    <2>2. before \in Nat
        BY ProductOfNats DEF GeneratorInv, GeneratorTypes, ListenersTyped
    <2>3. before + now - nextTimeStamp = before + late
        BY <2>2 DEF GeneratorInv, GeneratorTypes, ListenersTyped
    <2> DEFINE mean == (before + late) \div DelayWeight
    <2>4. WakeupDelay = AtMost(mean, MaxWakeupDelay)
        BY <1>2, <2>3 DEF WakeupDelay
    <2>5. before + late \in Nat
        BY <2>1, <2>2
    <2>. HIDE DEF late, before
    <2>6. mean \in Nat
        BY <2>5, ShareOfNat
    <2>. HIDE DEF mean
    <2>. QED BY <2>4, <2>6 DEF AtMost
<1>. QED BY <1>1, <1>2 DEF GeneratorInv, GeneratorTypes, ListenersTyped

(* Deliver rewrites the last time of the listeners that are due.           *)
LEMMA DeliverListeners ==
    ASSUME GeneratorInv, Deliver
    PROVE  /\ wakeupDelay' \in Nat
           /\ DOMAIN listeners' = DOMAIN listeners
           /\ listeners' \in [DOMAIN listeners -> Listener]
           /\ \A c \in DOMAIN listeners :
                 listeners'[c].lastTime # listeners[c].lastTime =>
                     listeners'[c].lastTime = NextVSync(listeners[c], now - period, wakeupDelay')
<1>. USE DEF Listener
<1>1. wakeupDelay' \in Nat
    BY DelayNotNegative DEF Deliver
<1>2. period > 0 /\ now - period \in Int
    BY DEF Deliver, GeneratorInv, GeneratorTypes, ListenersTyped, DelayInv
<1>3. \A c \in DOMAIN listeners :
        /\ listeners[c] \in Listener
        /\ NextVSync(listeners[c], now - period, wakeupDelay') \in Int
    <2>. TAKE c \in DOMAIN listeners
    <2>1. listeners[c] \in Listener
        BY DEF GeneratorInv, GeneratorTypes, ListenersTyped
    <2>. QED BY <2>1, <1>1, <1>2, NextVSyncSpaced DEF GeneratorInv
<1>4. listeners' = [c \in DOMAIN listeners |->
          IF Due(listeners[c], wakeupDelay')
          THEN [listeners[c] EXCEPT
                  !.lastTime = NextVSync(listeners[c], now - period, wakeupDelay')]
          ELSE listeners[c]]
    BY DEF Deliver
<1>5. \A c \in DOMAIN listeners : listeners'[c] \in Listener /\
        (listeners'[c].lastTime # listeners[c].lastTime =>
            listeners'[c].lastTime = NextVSync(listeners[c], now - period, wakeupDelay'))
    BY <1>3, <1>4
<1>. QED BY <1>1, <1>4, <1>5

LEMMA UpdateInv ==
    ASSUME GeneratorInv, SamplerCalls
    PROVE  GeneratorInv'
<1>. USE DEF GeneratorInv, GeneratorTypes, ListenersTyped, DelayInv, UpdateMode, Calls, NotifyAll
<1>1. CASE UpdateMode([period |-> period, phase |-> 0], now)
    BY <1>1
<1>2. ASSUME NEW m \in Modes, UpdateMode(m, refrenceTime)
      PROVE  GeneratorInv'
    <2>1. m.period \in Nat \ {0} /\ m.phase \in Int
        BY GeneratorAssumption
    <2>. QED BY <1>2, <2>1
<1>. QED BY <1>1, <1>2 DEF SamplerCalls

LEMMA ListenersInv ==
    ASSUME GeneratorInv, NEW c \in Callbacks, NEW offset \in Offsets,
           AddListener(c, offset) \/ ChangePhaseOffset(c, offset) \/ RemoveListener(c)
    PROVE  GeneratorInv'
<1>. USE DEF GeneratorInv, GeneratorTypes, ListenersTyped, Listener, DelayInv, modeVars, threadVars
<1>. offset \in Int
    BY GeneratorAssumption
<1>1. CASE AddListener(c, offset)
    <2>1. now - period \div 2 + phase \in Int
        BY Z3
    <2>2. /\ DOMAIN listeners' = DOMAIN listeners \cup {c}
          /\ \A x \in DOMAIN listeners' : listeners'[x] \in Listener
        BY <1>1, <2>1 DEF AddListener
    <2>3. listeners' \in [DOMAIN listeners' -> Listener]
        BY <1>1, <2>2 DEF AddListener
    <2>. QED BY <1>1, <2>2, <2>3 DEF AddListener, Calls, NotifyAll
<1>2. CASE ChangePhaseOffset(c, offset)
    BY <1>2 DEF ChangePhaseOffset, Calls
<1>3. CASE RemoveListener(c)
    <2>1. /\ DOMAIN listeners' = DOMAIN listeners \ {c}
          /\ listeners' \in [DOMAIN listeners' -> Listener]
        BY <1>3 DEF RemoveListener
    <2>. QED BY <1>3, <2>1 DEF RemoveListener, Calls, NotifyAll
<1>. QED BY <1>1, <1>2, <1>3

LEMMA ThreadInv ==
    ASSUME GeneratorInv,
           LoopTest \/ NothingToDo \/ ComputeNext \/ WaitFor \/ WaitTimesOut \/ SpuriousWakeup
    PROVE  GeneratorInv'
<1>. USE DEF GeneratorInv, GeneratorTypes, ListenersTyped, DelayInv, modeVars, callVars
<1>1. CASE LoopTest
    BY <1>1 DEF LoopTest
<1>2. CASE NothingToDo
    BY <1>2 DEF NothingToDo, Sleeps
<1>3. CASE ComputeNext
    <2>1. period > 0 /\ now \in Int /\ wakeupDelay \in Nat
        BY <1>3 DEF ComputeNext, NoMode
    <2>2. PICK c \in DOMAIN listeners : nextTimeStamp' = NextVSync(listeners[c], now, wakeupDelay)
        BY <1>3 DEF ComputeNext
    <2>3. listeners[c] \in Listener
        OBVIOUS
    <2>4. nextTimeStamp' \in Int
        BY <2>1, <2>2, <2>3, NextVSyncSpaced
    <2>. QED BY <1>3, <2>1, <2>4 DEF ComputeNext
<1>4. CASE WaitFor
    BY <1>4 DEF WaitFor
<1>5. CASE WaitTimesOut
    BY <1>5 DEF WaitTimesOut
<1>6. CASE SpuriousWakeup
    BY <1>6 DEF SpuriousWakeup
<1>. QED BY <1>1, <1>2, <1>3, <1>4, <1>5, <1>6

LEMMA StepInv == GeneratorInv /\ [Next]_vars => GeneratorInv'
<1>. SUFFICES ASSUME GeneratorInv, [Next]_vars PROVE GeneratorInv'
    OBVIOUS
<1>1. CASE LoopTest \/ NothingToDo \/ ComputeNext \/ WaitFor \/ WaitTimesOut \/ SpuriousWakeup
    BY <1>1, ThreadInv
<1>2. CASE Deliver
    <2>1. /\ wakeupDelay' \in Nat
          /\ ListenersTyped'
        BY <1>2, DeliverListeners DEF GeneratorInv, GeneratorTypes, ListenersTyped
    <2>2. /\ UNCHANGED <<period, phase, refrenceTime, vsyncThreadRunning, timeoutAt, now>>
          /\ occurTimestamp' = 0 /\ nextTimeStamp' = 0 /\ pc' = "loop"
        BY <1>2 DEF Deliver, modeVars, callVars
    <2>3. isWakeup' \in BOOLEAN /\ ~isWakeup'
        BY <1>2, Zenon DEF Deliver
    <2>4. GeneratorTypes'
        BY <2>1, <2>2, <2>3 DEF GeneratorInv, GeneratorTypes
    <2>5. DelayInv'
        BY <2>2, <2>3 DEF DelayInv
    <2>. QED BY <2>4, <2>5 DEF GeneratorInv
<1>3. CASE SamplerCalls
    BY <1>3, UpdateInv
<1>4. ASSUME NEW c \in Callbacks, NEW offset \in Offsets,
             AddListener(c, offset) \/ ChangePhaseOffset(c, offset)
      PROVE  GeneratorInv'
    BY <1>4, ListenersInv
<1>5. ASSUME NEW c \in Callbacks, RemoveListener(c)
      PROVE  GeneratorInv'
    <2>1. /\ DOMAIN listeners' = DOMAIN listeners \ {c}
          /\ listeners' \in [DOMAIN listeners' -> Listener]
        BY <1>5 DEF RemoveListener, GeneratorInv, GeneratorTypes, ListenersTyped
    <2>. QED BY <1>5, <2>1 DEF RemoveListener, Calls, NotifyAll, modeVars, GeneratorInv,
                               GeneratorTypes, ListenersTyped, DelayInv
<1>6. CASE Destructor
    BY <1>6 DEF Destructor, NotifyAll, modeVars, GeneratorInv, GeneratorTypes, ListenersTyped, DelayInv
<1>7. CASE Tick
    BY <1>7 DEF Tick, modeVars, threadVars, callVars, GeneratorInv, GeneratorTypes, ListenersTyped, DelayInv
<1>8. CASE UNCHANGED vars
    BY <1>8 DEF vars, modeVars, threadVars, callVars, GeneratorInv, GeneratorTypes, ListenersTyped, DelayInv
<1>. QED BY <1>1, <1>2, <1>3, <1>4, <1>5, <1>6, <1>7, <1>8 DEF Next

----------------------------------------------------------------------------
(* ThreadLoop, DispatchCallback and UpdateMode: every listener's times     *)
(* rise by three fifths of a period, less the delay expected, whatever     *)
(* happens to period, phase and reference time between two events.         *)
THEOREM SpacingCorrect == Spec => WellSpaced
<1>1. Init => GeneratorInv
    BY InitInv
<1>2. GeneratorInv /\ [Next]_vars => GeneratorInv'
    BY StepInv
<1>3. GeneratorInv /\ [Next]_vars =>
        [\A c \in Callbacks : GetsEvent(c) => Gap(c) >= (3 * period) \div 5 - wakeupDelay']_vars
    <2>. SUFFICES ASSUME GeneratorInv, [Next]_vars, NEW c \in Callbacks, GetsEvent(c)
                  PROVE  Gap(c) >= (3 * period) \div 5 - wakeupDelay'
        OBVIOUS
    <2>1. Deliver
        BY DEF GetsEvent, Next, LoopTest, NothingToDo, ComputeNext, WaitFor, WaitTimesOut,
               SpuriousWakeup, SamplerCalls, UpdateMode, AddListener, ChangePhaseOffset,
               RemoveListener, Destructor, Tick, NotifyAll, threadVars, vars
    <2>2. /\ wakeupDelay' \in Nat
          /\ listeners'[c].lastTime = NextVSync(listeners[c], now - period, wakeupDelay')
        BY <2>1, DeliverListeners DEF GetsEvent
    <2>3. GeneratorTypes /\ period > 0 /\ now - period \in Int
        BY <2>1 DEF Deliver, GeneratorInv, GeneratorTypes, ListenersTyped, DelayInv
    <2>4. listeners[c] \in Listener
        BY DEF GetsEvent, GeneratorInv, GeneratorTypes, ListenersTyped
    <2>. QED BY <2>2, <2>3, <2>4, NextVSyncSpaced DEF Gap
<1>. QED BY <1>1, <1>2, <1>3, PTL DEF Spec, WellSpaced

----------------------------------------------------------------------------
(* The grid of a listener and what NextVSync finds on it                   *)

Start(l) == refrenceTime + phase + l.phase
OnGrid(l, g) == \E k \in Nat : g = Start(l) + k * period

(* Between a multiple of p and the next there is none.                     *)
LEMMA MultiplesApart ==
    ASSUME NEW i \in Nat, NEW j \in Nat, NEW p \in Nat \ {0}, i * p < j * p
    PROVE  i * p + p <= j * p
<1>1. i < j
    <2>. SUFFICES ASSUME j <= i PROVE FALSE
        OBVIOUS
    <2>1. j * p <= i * p
        BY Z3
    <2>2. i * p \in Nat /\ j * p \in Nat
        BY ProductOfNats
    <2>. QED BY <2>1, <2>2
<1>2. PICK n \in Nat : j = i + 1 + n
    BY <1>1
<1>3. j * p = i * p + p + n * p
    BY <1>2, Z3
<1>. QED BY <1>3, ProductOfNats

LEMMA DivisionBounds ==
    ASSUME NEW a \in Nat, NEW p \in Nat \ {0}
    PROVE  /\ a \div p \in Nat
           /\ (a \div p + 1) * p \in Nat
           /\ (a \div p + 1) * p > a
           /\ (a \div p + 1) * p <= a + p
<1>1. a \div p \in Nat /\ p * (a \div p) <= a /\ a < p * (a \div p) + p
    BY Z3
<1> DEFINE q == a \div p
<1>2. q \in Nat /\ p * q <= a /\ a < p * q + p
    BY <1>1
<1>. HIDE DEF q
<1>3. (q + 1) * p = p * q + p /\ p * q \in Nat
    BY <1>2, Z3
<1>. QED BY <1>2, <1>3 DEF q

LEMMA GridInts ==
    ASSUME GeneratorTypes, NEW l \in Listener
    PROVE  /\ Start(l) \in Int
           /\ \A g : OnGrid(l, g) => g \in Int /\ g >= Start(l)
<1>1. Start(l) \in Int /\ period \in Nat
    BY DEF Start, GeneratorTypes, Listener
<1>2. ASSUME NEW g, OnGrid(l, g)
      PROVE  g \in Int /\ g >= Start(l)
    <2>1. PICK k \in Nat : g = Start(l) + k * period
        BY <1>2 DEF OnGrid
    <2>2. k * period \in Nat
        BY <1>1, ProductOfNats
    <2>. QED BY <1>1, <2>1, <2>2
<1>. QED BY <1>1, <1>2

(* A period after a point of the grid is the next one.                     *)
LEMMA GridStep ==
    ASSUME GeneratorTypes, period > 0, NEW l \in Listener, NEW g, OnGrid(l, g)
    PROVE  /\ OnGrid(l, g + period)
           /\ \A h : OnGrid(l, h) /\ g < h => g + period <= h
<1>1. Start(l) \in Int /\ period \in Nat \ {0}
    BY GridInts DEF GeneratorTypes
<1>2. PICK k \in Nat : g = Start(l) + k * period
    BY DEF OnGrid
<1>3. k * period \in Nat
    BY <1>1, ProductOfNats
<1>4. OnGrid(l, g + period)
    <2>1. (k + 1) * period = k * period + period
        BY <1>1, Z3
    <2>2. g + period = Start(l) + (k + 1) * period
        BY <1>1, <1>2, <1>3, <2>1
    <2>. QED BY <2>2 DEF OnGrid
<1>5. ASSUME NEW h, OnGrid(l, h), g < h
      PROVE  g + period <= h
    <2>1. PICK j \in Nat : h = Start(l) + j * period
        BY <1>5 DEF OnGrid
    <2>2. j * period \in Nat
        BY <1>1, ProductOfNats
    <2>3. k * period < j * period
        BY <1>1, <1>2, <1>3, <1>5, <2>1, <2>2
    <2>4. k * period + period <= j * period
        BY <1>1, <2>3, MultiplesApart
    <2>. QED BY <1>1, <1>2, <1>3, <2>1, <2>2, <2>4
<1>. QED BY <1>4, <1>5

(* GridPoint is the first point of the grid after t.                       *)
LEMMA GridPointFirst ==
    ASSUME GeneratorTypes, period > 0, NEW l \in Listener, NEW t \in Int
    PROVE  /\ OnGrid(l, GridPoint(l, t))
           /\ GridPoint(l, t) \in Int /\ GridPoint(l, t) > t
           /\ GridPoint(l, t) <= Start(l) \/ GridPoint(l, t) <= t + period
           /\ \A g : OnGrid(l, g) /\ g > t => GridPoint(l, t) <= g
<1> DEFINE start == Start(l)
<1>1. start \in Int /\ period \in Nat \ {0}
    BY GridInts DEF GeneratorTypes
<1>2. GridPoint(l, t) = IF t < start THEN start ELSE start + ((t - start) \div period + 1) * period
    BY DEF GridPoint, Start
<1>3. \A g : OnGrid(l, g) => g \in Int /\ g >= start
    BY GridInts
<1>4. CASE t < start
    <2>1. GridPoint(l, t) = start
        BY <1>2, <1>4
    <2>2. start = Start(l) + 0 * period
        BY <1>1
    <2>3. OnGrid(l, start)
        BY <2>2 DEF OnGrid
    <2>. QED BY <1>1, <1>3, <1>4, <2>1, <2>3
<1>5. CASE ~(t < start)
    <2> DEFINE a == t - start
               q == a \div period
               m == (q + 1) * period
    <2>1. a \in Nat
        BY <1>1, <1>5
    <2>2. q \in Nat /\ m \in Nat /\ m > a /\ m <= a + period
        BY <1>1, <2>1, DivisionBounds
    <2>3. GridPoint(l, t) = start + m
        BY <1>2, <1>5
    <2>4. OnGrid(l, start + m)
        <3>1. q + 1 \in Nat
            BY <2>2
        <3>. HIDE DEF q
        <3>. QED BY <3>1 DEF OnGrid
    <2>5. ASSUME NEW g, OnGrid(l, g), g > t
          PROVE  start + m <= g
        <3>1. PICK j \in Nat : g = start + j * period
            BY <2>5 DEF OnGrid
        <3>2. j * period \in Nat /\ g \in Int
            BY <1>1, <3>1, ProductOfNats
        <3>3. q * period \in Nat /\ m = q * period + period
            <4>. HIDE DEF q
            <4>1. q \in Nat
                BY <2>2 DEF q
            <4>. QED BY <1>1, <4>1, ProductOfNats, Z3
        <3>4. j * period > q * period
            <4>. HIDE DEF m, q, start
            <4>1. q * period <= a
                BY <1>1, <2>1, <2>2, <3>3
            <4>. HIDE DEF a
            <4>2. t = start + a
                BY <1>1 DEF a
            <4>. QED BY <1>1, <2>1, <2>5, <3>1, <3>2, <3>3, <4>1, <4>2
        <3>5. q * period + period <= j * period
            <4>1. q \in Nat
                BY <2>2
            <4>. HIDE DEF q
            <4>. QED BY <1>1, <3>4, <4>1, MultiplesApart
        <3>. HIDE DEF m, q, start
        <3>. QED BY <1>1, <3>1, <3>2, <3>3, <3>5
    <2>6. start + m > t /\ start + m <= t + period /\ start + m \in Int
        <3>. HIDE DEF m, start
        <3>. QED BY <1>1, <2>1, <2>2 DEF a
    <2>. QED BY <2>3, <2>4, <2>5, <2>6
<1>. QED BY <1>4, <1>5

(* NextVSync names the first point after t that is not the last event's.   *)
LEMMA VSyncPoint ==
    ASSUME GeneratorTypes, period > 0, NEW l \in Listener, NEW t \in Int, NEW d \in Nat
    PROVE  \E g \in Int :
              /\ OnGrid(l, g) /\ g > t /\ g > l.lastTime + d
              /\ g <= Start(l) \/ g <= t + period \/ g <= l.lastTime + d + period
              /\ \A x : OnGrid(l, x) /\ x > t /\ x > l.lastTime + d => g <= x
              /\ NextVSync(l, t, d)
                   = (IF g - l.lastTime < (3 * period) \div 5 THEN g + period ELSE g) - d
<1> DEFINE from == AtLeast(t, l.lastTime + d)
           g == GridPoint(l, from)
<1>1. l.lastTime \in Int
    BY DEF Listener
<1>2. /\ from \in Int /\ from >= t /\ from >= l.lastTime + d
      /\ from = t \/ from = l.lastTime + d
    BY <1>1 DEF AtLeast
<1>3. NextVSync(l, t, d) = (IF g - l.lastTime < (3 * period) \div 5 THEN g + period ELSE g) - d
    BY DEF NextVSync
<1>. HIDE DEF from
<1>4. /\ OnGrid(l, g) /\ g \in Int /\ g > from
      /\ g <= Start(l) \/ g <= from + period
      /\ \A x : OnGrid(l, x) /\ x > from => g <= x
    BY <1>2, GridPointFirst
<1>5. \A x : OnGrid(l, x) /\ x > t /\ x > l.lastTime + d => g <= x
    BY <1>2, <1>4
<1>6. g > t /\ g > l.lastTime + d
    <2>. HIDE DEF g
    <2>. QED BY <1>1, <1>2, <1>4
<1>7. g <= Start(l) \/ g <= t + period \/ g <= l.lastTime + d + period
    <2>. HIDE DEF g
    <2>. QED BY <1>1, <1>2, <1>4
<1>. QED BY <1>3, <1>4, <1>5, <1>6, <1>7

(* Three fifths of a period.                                               *)
LEMMA ThreeFifths ==
    ASSUME GeneratorTypes
    PROVE  /\ (3 * period) \div 5 \in Int
           /\ 5 * ((3 * period) \div 5) <= 3 * period
           /\ (3 * period) \div 5 <= period
<1>1. period \in Nat
    BY DEF GeneratorTypes
<1>. QED BY <1>1, Z3

(* Nothing is computed to be far ahead.                                    *)
LEMMA VSyncAhead ==
    ASSUME GeneratorTypes, period > 0, NEW l \in Listener, NEW t \in Int, NEW d \in Nat,
           NEW b \in Nat, period <= b, Start(l) <= t + 2 * b,
           ErrorThreshold \in Nat, l.lastTime < t + ErrorThreshold, 5 * ErrorThreshold <= 2 * b
    PROVE  NextVSync(l, t, d) \in Int /\ NextVSync(l, t, d) <= t + 2 * b
<1>1. /\ l.lastTime \in Int /\ period \in Nat /\ Start(l) \in Int
    BY GridInts DEF Listener, GeneratorTypes
<1> DEFINE h == (3 * period) \div 5
<1>2. h \in Int /\ 5 * h <= 3 * period
    BY ThreeFifths
<1>3. PICK g \in Int :
        /\ g <= Start(l) \/ g <= t + period \/ g <= l.lastTime + d + period
        /\ NextVSync(l, t, d) = (IF g - l.lastTime < h THEN g + period ELSE g) - d
    BY VSyncPoint
<1>. HIDE DEF h
<1>4. CASE g - l.lastTime < h
    BY <1>1, <1>2, <1>3, <1>4
<1>5. CASE ~(g - l.lastTime < h)
    BY <1>1, <1>2, <1>3, <1>5
<1>. QED BY <1>4, <1>5

(* A listener that is not due at time t, for which it is asked what came   *)
(* next a period ago, is not overdue, and what comes next is near.         *)
LEMMA NotDueNear ==
    ASSUME GeneratorTypes, period > 0, NEW l \in Listener, NEW t \in Int, NEW d \in Nat,
           NEW a \in Int, NEW b \in Nat, period <= b, d <= b,
           Start(l) <= a + 2 * b, l.lastTime <= a,
           t < NextVSync(l, t - period, d)
    PROVE  t <= a + 2 * b /\ NextVSync(l, t, d) \in Int /\ NextVSync(l, t, d) <= a + 2 * b
<1>1. /\ l.lastTime \in Int /\ period \in Nat /\ Start(l) \in Int /\ t - period \in Int
    BY GridInts DEF Listener, GeneratorTypes
<1> DEFINE h == (3 * period) \div 5
<1>2. h \in Int /\ h <= period
    BY ThreeFifths
<1>3. PICK g \in Int :
        /\ OnGrid(l, g) /\ g > t - period /\ g > l.lastTime + d
        /\ g <= Start(l) \/ g <= t - period + period \/ g <= l.lastTime + d + period
        /\ NextVSync(l, t - period, d) = (IF g - l.lastTime < h THEN g + period ELSE g) - d
    BY <1>1, VSyncPoint
<1>4. PICK f \in Int :
        /\ f > t
        /\ \A x : OnGrid(l, x) /\ x > t /\ x > l.lastTime + d => f <= x
        /\ NextVSync(l, t, d) = (IF f - l.lastTime < h THEN f + period ELSE f) - d
    BY VSyncPoint
<1>5. OnGrid(l, g + period)
    BY <1>3, GridStep
<1>. HIDE DEF h
<1>6. CASE g - l.lastTime < h
    <2>1. g + period > t /\ g + period > l.lastTime + d
        BY <1>1, <1>3, <1>6
    <2>2. f <= g + period
        BY <1>4, <1>5, <2>1
    <2>. QED BY <1>1, <1>2, <1>3, <1>4, <1>6, <2>1, <2>2
<1>7. CASE ~(g - l.lastTime < h)
    <2>1. g > t + d
        BY <1>1, <1>3, <1>7
    <2>2. f <= g
        BY <1>3, <1>4, <2>1
    <2>3. t <= a + 2 * b /\ g - d <= a + 2 * b
        BY <1>1, <1>3, <2>1
    <2>4. CASE f - l.lastTime < h
        BY <1>1, <1>2, <1>4, <2>3, <2>4
    <2>5. CASE ~(f - l.lastTime < h)
        BY <1>1, <1>4, <2>2, <2>3, <2>5
    <2>. QED BY <2>3, <2>4, <2>5
<1>. QED BY <1>6, <1>7

(* After an event for a point of the grid comes the next point, whatever   *)
(* delay is expected by then, unless it is over.                           *)
LEMMA NextIsNext ==
    ASSUME GeneratorTypes, period > 0, NEW l \in Listener, NEW t \in Int, NEW d \in Nat,
           NEW e \in Nat, OnGrid(l, l.lastTime + e), t < l.lastTime + e + period,
           d = e \/ (d < (3 * period) \div 5 /\ e < (3 * period) \div 5)
    PROVE  NextVSync(l, t, d) = l.lastTime + e + period - d
<1>1. l.lastTime \in Int /\ period \in Nat
    BY DEF Listener, GeneratorTypes
<1> DEFINE h == (3 * period) \div 5
           told == l.lastTime + e
<1>2. h \in Int /\ h <= period
    BY ThreeFifths
<1>3. PICK g \in Int :
        /\ OnGrid(l, g) /\ g > l.lastTime + d
        /\ \A x : OnGrid(l, x) /\ x > t /\ x > l.lastTime + d => g <= x
        /\ NextVSync(l, t, d) = (IF g - l.lastTime < h THEN g + period ELSE g) - d
    BY VSyncPoint
<1>4. OnGrid(l, told + period) /\ \A x : OnGrid(l, x) /\ told < x => told + period <= x
    BY GridStep
<1>5. g < told => g + period <= told
    BY <1>3, GridStep
<1>6. told \in Int /\ told + period > t /\ (d = e \/ (d < h /\ e < h))
    BY <1>1
<1>. HIDE DEF h
<1>7. told + period > l.lastTime + d
    BY <1>1, <1>2, <1>6
<1>8. g <= told + period
    BY <1>3, <1>4, <1>6, <1>7
<1>9. g >= told
    BY <1>1, <1>2, <1>3, <1>5, <1>6
<1>10. CASE g = told
    BY <1>1, <1>2, <1>3, <1>6, <1>10
<1>11. CASE g # told
    <2>1. told < g
        BY <1>6, <1>9, <1>11
    <2>2. g = told + period
        BY <1>1, <1>3, <1>4, <1>6, <1>8, <2>1
    <2>. QED BY <1>1, <1>2, <1>3, <2>2
<1>. QED BY <1>10, <1>11

(* What a due listener is told, with the delay, is a point of its grid     *)
(* after what came a period ago.                                           *)
LEMMA ToldOnGrid ==
    ASSUME GeneratorTypes, period > 0, NEW l \in Listener, NEW t \in Int, NEW d \in Nat
    PROVE  /\ NextVSync(l, t - period, d) \in Int
           /\ OnGrid(l, NextVSync(l, t - period, d) + d)
           /\ t < NextVSync(l, t - period, d) + d + period
<1>1. l.lastTime \in Int /\ period \in Nat /\ t - period \in Int
    BY DEF Listener, GeneratorTypes
<1> DEFINE h == (3 * period) \div 5
<1>2. PICK g \in Int :
        /\ OnGrid(l, g) /\ g > t - period
        /\ NextVSync(l, t - period, d) = (IF g - l.lastTime < h THEN g + period ELSE g) - d
    BY <1>1, VSyncPoint
<1>3. OnGrid(l, g + period) /\ h \in Int
    BY <1>2, GridStep, ThreeFifths
<1>. HIDE DEF h
<1>4. CASE g - l.lastTime < h
    <2>1. NextVSync(l, t - period, d) = g + period - d
        BY <1>1, <1>2, <1>3, <1>4
    <2>2. NextVSync(l, t - period, d) + d = g + period
        BY <1>1, <2>1
    <2>. QED BY <1>1, <1>2, <1>3, <2>1, <2>2
<1>5. CASE ~(g - l.lastTime < h)
    <2>1. NextVSync(l, t - period, d) = g - d
        BY <1>1, <1>2, <1>3, <1>5
    <2>2. NextVSync(l, t - period, d) + d = g
        BY <1>1, <2>1
    <2>. QED BY <1>1, <1>2, <2>1, <2>2
<1>. QED BY <1>4, <1>5

----------------------------------------------------------------------------
(* When things happened, and how late the thread is                        *)

(* The thread takes an event that is almost due for due (errorThreshold);  *)
(* the sampler's phase is an angle between -PI and PI.                     *)
Tuned ==
    /\ 0 < ErrorThreshold
    /\ \A m \in Modes : 2 * m.phase <= m.period

(* The mode is one of the sampler's.  Reference time and last events are   *)
(* not ahead of the clock, but for the threshold.  The thread sleeps       *)
(* without a limit only if there is nothing to do, and is late as bounded. *)
TimingInv ==
    /\ period = 0 \/ \E m \in Modes : period = m.period
    /\ 2 * phase <= period
    /\ wakeupDelay <= MaxWakeupDelay
    /\ disturbedAt \in Nat /\ refrenceTime <= disturbedAt /\ disturbedAt <= now
    /\ \A c \in DOMAIN listeners :
          listeners[c].phase \in Offsets /\ listeners[c].lastTime < now + ErrorThreshold
    /\ pc = "sleeping" => period = 0 \/ DOMAIN listeners = {}
    /\ pc = "ended" => ~vsyncThreadRunning
    /\ pc = "unlocked" => now <= occurTimestamp + MaxLate
    /\ pc = "timedWait" => now <= timeoutAt + MaxLate

LEMMA Bounds ==
    {MaxWakeupDelay, ErrorThreshold, MaxLate} \subseteq Nat /\ Offsets \subseteq Int
    /\ Modes \subseteq [period : Nat \ {0}, phase : Int]
BY GeneratorAssumption

LEMMA TimingInit == Init => TimingInv
<1>. SUFFICES ASSUME Init PROVE TimingInv
    OBVIOUS
<1>1. DOMAIN listeners = {}
    BY DEF Init
<1>. QED BY <1>1, Bounds DEF Init, TimingInv

LEMMA DelayBounded ==
    ASSUME GeneratorInv, TimingInv, pc = "deliver"
    PROVE  WakeupDelay <= MaxWakeupDelay
<1>. MaxWakeupDelay \in Nat
    BY Bounds
<1>1. CASE ~isWakeup
    BY <1>1 DEF WakeupDelay, TimingInv
<1>2. CASE isWakeup
    <2> DEFINE mean == (wakeupDelay * (DelayWeight - 1) + now - nextTimeStamp) \div DelayWeight
    <2>1. WakeupDelay = AtMost(mean, MaxWakeupDelay)
        BY <1>2 DEF WakeupDelay
    <2>2. AtMost(mean, MaxWakeupDelay) \in Nat
        BY <2>1, DelayNotNegative
    <2>. HIDE DEF mean
    <2>3. CASE mean < MaxWakeupDelay
        BY <2>1, <2>2, <2>3 DEF AtMost
    <2>4. CASE ~(mean < MaxWakeupDelay)
        BY <2>1, <2>4 DEF AtMost
    <2>. QED BY <2>3, <2>4
<1>. QED BY <1>1, <1>2 DEF GeneratorInv, GeneratorTypes

(* A call, a spurious wake-up and the end are noted, and leave the thread  *)
(* where it is or send it round its loop.                                  *)
Disturbs ==
    /\ disturbedAt' = now /\ now' = now
    /\ \/ UNCHANGED <<pc, occurTimestamp, nextTimeStamp, timeoutAt>>
       \/ pc' = "loop"
    /\ wakeupDelay' = wakeupDelay

LEMMA DisturbsSteps ==
    ASSUME \/ SamplerCalls \/ Destructor \/ SpuriousWakeup
           \/ \E c \in Callbacks, offset \in Offsets :
                 AddListener(c, offset) \/ ChangePhaseOffset(c, offset)
           \/ \E c \in Callbacks : RemoveListener(c)
    PROVE  Disturbs
BY DEF Disturbs, SamplerCalls, UpdateMode, Destructor, SpuriousWakeup, AddListener, Calls,
       ChangePhaseOffset, RemoveListener, NotifyAll, threadVars

LEMMA TimingDisturbed ==
    ASSUME Tuned, GeneratorInv, TimingInv,
           \/ SamplerCalls \/ Destructor \/ SpuriousWakeup
           \/ \E c \in Callbacks, offset \in Offsets :
                 AddListener(c, offset) \/ ChangePhaseOffset(c, offset)
           \/ \E c \in Callbacks : RemoveListener(c)
    PROVE  TimingInv'
<1>. USE Bounds DEF modeVars, threadVars
<1>1. /\ period \in Nat /\ phase \in Int /\ refrenceTime \in Int /\ now \in Nat
      /\ wakeupDelay \in Nat /\ occurTimestamp \in Nat /\ timeoutAt \in Int
      /\ \A c \in DOMAIN listeners : listeners[c] \in Listener
    BY DEF GeneratorInv, GeneratorTypes, ListenersTyped
<1>2. CASE SamplerCalls
    <2>1. PICK m, r : /\ UpdateMode(m, r) /\ r <= now
                      /\ m.period = 0 \/ \E x \in Modes : m.period = x.period
                      /\ 2 * m.phase <= m.period
        <3>1. CASE UpdateMode([period |-> period, phase |-> 0], now)
            BY <1>1, <3>1 DEF TimingInv
        <3>2. ASSUME NEW m \in Modes, UpdateMode(m, refrenceTime)
              PROVE  \E x, r : /\ UpdateMode(x, r) /\ r <= now
                               /\ x.period = 0 \/ \E y \in Modes : x.period = y.period
                               /\ 2 * x.phase <= x.period
            <4>1. refrenceTime <= now
                BY <1>1 DEF TimingInv
            <4>. QED BY <3>2, <4>1 DEF Tuned
        <3>. QED BY <1>2, <3>1, <3>2 DEF SamplerCalls
    <2>2. /\ period' = m.period /\ phase' = m.phase /\ refrenceTime' = r
          /\ UNCHANGED <<wakeupDelay, listeners, occurTimestamp, timeoutAt, now,
                         vsyncThreadRunning>>
          /\ pc' = (IF pc = "sleeping" THEN "loop" ELSE pc) /\ disturbedAt' = now
        BY <2>1 DEF UpdateMode, Calls, NotifyAll
    <2>. QED BY <1>1, <2>1, <2>2 DEF TimingInv
<1>3. CASE Destructor
    BY <1>1, <1>3 DEF TimingInv, Destructor, NotifyAll
<1>4. CASE SpuriousWakeup
    BY <1>1, <1>4 DEF TimingInv, SpuriousWakeup
<1>5. ASSUME NEW c \in Callbacks, NEW offset \in Offsets, AddListener(c, offset)
      PROVE  TimingInv'
    <2>1. /\ UNCHANGED <<period, phase, refrenceTime, wakeupDelay, occurTimestamp, timeoutAt,
                         now, vsyncThreadRunning>>
          /\ pc' = (IF pc = "sleeping" THEN "loop" ELSE pc) /\ disturbedAt' = now
          /\ DOMAIN listeners' = DOMAIN listeners \cup {c}
          /\ \A x \in DOMAIN listeners' : listeners'[x] =
                IF x = c THEN [phase |-> offset, lastTime |-> now - period \div 2 + phase]
                         ELSE listeners[x]
        BY <1>5 DEF AddListener, Calls, NotifyAll
    <2>2. now - period \div 2 + phase < now + ErrorThreshold
        <3>1. period \div 2 \in Nat /\ period < 2 * (period \div 2) + 2
            BY <1>1, Z3
        <3> DEFINE half == period \div 2
        <3>2. half \in Nat /\ period < 2 * half + 2 /\ 2 * phase <= period
            BY <3>1 DEF TimingInv
        <3>. HIDE DEF half
        <3>3. now - half + phase < now + ErrorThreshold
            BY <1>1, <3>2 DEF Tuned
        <3>. QED BY <3>3 DEF half
    <2>3. \A x \in DOMAIN listeners' :
            listeners'[x].phase \in Offsets /\ listeners'[x].lastTime < now' + ErrorThreshold
        BY <2>1, <2>2 DEF TimingInv
    <2>. QED BY <1>1, <2>1, <2>3 DEF TimingInv
<1>6. ASSUME NEW c \in Callbacks, NEW offset \in Offsets, ChangePhaseOffset(c, offset)
      PROVE  TimingInv'
    <2>1. /\ UNCHANGED <<period, phase, refrenceTime, wakeupDelay, pc, occurTimestamp,
                         timeoutAt, now, vsyncThreadRunning>>
          /\ disturbedAt' = now /\ DOMAIN listeners' = DOMAIN listeners
          /\ listeners' = [listeners EXCEPT ![c].phase = offset]
        BY <1>6 DEF ChangePhaseOffset, Calls
    <2>2. \A x \in DOMAIN listeners' :
            listeners'[x].phase \in Offsets /\ listeners'[x].lastTime < now' + ErrorThreshold
        BY <1>1, <2>1 DEF TimingInv, Listener
    <2>. QED BY <1>1, <2>1, <2>2 DEF TimingInv
<1>7. ASSUME NEW c \in Callbacks, RemoveListener(c)
      PROVE  TimingInv'
    <2>1. /\ UNCHANGED <<period, phase, refrenceTime, wakeupDelay, occurTimestamp, timeoutAt,
                         now, vsyncThreadRunning>>
          /\ pc' = (IF pc = "sleeping" THEN "loop" ELSE pc) /\ disturbedAt' = now
          /\ DOMAIN listeners' \subseteq DOMAIN listeners
          /\ \A x \in DOMAIN listeners' : listeners'[x] = listeners[x]
        BY <1>7 DEF RemoveListener, Calls, NotifyAll
    <2>. QED BY <1>1, <2>1 DEF TimingInv
<1>. QED BY <1>2, <1>3, <1>4, <1>5, <1>6, <1>7

(* A due listener is told a time that is over or almost.                   *)
LEMMA TimingDelivers ==
    ASSUME Tuned, GeneratorInv, TimingInv, Deliver
    PROVE  TimingInv'
<1>. USE Bounds
<1>1. /\ period \in Nat /\ period > 0 /\ phase \in Int /\ refrenceTime \in Int /\ now \in Nat
      /\ \A c \in DOMAIN listeners : listeners[c] \in Listener
    BY DEF GeneratorInv, GeneratorTypes, ListenersTyped, DelayInv, Deliver
<1>2. wakeupDelay' \in Nat /\ wakeupDelay' <= MaxWakeupDelay
    BY DelayNotNegative, DelayBounded DEF Deliver
<1>3. /\ UNCHANGED <<period, phase, refrenceTime, vsyncThreadRunning, now, disturbedAt>>
      /\ pc' = "loop" /\ DOMAIN listeners' = DOMAIN listeners
    BY DEF Deliver, modeVars, callVars
<1>4. \A c \in DOMAIN listeners' :
        listeners'[c].phase \in Offsets /\ listeners'[c].lastTime < now' + ErrorThreshold
    <2>. TAKE c \in DOMAIN listeners'
    <2> DEFINE l == listeners[c]
               told == NextVSync(l, now - period, wakeupDelay')
    <2>1. l \in Listener /\ l.phase \in Offsets /\ l.lastTime < now + ErrorThreshold
        BY <1>1, <1>3 DEF TimingInv
    <2>2. listeners'[c] = IF Due(l, wakeupDelay') THEN [l EXCEPT !.lastTime = told] ELSE l
        BY <1>3 DEF Deliver
    <2>3. told \in Int
        BY <1>1, <1>2, <2>1, ToldOnGrid DEF GeneratorInv
    <2>4. Due(l, wakeupDelay') => told < now + ErrorThreshold
        <3>1. Due(l, wakeupDelay') => told < now \/ told - now < ErrorThreshold
            BY DEF Due
        <3>. HIDE DEF told
        <3>. QED BY <1>1, <2>3, <3>1 DEF Tuned
    <2>. HIDE DEF l, told
    <2>5. CASE Due(l, wakeupDelay')
        BY <1>3, <2>1, <2>2, <2>4, <2>5 DEF Listener
    <2>6. CASE ~Due(l, wakeupDelay')
        BY <1>3, <2>1, <2>2, <2>6
    <2>. QED BY <2>5, <2>6
<1>. QED BY <1>1, <1>2, <1>3, <1>4 DEF TimingInv

LEMMA TimingStep ==
    ASSUME Tuned, GeneratorInv, TimingInv, [Next]_vars
    PROVE  TimingInv'
<1>. USE Bounds DEF modeVars, threadVars, callVars
<1>1. /\ period \in Nat /\ phase \in Int /\ refrenceTime \in Int /\ now \in Nat
      /\ wakeupDelay \in Nat /\ occurTimestamp \in Nat /\ timeoutAt \in Int
      /\ nextTimeStamp \in Int /\ vsyncThreadRunning \in BOOLEAN
      /\ \A c \in DOMAIN listeners : listeners[c].lastTime \in Int
    BY DEF GeneratorInv, GeneratorTypes, ListenersTyped, Listener
<1>2. CASE LoopTest
    BY <1>1, <1>2 DEF TimingInv, LoopTest
<1>3. CASE NothingToDo
    BY <1>1, <1>3 DEF TimingInv, NothingToDo, NoMode, Sleeps
<1>4. CASE ComputeNext
    BY <1>1, <1>4 DEF TimingInv, ComputeNext
<1>5. CASE WaitFor
    BY <1>1, <1>5 DEF TimingInv, WaitFor
<1>6. CASE WaitTimesOut
    BY <1>1, <1>6 DEF TimingInv, WaitTimesOut
<1>7. CASE Tick
    BY <1>1, <1>7 DEF TimingInv, Tick
<1>8. CASE UNCHANGED vars
    BY <1>8 DEF TimingInv, vars
<1>. QED BY <1>2, <1>3, <1>4, <1>5, <1>6, <1>7, <1>8, TimingDisturbed, TimingDelivers DEF Next

----------------------------------------------------------------------------
(* Nobody is forgotten                                                     *)

(* One of the sampler's periods is the longest, and phases, the delay that *)
(* is allowed for and the threshold are small beside it.                   *)
Proportions ==
    /\ Tuned
    /\ \E p \in {m.period : m \in Modes} : \A m \in Modes : m.period <= p
    /\ \A offset \in Offsets : offset <= LongestPeriod
    /\ MaxWakeupDelay <= LongestPeriod
    /\ 5 * ErrorThreshold <= 2 * LongestPeriod

(* The latest time of the listener's last event and of the last change.    *)
Since(c) == AtLeast(disturbedAt, listeners[c].lastTime)

(* The wait that will bring the listener's event is over in time.          *)
InTime(c) ==
    LET latest == Since(c) + 2 * LongestPeriod
    IN  /\ pc \in {"loop", "compute"} =>
              now <= latest /\ NextVSync(listeners[c], now, wakeupDelay) <= latest
        /\ pc = "unlocked" => occurTimestamp <= latest /\ nextTimeStamp <= latest
        /\ pc = "timedWait" => timeoutAt <= latest + MaxLate
        /\ pc = "deliver" => now <= latest + 2 * MaxLate

(* No wait is long, so that a change at any time need not end it.          *)
ShortWaits ==
    /\ pc = "unlocked" => nextTimeStamp <= occurTimestamp + 2 * LongestPeriod
    /\ pc = "timedWait" => timeoutAt <= now + 2 * LongestPeriod

ForgetInv ==
    /\ ShortWaits
    /\ period > 0 /\ vsyncThreadRunning => \A c \in DOMAIN listeners : InTime(c)

LEMMA Longest ==
    ASSUME Proportions
    PROVE  LongestPeriod \in Nat /\ \A m \in Modes : m.period <= LongestPeriod
<1>1. /\ LongestPeriod \in {m.period : m \in Modes}
      /\ \A m \in Modes : m.period <= LongestPeriod
    BY Zenon DEF Proportions, LongestPeriod
<1>. QED BY <1>1, Bounds

(* The grid of a listener begins, and what comes next is, at most two      *)
(* periods ahead.                                                          *)
SoonFrom == \A c \in DOMAIN listeners : Start(listeners[c]) <= disturbedAt + 2 * LongestPeriod
SoonAhead ==
    period > 0 => \A c \in DOMAIN listeners :
        /\ NextVSync(listeners[c], now, wakeupDelay) \in Int
        /\ NextVSync(listeners[c], now, wakeupDelay) <= now + 2 * LongestPeriod

LEMMA Members ==
    ASSUME GeneratorTypes
    PROVE  /\ period \in Nat /\ phase \in Int /\ refrenceTime \in Int /\ now \in Nat
           /\ wakeupDelay \in Nat /\ occurTimestamp \in Nat /\ timeoutAt \in Int
           /\ nextTimeStamp \in Int /\ vsyncThreadRunning \in BOOLEAN
           /\ \A c \in DOMAIN listeners :
                 /\ listeners[c] \in Listener
                 /\ listeners[c].lastTime \in Int /\ listeners[c].phase \in Int
BY DEF GeneratorTypes, ListenersTyped, Listener

LEMMA Soon ==
    ASSUME Proportions
    PROVE  GeneratorInv /\ TimingInv => SoonFrom /\ SoonAhead /\ period <= LongestPeriod
<1>. SUFFICES ASSUME GeneratorInv, TimingInv
              PROVE  SoonFrom /\ SoonAhead /\ period <= LongestPeriod
    OBVIOUS
<1>. DEFINE b == LongestPeriod
<1>1. b \in Nat /\ \A m \in Modes : m.period <= b
    BY Longest
<1>2. GeneratorTypes /\ ErrorThreshold \in Nat /\ Offsets \subseteq Int
    BY Bounds DEF GeneratorInv
<1>3. 5 * ErrorThreshold <= 2 * b /\ \A offset \in Offsets : offset <= b
    BY DEF Proportions
<1>. HIDE DEF b
<1>4. period <= b
    BY <1>1 DEF TimingInv
<1>5. ASSUME NEW c \in DOMAIN listeners
      PROVE  Start(listeners[c]) <= disturbedAt + 2 * b
    <2>1. listeners[c].phase \in Int /\ listeners[c].phase <= b
        BY <1>2, <1>3, Members DEF TimingInv
    <2>2. 2 * phase <= b /\ refrenceTime <= disturbedAt /\ disturbedAt \in Nat
        BY <1>1, <1>2, <1>4, Members DEF TimingInv
    <2>. QED BY <1>1, <1>2, <2>1, <2>2, Members DEF Start
<1>6. ASSUME NEW c \in DOMAIN listeners, period > 0
      PROVE  /\ NextVSync(listeners[c], now, wakeupDelay) \in Int
             /\ NextVSync(listeners[c], now, wakeupDelay) <= now + 2 * b
    <2>1. listeners[c] \in Listener /\ now \in Int /\ wakeupDelay \in Nat
        BY <1>2, Members
    <2>2. Start(listeners[c]) <= now + 2 * b
        BY <1>1, <1>2, <1>5, <2>1, GridInts DEF TimingInv
    <2>3. listeners[c].lastTime < now + ErrorThreshold
        BY DEF TimingInv
    <2>. QED BY <1>1, <1>2, <1>3, <1>4, <1>6, <2>1, <2>2, <2>3, VSyncAhead
<1>. QED BY <1>4, <1>5, <1>6 DEF SoonFrom, SoonAhead, b

LEMMA SoonNext ==
    ASSUME Proportions
    PROVE  (GeneratorInv /\ TimingInv)' => SoonAhead'
<1>1. GeneratorInv /\ TimingInv => SoonAhead
    BY Soon
<1>. QED BY <1>1, PTL

LEMMA ForgetInit == ASSUME Init PROVE ForgetInv
BY DEF Init, ForgetInv, ShortWaits

LEMMA SinceInt ==
    ASSUME GeneratorTypes, TimingInv, NEW c \in DOMAIN listeners
    PROVE  Since(c) \in Int /\ Since(c) >= disturbedAt /\ Since(c) >= listeners[c].lastTime
BY Members DEF Since, AtLeast, TimingInv

LEMMA SinceIntNext ==
    ASSUME GeneratorTypes', TimingInv', NEW c \in DOMAIN listeners'
    PROVE  /\ Since(c)' \in Int /\ Since(c)' >= disturbedAt'
           /\ Since(c)' >= listeners'[c].lastTime
<1>1. listeners'[c].lastTime \in Int
    BY DEF GeneratorTypes, ListenersTyped, Listener
<1>. QED BY <1>1 DEF Since, AtLeast, TimingInv

(* After a change all waits count from now.                                *)
LEMMA ForgetDisturbed ==
    ASSUME Proportions, GeneratorInv, TimingInv, ForgetInv, Disturbs, GeneratorInv', TimingInv'
    PROVE  ForgetInv'
<1>. DEFINE b == LongestPeriod
<1>1. b \in Nat /\ MaxLate \in Nat
    BY Longest, Bounds
<1>2. /\ now \in Nat /\ occurTimestamp \in Nat /\ nextTimeStamp \in Int /\ timeoutAt \in Int
    BY Members DEF GeneratorInv
<1>3. disturbedAt' = now /\ now' = now /\ GeneratorTypes'
    BY DEF Disturbs, GeneratorInv
<1>4. /\ pc = "unlocked" =>
            nextTimeStamp <= occurTimestamp + 2 * b /\ occurTimestamp <= now
      /\ pc = "timedWait" => timeoutAt <= now + 2 * b
    BY DEF ForgetInv, ShortWaits, GeneratorInv, DelayInv
<1>5. /\ pc' \in {"loop", "compute", "sleeping", "deliver", "ended"}
            \/ UNCHANGED <<pc, occurTimestamp, nextTimeStamp, timeoutAt>>
    BY DEF Disturbs
<1>6. ShortWaits'
    BY <1>3, <1>4, <1>5 DEF ShortWaits, b
<1>7. ASSUME NEW c \in DOMAIN listeners', period' > 0
      PROVE  InTime(c)'
    <2>1. Since(c)' \in Int /\ Since(c)' >= now
        BY <1>3, SinceIntNext
    <2>2. /\ NextVSync(listeners[c], now, wakeupDelay)' \in Int
          /\ NextVSync(listeners[c], now, wakeupDelay)' <= now' + 2 * b
        BY <1>7, SoonNext DEF SoonAhead, b
    <2> DEFINE latest == Since(c)' + 2 * b
    <2>3. latest \in Int /\ now + 2 * b <= latest /\ now <= latest
        BY <1>1, <1>2, <2>1
    <2>4. NextVSync(listeners[c], now, wakeupDelay)' <= latest
        BY <1>1, <1>2, <1>3, <2>1, <2>2
    <2>. HIDE DEF b
    <2>5. pc' = "unlocked" => occurTimestamp' <= latest /\ nextTimeStamp' <= latest
        BY <1>1, <1>2, <1>4, <1>5, <2>1
    <2>6. pc' = "timedWait" => timeoutAt' <= latest + MaxLate
        BY <1>1, <1>2, <1>4, <1>5, <2>1
    <2>7. now' <= latest + 2 * MaxLate
        BY <1>1, <1>2, <1>3, <2>3
    <2>. QED BY <1>3, <2>3, <2>4, <2>5, <2>6, <2>7 DEF InTime, b
<1>. QED BY <1>6, <1>7 DEF ForgetInv

(* Whether it was due or not, a listener is told in time what comes next.  *)
LEMMA ForgetDelivers ==
    ASSUME Proportions, GeneratorInv, TimingInv, Deliver, GeneratorInv', TimingInv'
    PROVE  ForgetInv'
<1>. DEFINE b == LongestPeriod
            d == wakeupDelay'
<1>1. b \in Nat /\ MaxLate \in Nat /\ ErrorThreshold \in Nat /\ MaxWakeupDelay <= b
    BY Longest, Bounds DEF Proportions
<1>2. /\ GeneratorTypes /\ now \in Nat /\ period \in Nat /\ period > 0 /\ period <= b
    BY Soon, Members DEF GeneratorInv, DelayInv, Deliver
<1>3. d \in Nat /\ d <= b
    <2>1. d \in Nat /\ d <= MaxWakeupDelay /\ MaxWakeupDelay \in Nat
        BY DelayNotNegative, DelayBounded, Bounds DEF Deliver
    <2>. HIDE DEF b, d
    <2>. QED BY <1>1, <2>1
<1>4. /\ UNCHANGED <<period, phase, refrenceTime, vsyncThreadRunning, now, disturbedAt>>
      /\ pc' = "loop" /\ DOMAIN listeners' = DOMAIN listeners
    BY DEF Deliver, modeVars, callVars
<1>5. ASSUME NEW c \in DOMAIN listeners'
      PROVE  InTime(c)'
    <2> DEFINE l == listeners[c]
               m == listeners'[c]
               told == NextVSync(l, now - period, d)
               a == Since(c)'
               next == NextVSync(m, now, d)
    <2>1. l \in Listener /\ Start(l) <= disturbedAt + 2 * b
        BY <1>2, <1>4, Members, Soon DEF SoonFrom
    <2>2. a \in Int /\ a >= disturbedAt' /\ a >= m.lastTime
        BY SinceIntNext DEF GeneratorInv
    <2>3. m = IF Due(l, d) THEN [l EXCEPT !.lastTime = told] ELSE l
        BY <1>4 DEF Deliver
    <2>4. told \in Int /\ OnGrid(l, told + d) /\ now < told + d + period
        <3>1. now \in Int /\ d \in Nat
            BY <1>2, <1>3
        <3>. HIDE DEF l, d
        <3>. QED BY <1>2, <2>1, <3>1, ToldOnGrid
    <2>5. NextVSync(listeners[c], now, wakeupDelay)' = next
        BY <1>4 DEF NextVSync, GridPoint
    <2>6. disturbedAt \in Nat
        BY DEF TimingInv
    <2>7. CASE Due(l, d)
        <3>1. m = [l EXCEPT !.lastTime = told]
            BY <2>3, <2>7
        <3>2. m \in Listener /\ m.lastTime = told /\ m.phase = l.phase
            BY <2>1, <2>4, <3>1 DEF Listener
        <3>3. OnGrid(m, told + d)
            BY <2>4, <3>2 DEF OnGrid, Start
        <3>4. next = told + d + period - d
            <4>. HIDE DEF m, told, d
            <4>. QED BY <1>2, <1>3, <2>4, <3>2, <3>3, NextIsNext
        <3>. HIDE DEF m, told, d, a, b, next
        <3>5. next <= a + 2 * b /\ now <= a + 2 * b
            BY <1>1, <1>2, <1>3, <2>2, <2>4, <3>2, <3>4
        <3>. QED BY <1>4, <2>5, <3>5 DEF InTime, a, b
    <2>8. CASE ~Due(l, d)
        <3>1. m = l
            BY <2>3, <2>8
        <3>2. now < told
            <4>1. ~(told < now) /\ ~(told - now < ErrorThreshold)
                BY <2>8 DEF Due
            <4>2. 0 < ErrorThreshold
                BY DEF Proportions, Tuned
            <4>. HIDE DEF told
            <4>. QED BY <1>1, <1>2, <2>4, <4>1, <4>2
        <3>3. Start(l) <= a + 2 * b /\ l.lastTime <= a /\ now \in Int
            <4>1. Start(l) \in Int
                BY <1>2, <2>1, GridInts
            <4>. HIDE DEF a, b, l
            <4>2. l.lastTime <= a
                BY <2>2, <3>1
            <4>. QED BY <1>1, <1>2, <1>4, <2>1, <2>2, <2>6, <4>1, <4>2
        <3>4. now <= a + 2 * b /\ next <= a + 2 * b
            <4>. HIDE DEF a, b, l, d
            <4>1. now < NextVSync(l, now - period, d)
                BY <3>2 DEF told
            <4>2. now <= a + 2 * b /\ NextVSync(l, now, d) <= a + 2 * b
                BY <1>1, <1>2, <1>3, <2>1, <2>2, <3>3, <4>1, NotDueNear
            <4>. QED BY <3>1, <4>2
        <3>. QED BY <1>4, <2>5, <3>4 DEF InTime, a, b
    <2>. QED BY <2>7, <2>8
<1>. QED BY <1>4, <1>5 DEF ForgetInv, ShortWaits

LEMMA ForgetStep ==
    ASSUME Proportions, GeneratorInv, TimingInv, ForgetInv, [Next]_vars,
           GeneratorInv', TimingInv'
    PROVE  ForgetInv'
<1>. DEFINE b == LongestPeriod
<1>1. b \in Nat /\ MaxLate \in Nat
    BY Longest, Bounds
<1>2. /\ GeneratorTypes /\ now \in Nat /\ period \in Nat
      /\ occurTimestamp \in Nat /\ nextTimeStamp \in Int /\ timeoutAt \in Int
    BY Members DEF GeneratorInv
<1>3. ShortWaits /\ (period > 0 /\ vsyncThreadRunning => \A c \in DOMAIN listeners : InTime(c))
    BY DEF ForgetInv
<1>4. \A c \in DOMAIN listeners : Since(c) \in Int
    BY <1>2, SinceInt
<1>5. ASSUME UNCHANGED <<period, phase, refrenceTime, wakeupDelay, listeners,
                         vsyncThreadRunning, disturbedAt>>,
             ShortWaits',
             \A c \in DOMAIN listeners : period > 0 /\ vsyncThreadRunning /\ InTime(c) => InTime(c)'
      PROVE  ForgetInv'
    BY <1>3, <1>5 DEF ForgetInv
<1>. USE DEF modeVars, threadVars, callVars
<1>6. CASE LoopTest
    <2>1. /\ UNCHANGED <<period, phase, refrenceTime, wakeupDelay, listeners,
                         vsyncThreadRunning, disturbedAt, now>>
          /\ pc = "loop" /\ pc' \in {"compute", "ended"}
        BY <1>6 DEF LoopTest
    <2>2. ASSUME NEW c \in DOMAIN listeners, InTime(c)
          PROVE  InTime(c)'
        <3>1. Since(c)' = Since(c)
            BY <2>1 DEF Since, AtLeast
        <3>2. NextVSync(listeners[c], now, wakeupDelay)' = NextVSync(listeners[c], now, wakeupDelay)
            BY <2>1 DEF NextVSync, GridPoint
        <3>. QED BY <2>1, <2>2, <3>1, <3>2 DEF InTime
    <2>3. ShortWaits'
        BY <2>1 DEF ShortWaits
    <2>. QED BY <1>5, <2>1, <2>2, <2>3
<1>7. CASE NothingToDo
    <2>1. /\ UNCHANGED <<period, phase, refrenceTime, wakeupDelay, listeners,
                         vsyncThreadRunning, disturbedAt>>
          /\ pc' \in {"sleeping", "loop"} /\ (period = 0 \/ DOMAIN listeners = {})
        BY <1>7 DEF NothingToDo, Sleeps, NoMode
    <2>2. ShortWaits'
        <3>1. pc' \in {"sleeping", "loop"}
            BY <1>7 DEF NothingToDo, Sleeps
        <3>. QED BY <3>1 DEF ShortWaits
    <2>3. \A c \in DOMAIN listeners : ~(period > 0)
        BY <1>2, <1>7 DEF NothingToDo, NoMode
    <2>4. UNCHANGED <<period, phase, refrenceTime, wakeupDelay, listeners,
                      vsyncThreadRunning, disturbedAt>>
        BY <1>7 DEF NothingToDo
    <2>. QED BY <1>5, <2>2, <2>3, <2>4
<1>8. CASE ComputeNext
    <2>1. /\ UNCHANGED <<period, phase, refrenceTime, wakeupDelay, listeners,
                         vsyncThreadRunning, disturbedAt>>
          /\ pc = "compute" /\ pc' = "unlocked" /\ occurTimestamp' = now /\ period > 0
        BY <1>2, <1>8 DEF ComputeNext, NoMode
    <2>2. PICK x \in DOMAIN listeners :
              nextTimeStamp' = NextVSync(listeners[x], now, wakeupDelay)
        BY <1>8 DEF ComputeNext
    <2>3. \A c \in DOMAIN listeners :
              nextTimeStamp' <= NextVSync(listeners[c], now, wakeupDelay)
        BY <1>8 DEF ComputeNext
    <2>4. \A c \in DOMAIN listeners :
              /\ NextVSync(listeners[c], now, wakeupDelay) \in Int
              /\ NextVSync(listeners[c], now, wakeupDelay) <= now + 2 * b
        BY <2>1, Soon DEF SoonAhead, b
    <2>5. nextTimeStamp' \in Int /\ nextTimeStamp' <= now + 2 * b
        BY <2>2, <2>4
    <2>6. ShortWaits'
        BY <2>1, <2>5 DEF ShortWaits, b
    <2>7. ASSUME NEW c \in DOMAIN listeners, InTime(c)
          PROVE  InTime(c)'
        <3>1. Since(c)' = Since(c) /\ Since(c) \in Int
            BY <1>4, <2>1 DEF Since, AtLeast
        <3>2. /\ now <= Since(c) + 2 * b
              /\ NextVSync(listeners[c], now, wakeupDelay) <= Since(c) + 2 * b
            BY <2>1, <2>7 DEF InTime, b
        <3>3. nextTimeStamp' <= Since(c) + 2 * b
            <4>. HIDE DEF b
            <4>. QED BY <1>1, <2>3, <2>4, <2>5, <3>1, <3>2
        <3>. QED BY <2>1, <3>1, <3>2, <3>3 DEF InTime, b
    <2>. QED BY <1>5, <2>1, <2>6, <2>7
<1>9. CASE WaitFor
    <2>1. /\ UNCHANGED <<period, phase, refrenceTime, wakeupDelay, listeners,
                         vsyncThreadRunning, disturbedAt, now>>
          /\ pc = "unlocked"
          /\ \/ pc' = "timedWait" /\ timeoutAt' = now + nextTimeStamp - occurTimestamp
             \/ pc' = "deliver"
        BY <1>9 DEF WaitFor
    <2>2. /\ occurTimestamp <= now /\ now <= occurTimestamp + MaxLate
          /\ nextTimeStamp <= occurTimestamp + 2 * b
        BY <1>3, <2>1 DEF GeneratorInv, DelayInv, TimingInv, ShortWaits
    <2>. HIDE DEF b
    <2>3. pc' = "timedWait" => timeoutAt' <= now + 2 * b /\ timeoutAt' <= nextTimeStamp + MaxLate
        BY <1>1, <1>2, <2>1, <2>2
    <2>4. ShortWaits'
        BY <2>1, <2>3 DEF ShortWaits, b
    <2>5. ASSUME NEW c \in DOMAIN listeners, InTime(c)
          PROVE  InTime(c)'
        <3>1. Since(c)' = Since(c) /\ Since(c) \in Int
            BY <1>4, <2>1 DEF Since, AtLeast
        <3>2. occurTimestamp <= Since(c) + 2 * b /\ nextTimeStamp <= Since(c) + 2 * b
            BY <2>1, <2>5 DEF InTime, b
        <3>3. pc' = "timedWait" => timeoutAt' <= Since(c) + 2 * b + MaxLate
            BY <1>1, <1>2, <2>1, <2>3, <3>1, <3>2
        <3>4. now <= Since(c) + 2 * b + 2 * MaxLate
            BY <1>1, <1>2, <2>2, <3>1, <3>2
        <3>. QED BY <2>1, <3>1, <3>3, <3>4 DEF InTime, b
    <2>. QED BY <1>5, <2>1, <2>4, <2>5
<1>10. CASE WaitTimesOut
    <2>1. /\ UNCHANGED <<period, phase, refrenceTime, wakeupDelay, listeners,
                         vsyncThreadRunning, disturbedAt, now>>
          /\ pc = "timedWait" /\ pc' = "deliver"
        BY <1>10 DEF WaitTimesOut
    <2>2. now <= timeoutAt + MaxLate
        BY <2>1 DEF TimingInv
    <2>3. ShortWaits'
        BY <2>1 DEF ShortWaits
    <2>4. ASSUME NEW c \in DOMAIN listeners, InTime(c)
          PROVE  InTime(c)'
        <3>1. Since(c)' = Since(c) /\ Since(c) \in Int
            BY <1>4, <2>1 DEF Since, AtLeast
        <3>2. timeoutAt <= Since(c) + 2 * b + MaxLate
            BY <2>1, <2>4 DEF InTime, b
        <3>3. now <= Since(c) + 2 * b + 2 * MaxLate
            <4>. HIDE DEF b
            <4>. QED BY <1>1, <1>2, <2>2, <3>1, <3>2
        <3>. QED BY <2>1, <3>1, <3>3 DEF InTime, b
    <2>. QED BY <1>5, <2>1, <2>3, <2>4
<1>11. CASE Tick
    <2>1. /\ UNCHANGED <<period, phase, refrenceTime, wakeupDelay, listeners, pc,
                         vsyncThreadRunning, disturbedAt, occurTimestamp, nextTimeStamp, timeoutAt>>
          /\ now' = now + 1 /\ pc \in {"sleeping", "ended", "timedWait", "unlocked"}
        BY <1>11 DEF Tick
    <2>2. ShortWaits'
        <3>. HIDE DEF b
        <3>1. pc = "timedWait" => timeoutAt <= now + 1 + 2 * b
            BY <1>1, <1>2, <1>3 DEF ShortWaits, b
        <3>. QED BY <1>3, <2>1, <3>1 DEF ShortWaits, b
    <2>3. ASSUME NEW c \in DOMAIN listeners, InTime(c)
          PROVE  InTime(c)'
        <3>1. Since(c)' = Since(c)
            BY <2>1 DEF Since, AtLeast
        <3>. QED BY <2>1, <2>3, <3>1 DEF InTime
    <2>. QED BY <1>5, <2>1, <2>2, <2>3
<1>12. CASE UNCHANGED vars
    <2>1. UNCHANGED <<period, phase, refrenceTime, wakeupDelay, listeners, pc, now,
                      vsyncThreadRunning, disturbedAt, occurTimestamp, nextTimeStamp, timeoutAt>>
        BY <1>12 DEF vars
    <2>2. ShortWaits'
        BY <1>3, <2>1 DEF ShortWaits
    <2>3. ASSUME NEW c \in DOMAIN listeners, InTime(c)
          PROVE  InTime(c)'
        BY <2>1, <2>3 DEF InTime, Since, AtLeast, NextVSync, GridPoint
    <2>. QED BY <1>5, <2>1, <2>2, <2>3
<1>13. CASE Deliver
    BY <1>13, ForgetDelivers
<1>14. ASSUME \/ SamplerCalls \/ Destructor \/ SpuriousWakeup
              \/ \E c \in Callbacks, offset \in Offsets :
                    AddListener(c, offset) \/ ChangePhaseOffset(c, offset)
              \/ \E c \in Callbacks : RemoveListener(c)
       PROVE  ForgetInv'
    BY <1>14, DisturbsSteps, ForgetDisturbed
<1>. QED BY <1>6, <1>7, <1>8, <1>9, <1>10, <1>11, <1>12, <1>13, <1>14 DEF Next

(* ThreadLoop and GetListenerTimeouted, with every change made while the   *)
(* thread sleeps: a listener waits two periods and two latenesses at most, *)
(* if phases and thresholds are in proportion to the periods.              *)
THEOREM NobodyLost ==
    ASSUME Proportions
    PROVE  Spec => []NobodyForgotten
<1>. DEFINE Inv == GeneratorInv /\ TimingInv /\ ForgetInv
<1>1. Init => Inv
    BY InitInv, TimingInit, ForgetInit
<1>2. Inv /\ [Next]_vars => Inv'
    <2>. SUFFICES ASSUME Inv, [Next]_vars PROVE Inv'
        OBVIOUS
    <2>1. GeneratorInv'
        BY StepInv
    <2>2. TimingInv'
        BY TimingStep DEF Proportions
    <2>. QED BY <2>1, <2>2, ForgetStep
<1>3. Inv => NobodyForgotten
    <2>. SUFFICES ASSUME Inv, NEW c \in DOMAIN listeners, period > 0, vsyncThreadRunning
                  PROVE  now - Since(c) <= 2 * LongestPeriod + 2 * MaxLate
        BY DEF NobodyForgotten, Since
    <2> DEFINE b == LongestPeriod
    <2>1. b \in Nat /\ MaxLate \in Nat
        BY Longest, Bounds
    <2>2. Since(c) \in Int /\ now \in Nat /\ occurTimestamp \in Nat /\ timeoutAt \in Int
        BY SinceInt, Members DEF GeneratorInv
    <2>3. InTime(c)
        BY DEF ForgetInv
    <2>4. now <= Since(c) + 2 * b + 2 * MaxLate
        <3>. HIDE DEF b
        <3>1. CASE pc \in {"loop", "compute"}
            BY <2>1, <2>2, <2>3, <3>1 DEF InTime, b
        <3>2. CASE pc = "unlocked"
            <4>1. occurTimestamp <= Since(c) + 2 * b /\ now <= occurTimestamp + MaxLate
                BY <2>3, <3>2 DEF InTime, TimingInv, b
            <4>. QED BY <2>1, <2>2, <4>1
        <3>3. CASE pc = "timedWait"
            <4>1. timeoutAt <= Since(c) + 2 * b + MaxLate /\ now <= timeoutAt + MaxLate
                BY <2>3, <3>3 DEF InTime, TimingInv, b
            <4>. QED BY <2>1, <2>2, <4>1
        <3>4. CASE pc = "deliver"
            BY <2>3, <3>4 DEF InTime, b
        <3>5. pc \notin {"sleeping", "ended"}
            BY DEF TimingInv
        <3>. QED BY <3>1, <3>2, <3>3, <3>4, <3>5 DEF GeneratorInv, GeneratorTypes
    <2>. HIDE DEF b
    <2>5. now - Since(c) <= 2 * b + 2 * MaxLate
        BY <2>1, <2>2, <2>4
    <2>. QED BY <2>5 DEF b
<1>. HIDE DEF Inv
<1>. QED BY <1>1, <1>2, <1>3, PTL DEF Spec

----------------------------------------------------------------------------
(* Every vsync is told                                                     *)

(* The thread is late by less than half a period at a time, and allows for *)
(* less than three fifths of one.                                          *)
Smooth ==
    /\ Tuned
    /\ \A m \in Modes :
          2 * MaxLate < m.period /\ MaxWakeupDelay < (3 * m.period) \div 5

(* The listener was told, less the delay e expected then, a point of its   *)
(* grid, and the thread will look at it before the next point but one.     *)
OnTime(c, e) ==
    LET next == listeners[c].lastTime + e + period
    IN  /\ e <= MaxWakeupDelay /\ OnGrid(listeners[c], listeners[c].lastTime + e)
        /\ pc \in {"loop", "compute"} =>
              now < next /\ NextVSync(listeners[c], now, wakeupDelay) <= next
        /\ pc = "unlocked" => occurTimestamp < next /\ nextTimeStamp <= next
        /\ pc = "timedWait" => timeoutAt <= next + MaxLate
        /\ pc = "deliver" => now <= next + 2 * MaxLate
SteadyInv ==
    \A c \in DOMAIN listeners : Steady(c) =>
        period > 0 /\ \E e \in Nat : OnTime(c, e)

LEMMA SmoothBounds ==
    ASSUME Smooth, GeneratorTypes, TimingInv, period > 0
    PROVE  2 * MaxLate < period /\ MaxWakeupDelay < (3 * period) \div 5
BY DEF Smooth, TimingInv

(* What a steady listener is told next, also when it is asked a period     *)
(* ago.                                                                    *)
LEMMA SteadyNext ==
    ASSUME Smooth, GeneratorTypes, TimingInv, period > 0,
           NEW l \in Listener, NEW t \in Int, NEW d \in Nat, d <= MaxWakeupDelay,
           NEW e \in Nat, e <= MaxWakeupDelay, OnGrid(l, l.lastTime + e),
           t < l.lastTime + e + period
    PROVE  NextVSync(l, t, d) = l.lastTime + e + period - d
<1>1. MaxWakeupDelay < (3 * period) \div 5 /\ MaxWakeupDelay \in Nat
    BY SmoothBounds, Bounds
<1>2. (3 * period) \div 5 \in Int
    BY ThreeFifths
<1> DEFINE h == (3 * period) \div 5
<1>3. d < h /\ e < h
    <2>1. h \in Int /\ MaxWakeupDelay < h
        BY <1>1, <1>2
    <2>. HIDE DEF h
    <2>. QED BY <1>1, <2>1
<1>. QED BY <1>3, NextIsNext

LEMMA SteadyInit == ASSUME Init PROVE SteadyInv
<1>1. DOMAIN listeners = {}
    BY DEF Init
<1>. QED BY <1>1 DEF SteadyInv

(* After a change nobody is steady.                                        *)
LEMMA SteadyDisturbed ==
    ASSUME Disturbs, GeneratorTypes', TimingInv'
    PROVE  SteadyInv'
<1>. SUFFICES ASSUME NEW c \in DOMAIN listeners', Steady(c)' PROVE FALSE
    BY DEF SteadyInv
<1>1. listeners'[c].lastTime \in Int /\ now' \in Nat /\ ErrorThreshold \in Nat
    BY Bounds DEF GeneratorTypes, ListenersTyped, Listener
<1>2. listeners'[c].lastTime < now' + ErrorThreshold /\ disturbedAt' = now'
    BY DEF TimingInv, Disturbs
<1>3. listeners'[c].lastTime > disturbedAt' + ErrorThreshold
    BY DEF Steady
<1>. QED BY <1>1, <1>2, <1>3

(* Deliver tells a steady listener that is due the next point of its grid, *)
(* and one that is not due is not overdue.                                 *)
LEMMA SteadyTold ==
    ASSUME Smooth, GeneratorInv, TimingInv, SteadyInv, Deliver,
           NEW c \in DOMAIN listeners, Steady(c)
    PROVE  \E e \in Nat :
              /\ e <= MaxWakeupDelay /\ OnGrid(listeners[c], listeners[c].lastTime + e)
              /\ NextVSync(listeners[c], now - period, wakeupDelay')
                   = listeners[c].lastTime + e + period - wakeupDelay'
<1>1. PICK e \in Nat : OnTime(c, e)
    BY DEF SteadyInv
<1>2. /\ GeneratorTypes /\ period > 0 /\ period \in Nat /\ now \in Nat /\ MaxLate \in Nat
      /\ listeners[c] \in Listener /\ listeners[c].lastTime \in Int
    BY Members, Bounds DEF GeneratorInv, DelayInv, Deliver
<1>3. wakeupDelay' \in Nat /\ wakeupDelay' <= MaxWakeupDelay
    BY DelayNotNegative, DelayBounded DEF Deliver
<1>4. /\ e <= MaxWakeupDelay /\ OnGrid(listeners[c], listeners[c].lastTime + e)
      /\ now <= listeners[c].lastTime + e + period + 2 * MaxLate
    BY <1>1 DEF OnTime, Deliver
<1>5. 2 * MaxLate < period
    BY <1>2, SmoothBounds
<1>6. now - period \in Int /\ now - period < listeners[c].lastTime + e + period
    BY <1>2, <1>4, <1>5
<1>7. NextVSync(listeners[c], now - period, wakeupDelay')
        = listeners[c].lastTime + e + period - wakeupDelay'
    BY <1>2, <1>3, <1>4, <1>6, SteadyNext
<1>. QED BY <1>4, <1>7

LEMMA SteadyDelivers ==
    ASSUME Smooth, GeneratorInv, TimingInv, SteadyInv, Deliver
    PROVE  SteadyInv'
<1>. DEFINE d == wakeupDelay'
<1>1. /\ GeneratorTypes /\ now \in Nat /\ period \in Nat /\ period > 0
      /\ ErrorThreshold \in Nat /\ MaxWakeupDelay \in Nat
    BY Members, Bounds DEF GeneratorInv, DelayInv, Deliver
<1>2. d \in Nat /\ d <= MaxWakeupDelay
    BY DelayNotNegative, DelayBounded DEF Deliver
<1>3. /\ UNCHANGED <<period, phase, refrenceTime, vsyncThreadRunning, now, disturbedAt>>
      /\ pc' = "loop" /\ DOMAIN listeners' = DOMAIN listeners
    BY DEF Deliver, modeVars, callVars
<1>4. ASSUME NEW c \in DOMAIN listeners', Steady(c)'
      PROVE  \E e \in Nat : OnTime(c, e)'
    <2> DEFINE l == listeners[c]
               m == listeners'[c]
               told == NextVSync(l, now - period, d)
    <2>1. l \in Listener /\ l.lastTime \in Int /\ now \in Int
        BY <1>1, <1>3, Members
    <2>2. m = IF Due(l, d) THEN [l EXCEPT !.lastTime = told] ELSE l
        BY <1>3 DEF Deliver
    <2>3. \A e \in Nat : e <= MaxWakeupDelay /\ OnGrid(m, m.lastTime + e)
                /\ now < m.lastTime + e + period
                /\ NextVSync(m, now, d) <= m.lastTime + e + period
              => OnTime(c, e)'
        BY <1>3 DEF OnTime, OnGrid, Start, NextVSync, GridPoint
    <2>4. CASE Due(l, d)
        <3>1. m = [l EXCEPT !.lastTime = told]
            BY <2>2, <2>4
        <3>2. told \in Int /\ OnGrid(l, told + d) /\ now < told + d + period
            <4>. HIDE DEF l, d
            <4>. QED BY <1>1, <1>2, <2>1, ToldOnGrid
        <3>3. m \in Listener /\ m.lastTime = told /\ m.phase = l.phase
            BY <2>1, <3>1, <3>2 DEF Listener
        <3>4. OnGrid(m, told + d)
            BY <3>2, <3>3 DEF OnGrid, Start
        <3>. HIDE DEF m, told, d
        <3>5. NextVSync(m, now, d) = told + d + period - d
            <4>1. OnGrid(m, m.lastTime + d) /\ now < m.lastTime + d + period
                BY <3>2, <3>3, <3>4
            <4>2. NextVSync(m, now, d) = m.lastTime + d + period - d
                BY <1>1, <1>2, <2>1, <3>3, <4>1, NextIsNext
            <4>. QED BY <3>3, <4>2
        <3>6. NextVSync(m, now, d) <= m.lastTime + d + period
            BY <1>1, <1>2, <3>2, <3>3, <3>5
        <3>. QED BY <1>2, <2>3, <3>2, <3>3, <3>4, <3>6
    <2>5. CASE ~Due(l, d)
        <3>1. m = l
            BY <2>2, <2>5
        <3>2. Steady(c)
            BY <1>3, <1>4, <3>1 DEF Steady
        <3>3. PICK e \in Nat : /\ e <= MaxWakeupDelay /\ OnGrid(l, l.lastTime + e)
                               /\ told = l.lastTime + e + period - d
            BY <1>3, <3>2, SteadyTold
        <3>4. ~(told < now) /\ ~(told - now < ErrorThreshold)
            BY <2>5 DEF Due
        <3>5. 0 < ErrorThreshold
            BY DEF Smooth, Tuned
        <3>. HIDE DEF l, m, told, d
        <3>6. now < l.lastTime + e + period
            BY <1>1, <1>2, <2>1, <3>3, <3>4, <3>5
        <3>7. NextVSync(l, now, d) = l.lastTime + e + period - d
            BY <1>1, <1>2, <2>1, <3>3, <3>6, SteadyNext
        <3>8. NextVSync(m, now, d) <= m.lastTime + e + period
            BY <1>1, <1>2, <2>1, <3>1, <3>7
        <3>. QED BY <2>3, <3>1, <3>3, <3>6, <3>8
    <2>. QED BY <2>4, <2>5
<1>. QED BY <1>1, <1>3, <1>4 DEF SteadyInv

LEMMA SteadyStep ==
    ASSUME Smooth, GeneratorInv, TimingInv, SteadyInv, [Next]_vars, GeneratorInv', TimingInv'
    PROVE  SteadyInv'
<1>1. /\ GeneratorTypes /\ now \in Nat /\ period \in Nat /\ MaxLate \in Nat
      /\ occurTimestamp \in Nat /\ nextTimeStamp \in Int /\ timeoutAt \in Int
      /\ \A c \in DOMAIN listeners : listeners[c].lastTime \in Int
    BY Members, Bounds DEF GeneratorInv
<1>2. ASSUME UNCHANGED <<period, listeners, disturbedAt>>,
             \A c \in DOMAIN listeners, e \in Nat :
                period > 0 /\ OnTime(c, e) => OnTime(c, e)'
      PROVE  SteadyInv'
    <2>1. ASSUME NEW c \in DOMAIN listeners', Steady(c)'
          PROVE  period' > 0 /\ \E e \in Nat : OnTime(c, e)'
        <3>1. c \in DOMAIN listeners /\ Steady(c)
            BY <1>2, <2>1 DEF Steady
        <3>2. period > 0 /\ \E e \in Nat : OnTime(c, e)
            BY <3>1 DEF SteadyInv
        <3>. QED BY <1>2, <3>1, <3>2
    <2>. QED BY <2>1 DEF SteadyInv
<1>. USE DEF modeVars, threadVars, callVars
<1>3. ASSUME LoopTest \/ NothingToDo \/ ComputeNext \/ WaitFor \/ WaitTimesOut \/ Tick
             \/ UNCHANGED vars
      PROVE  /\ UNCHANGED <<period, phase, refrenceTime, listeners, disturbedAt, wakeupDelay>>
             /\ \A c \in DOMAIN listeners, e \in Nat :
                   OnGrid(listeners[c], listeners[c].lastTime + e)'
                     = OnGrid(listeners[c], listeners[c].lastTime + e)
    <2>1. UNCHANGED <<period, phase, refrenceTime, listeners, disturbedAt, wakeupDelay>>
        BY <1>3 DEF LoopTest, NothingToDo, ComputeNext, WaitFor, WaitTimesOut, Tick, vars
    <2>. QED BY <2>1 DEF OnGrid, Start
<1>4. CASE LoopTest
    <2>1. UNCHANGED now /\ pc = "loop" /\ pc' \in {"compute", "ended"}
        BY <1>4 DEF LoopTest
    <2>2. \A c \in DOMAIN listeners : NextVSync(listeners[c], now, wakeupDelay)'
                                        = NextVSync(listeners[c], now, wakeupDelay)
        BY <1>3, <1>4, <2>1 DEF NextVSync, GridPoint
    <2>3. \A c \in DOMAIN listeners, e \in Nat : OnTime(c, e) => OnTime(c, e)'
        BY <1>3, <1>4, <2>1, <2>2 DEF OnTime
    <2>. QED BY <1>2, <1>3, <1>4, <2>3
<1>5. CASE NothingToDo
    <2>1. period = 0 \/ DOMAIN listeners = {}
        BY <1>5 DEF NothingToDo, NoMode
    <2>2. \A c \in DOMAIN listeners : ~(period > 0)
        BY <1>1, <2>1
    <2>. QED BY <1>2, <1>3, <1>5, <2>2
<1>6. CASE ComputeNext
    <2>1. pc = "compute" /\ pc' = "unlocked" /\ occurTimestamp' = now
        BY <1>6 DEF ComputeNext
    <2>2. \A c \in DOMAIN listeners : nextTimeStamp' <= NextVSync(listeners[c], now, wakeupDelay)
        BY <1>6 DEF ComputeNext
    <2>3. ASSUME NEW c \in DOMAIN listeners, NEW e \in Nat, period > 0, OnTime(c, e)
          PROVE  OnTime(c, e)'
        <3> DEFINE next == listeners[c].lastTime + e + period
                   first == NextVSync(listeners[c], now, wakeupDelay)
        <3>1. now < next /\ first <= next
            BY <2>1, <2>3 DEF OnTime
        <3>2. first \in Int /\ next \in Int /\ nextTimeStamp' \in Int
            <4>1. listeners[c] \in Listener /\ wakeupDelay \in Nat /\ now \in Int
                BY <1>1, Members
            <4>2. first \in Int
                BY <1>1, <2>3, <4>1, NextVSyncSpaced
            <4>3. nextTimeStamp' \in Int
                BY DEF GeneratorInv, GeneratorTypes
            <4>. QED BY <1>1, <4>2, <4>3
        <3>3. nextTimeStamp' <= next
            <4>1. nextTimeStamp' <= first
                BY <2>2
            <4>. HIDE DEF first, next
            <4>. QED BY <3>1, <3>2, <4>1
        <3>. HIDE DEF first
        <3>. QED BY <1>3, <1>6, <2>1, <2>3, <3>1, <3>3 DEF OnTime
    <2>. QED BY <1>2, <1>3, <1>6, <2>3
<1>7. CASE WaitFor
    <2>1. /\ UNCHANGED now /\ pc = "unlocked"
          /\ \/ pc' = "timedWait" /\ timeoutAt' = now + nextTimeStamp - occurTimestamp
             \/ pc' = "deliver"
        BY <1>7 DEF WaitFor
    <2>2. occurTimestamp <= now /\ now <= occurTimestamp + MaxLate
        BY <2>1 DEF GeneratorInv, DelayInv, TimingInv
    <2>3. ASSUME NEW c \in DOMAIN listeners, NEW e \in Nat, OnTime(c, e)
          PROVE  OnTime(c, e)'
        <3> DEFINE next == listeners[c].lastTime + e + period
        <3>1. occurTimestamp < next /\ nextTimeStamp <= next /\ next \in Int
            BY <1>1, <2>1, <2>3 DEF OnTime
        <3>. HIDE DEF next
        <3>2. now <= next + 2 * MaxLate
            BY <1>1, <2>2, <3>1
        <3>3. pc' = "timedWait" => timeoutAt' <= next + MaxLate
            BY <1>1, <2>1, <2>2, <3>1
        <3>. QED BY <1>3, <1>7, <2>1, <2>3, <3>2, <3>3 DEF OnTime, next
    <2>. QED BY <1>2, <1>3, <1>7, <2>3
<1>8. CASE WaitTimesOut
    <2>1. UNCHANGED now /\ pc = "timedWait" /\ pc' = "deliver"
        BY <1>8 DEF WaitTimesOut
    <2>2. now <= timeoutAt + MaxLate
        BY <2>1 DEF TimingInv
    <2>3. ASSUME NEW c \in DOMAIN listeners, NEW e \in Nat, OnTime(c, e)
          PROVE  OnTime(c, e)'
        <3> DEFINE next == listeners[c].lastTime + e + period
        <3>1. timeoutAt <= next + MaxLate /\ next \in Int
            BY <1>1, <2>1, <2>3 DEF OnTime
        <3>. HIDE DEF next
        <3>2. now <= next + 2 * MaxLate
            BY <1>1, <2>2, <3>1
        <3>. QED BY <1>3, <1>8, <2>1, <2>3, <3>2 DEF OnTime, next
    <2>. QED BY <1>2, <1>3, <1>8, <2>3
<1>9. CASE Tick
    <2>1. /\ UNCHANGED <<pc, occurTimestamp, nextTimeStamp, timeoutAt>>
          /\ pc \in {"sleeping", "ended", "timedWait", "unlocked"}
        BY <1>9 DEF Tick
    <2>2. \A c \in DOMAIN listeners, e \in Nat : OnTime(c, e) => OnTime(c, e)'
        BY <1>3, <1>9, <2>1 DEF OnTime
    <2>. QED BY <1>2, <1>3, <1>9, <2>2
<1>10. CASE UNCHANGED vars
    <2>1. \A c \in DOMAIN listeners, e \in Nat : OnTime(c, e) => OnTime(c, e)'
        BY <1>10 DEF vars, OnTime, OnGrid, Start, NextVSync, GridPoint
    <2>. QED BY <1>2, <1>3, <1>10, <2>1
<1>11. CASE Deliver
    BY <1>11, SteadyDelivers
<1>12. ASSUME \/ SamplerCalls \/ Destructor \/ SpuriousWakeup
              \/ \E c \in Callbacks, offset \in Offsets :
                    AddListener(c, offset) \/ ChangePhaseOffset(c, offset)
              \/ \E c \in Callbacks : RemoveListener(c)
       PROVE  SteadyInv'
    BY <1>12, DisturbsSteps, SteadyDisturbed DEF GeneratorInv
<1>. QED BY <1>4, <1>5, <1>6, <1>7, <1>8, <1>9, <1>10, <1>11, <1>12 DEF Next

(* The thread's loop, while mode, phase and listeners stay as they are:    *)
(* each vsync is told, and told once, if every lateness of the thread is   *)
(* less than half a period.                                                *)
THEOREM RegularCorrect ==
    ASSUME Smooth
    PROVE  Spec => Regular
<1>. DEFINE Inv == GeneratorInv /\ TimingInv /\ SteadyInv
<1>1. Init => Inv
    BY InitInv, TimingInit, SteadyInit
<1>2. Inv /\ [Next]_vars => Inv'
    <2>. SUFFICES ASSUME Inv, [Next]_vars PROVE Inv'
        OBVIOUS
    <2>1. GeneratorInv'
        BY StepInv
    <2>2. TimingInv'
        BY TimingStep DEF Smooth
    <2>. QED BY <2>1, <2>2, SteadyStep
<1>3. Inv /\ [Next]_vars =>
        [\A c \in Callbacks : GetsEvent(c) /\ Steady(c) =>
             /\ Gap(c) - period <= MaxWakeupDelay
             /\ period - Gap(c) <= MaxWakeupDelay]_vars
    <2>. SUFFICES ASSUME Inv, [Next]_vars, NEW c \in Callbacks, GetsEvent(c), Steady(c)
                  PROVE  /\ Gap(c) - period <= MaxWakeupDelay
                         /\ period - Gap(c) <= MaxWakeupDelay
        OBVIOUS
    <2>1. Deliver /\ c \in DOMAIN listeners
        BY DEF GetsEvent, Next, LoopTest, NothingToDo, ComputeNext, WaitFor, WaitTimesOut,
               SpuriousWakeup, SamplerCalls, UpdateMode, AddListener, ChangePhaseOffset,
               RemoveListener, Destructor, Tick, NotifyAll, threadVars, vars
    <2>2. /\ wakeupDelay' \in Nat
          /\ listeners'[c].lastTime = NextVSync(listeners[c], now - period, wakeupDelay')
        BY <2>1, DeliverListeners DEF GetsEvent
    <2>3. PICK e \in Nat :
            /\ e <= MaxWakeupDelay
            /\ NextVSync(listeners[c], now - period, wakeupDelay')
                 = listeners[c].lastTime + e + period - wakeupDelay'
        BY <2>1, SteadyTold
    <2>4. wakeupDelay' <= MaxWakeupDelay /\ MaxWakeupDelay \in Nat
        BY <2>1, DelayBounded, Bounds DEF Deliver
    <2>5. listeners[c].lastTime \in Int /\ period \in Nat
        BY <2>1, Members DEF GeneratorInv
    <2>6. Gap(c) = listeners'[c].lastTime - listeners[c].lastTime
        BY DEF Gap
    <2>7. listeners'[c].lastTime = listeners[c].lastTime + e + period - wakeupDelay'
        BY <2>2, <2>3
    <2>. QED BY <2>2, <2>3, <2>4, <2>5, <2>6, <2>7
<1>. HIDE DEF Inv
<1>. QED BY <1>1, <1>2, <1>3, PTL DEF Spec, Regular
=============================================================================
