----------------------- MODULE VSyncGeneratorCorrect -----------------------
(* What the listeners of the generator, and who destroys it, may rely on.  *)
EXTENDS VSyncGenerator

Gap(c) == listeners'[c].lastTime - listeners[c].lastTime
GetsEvent(c) ==
    /\ pc = "deliver" /\ pc' = "loop" /\ c \in DOMAIN listeners
    /\ listeners'[c].lastTime # listeners[c].lastTime

(* The times a listener is told rise, and by most of a period, also when   *)
(* mode and phase change: nobody is given the same vsync twice.            *)
WellSpaced ==
    [][\A c \in Callbacks : GetsEvent(c) => Gap(c) >= (3 * period) \div 5 - wakeupDelay']_vars

(* The listener had its last event in the present mode and phase.          *)
Steady(c) == listeners[c].lastTime > disturbedAt + ErrorThreshold

(* While nothing changes and the thread is late by less than a period,     *)
(* each vsync is told, and told once: two events are a period apart, but   *)
(* for the change of the expected wake-up delay.                           *)
Regular ==
    [][\A c \in Callbacks : GetsEvent(c) /\ Steady(c) =>
         /\ Gap(c) - period <= MaxWakeupDelay
         /\ period - Gap(c) <= MaxWakeupDelay]_vars

LongestPeriod == CHOOSE p \in {m.period : m \in Modes} : \A m \in Modes : m.period <= p

(* Nobody is forgotten, whatever the thread was waiting for when a         *)
(* listener, a mode or a phase came: the wait of one period, the lateness, *)
(* and then a vsync in the new mode.                                       *)
NobodyForgotten ==
    \A c \in DOMAIN listeners :
        period > 0 /\ vsyncThreadRunning =>
            now - AtLeast(disturbedAt, listeners[c].lastTime) <= 2 * LongestPeriod + 2 * MaxLate
=============================================================================
