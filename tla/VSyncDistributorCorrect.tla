---------------------- MODULE VSyncDistributorCorrect ----------------------
(***************************************************************************)
(* What makes the vsync distributor correct.                               *)
(***************************************************************************)
EXTENDS VSyncDistributor

Pcs == {"loop", "take", "waiting", "softWait", "softWoken", "post", "retry", "drop", "ended"}
PostPcs == {"post", "retry", "drop"}

ConnectionTypeOK ==
    /\ connections \subseteq Connections
    /\ rate \in [Connections -> {-1, 0} \cup Rates]
    /\ highPriorityRate \in [Connections -> {-1} \cup HighRates]
ThreadTypeOK ==
    /\ pc \in Pcs
    /\ conns \subseteq Connections /\ (conns # {} <=> pc \in PostPcs)
    /\ failed \subseteq conns
    /\ pc = "drop" => \A c \in failed : peer[c] = "closed"
    /\ eventPending \in BOOLEAN /\ vsyncCount \in 0..(RateCycle - 1)
    /\ vsyncEnabled \in BOOLEAN /\ callingBack \in BOOLEAN
    /\ destructor \in {"none", "cleared", "joining"}
ClientTypeOK ==
    /\ peer \in [Connections -> Peers]
    /\ socket \in [Connections -> 0..SocketSize]
    /\ postVSyncCount \in [Connections -> {0, 1}]

NewOK ==
    \A c \in Connections :
      peer[c] = "new" => rate[c] = -1 /\ c \notin connections /\ c \notin conns

(* The types; events are being posted exactly while somebody is left; and  *)
(* a connection that does not exist yet wants nothing.                     *)
TypeOK == ConnectionTypeOK /\ ThreadTypeOK /\ ClientTypeOK /\ NewOK

(* The thread sleeps without a time limit only when there is nothing to    *)
(* do: no event is pending, whoever wants one has vsync on, and the        *)
(* destructor has not yet notified.  Every change that gives it work       *)
(* reaches it, also between its test of the loop and its wait.             *)
SleepsOnlyIdle ==
    pc = "waiting" =>
      /\ ~eventPending
      /\ Wanting # {} => vsyncEnabled
      /\ destructor # "joining"

(* The distributor implements the service: one event for each request,     *)
(* also when requests, rates, full sockets and removals meet an event that *)
(* is being posted without mutex_.                                         *)
WishOf(r) == IF r < 0 THEN "none" ELSE IF r = 0 THEN "one" ELSE "every"
Service == INSTANCE VSyncService
    WITH Clients <- Connections,
         members <- connections,
         wish    <- [c \in Connections |-> WishOf(rate[c])],
         sending <- conns,
         answers <- postVSyncCount,
         closed  <- {c \in Connections : peer[c] = "closed"}
ServiceSpec == Service!Spec

(* The connection is served by every event.                                *)
EachEvent(c) == c \in connections /\ EffectiveRate(c) \in {0, 1} /\ rate[c] >= 0
Leaves(c) == c \notin connections \/ peer[c] # "reading" \/ ~Running

(* Whoever requests the next vsync, or every vsync, is sent one, whatever  *)
(* others do and however full its socket was: nobody waits for ever        *)
(* without being posted an event.                                          *)
Awaits(c) == EachEvent(c) \/ c \in conns
RequestAnswered ==
    \A c \in Connections :
      \/ []<>(~Awaits(c) \/ Leaves(c))
      \/ []<><<postVSyncCount'[c] # postVSyncCount[c]>>_vars

(* Vsync does not stay on for nobody: when no living client wants events   *)
(* any more the controller is taken off the generator.                     *)
VSyncGoesOff ==
    []<>(\/ \E c \in Wanting : peer[c] = "reading"
         \/ ~vsyncEnabled
         \/ ~Running)

(* ~VSyncDistributor returns: the thread sees that it is to end, wherever  *)
(* it was.                                                                 *)
StopEndsThread == destructor = "joining" ~> pc = "ended"
=============================================================================
