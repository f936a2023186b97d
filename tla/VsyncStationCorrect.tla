------------------------ MODULE VsyncStationCorrect ------------------------
(* What those who ask the station for a vsync may rely on.                 *)
EXTENDS VsyncStation

(* A request the station waits for can end: its answer or its time-out is  *)
(* still to come.  Otherwise nobody would ever request a vsync again.      *)
RequestEnds ==
    hasRequestedVsync => timeoutTask \/ pc[Handler] = "timeout"

(* Where answers are neither lost nor late every callback is run (or       *)
(* removed), though those who share a vsync ask the service once, and      *)
(* though callbacks ask again while others run.  Where they may be, it     *)
(* takes somebody who asks again after the time-out.                       *)
CallbackRuns ==
    (~unreliable \/ WF_vars(AnyRequest)) =>
        \A c \in Callbacks : c \in vsyncCallbacks ~> c \notin vsyncCallbacks
=============================================================================
