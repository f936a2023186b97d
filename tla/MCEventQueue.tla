---------------------------- MODULE MCEventQueue ----------------------------
(* Model-checking instances of EventQueue.                                 *)
EXTENDS EventQueueCorrect, TLC
=============================================================================
