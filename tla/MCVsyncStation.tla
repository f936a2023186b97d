--------------------------- MODULE MCVsyncStation ---------------------------
(* Model-checking instances of VsyncStation.                               *)
EXTENDS VsyncStationCorrect, TLC
=============================================================================
