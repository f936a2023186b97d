------------------------- MODULE MCVSyncDistributor -------------------------
(* Model-checking instances of VSyncDistributor.                           *)
EXTENDS VSyncDistributorCorrect, TLC
=============================================================================
