-------------------------- MODULE MCRSConnections --------------------------
(* Model-checking instances of RSConnections.                              *)
EXTENDS RSConnectionsCorrect, TLC

Symmetry == Permutations(Pids) \cup Permutations(HubThreads) \cup Permutations(Mutexes)
=============================================================================
