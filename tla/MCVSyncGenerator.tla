-------------------------- MODULE MCVSyncGenerator --------------------------
(* Model-checking instances of VSyncGenerator.                             *)
EXTENDS VSyncGeneratorCorrect, TLC

TwoModes == {[period |-> 5, phase |-> 0], [period |-> 4, phase |-> -1]}
Symmetry == Permutations(Callbacks)
=============================================================================
