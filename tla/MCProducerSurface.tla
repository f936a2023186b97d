------------------------- MODULE MCProducerSurface -------------------------
(* Model-checking instances of ProducerSurface.                            *)
EXTENDS ProducerSurfaceCorrect

ClientSymmetry == Permutations(Producers) \cup Permutations(Configs)
=============================================================================
