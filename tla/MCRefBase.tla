----------------------------- MODULE MCRefBase -----------------------------
(* Model-checking instances of RefBase.                                    *)
EXTENDS RefBaseCorrect, TLC

Symmetry == Permutations(Sptrs) \cup Permutations(Wptrs)
=============================================================================
