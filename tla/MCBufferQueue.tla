--------------------------- MODULE MCBufferQueue ---------------------------
(* Model-checking instances of BufferQueue.                                *)
EXTENDS BufferQueueCorrect

Symmetry == Permutations(Producers) \cup Permutations(Configs)

(* Bound: what goes on once as many buffers were made as a queue may hold  *)
(* is explored; the making of one more is checked and not followed.        *)
FewBuffers == nextSequence <= MaxQueueSize + 1
=============================================================================
