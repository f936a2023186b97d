----------------------- MODULE ProducerSurfaceCorrect -----------------------
(***************************************************************************)
(* What makes the client's cache coherent with its queue.                  *)
(***************************************************************************)
EXTENDS ProducerSurface, BufferQueueCorrect

(* A buffer named by its number only is one the client knows: the queue's  *)
(* record of what was sent again since the client forgot everything        *)
(* (producerCacheClean_, producerCacheList_) is never too optimistic.      *)
(* Otherwise RequestBuffer is API_FAILED, and the slot is lost unless the  *)
(* queue was cleared meanwhile or its consumer is gone.                    *)
ReplyResolves ==
    isValidStatus => \A p \in Producers :
        at[p] = "reply" /\ reply[p].sequence \in DOMAIN cache => Resolves(reply[p])

(* The client keeps no memory of a buffer the queue has let go of without  *)
(* telling it: what it knows is in the queue, or on a list that a reply    *)
(* brings or will bring, or the consumer is dying and the next request     *)
(* empties the cache.  The exception is what the consumer's own clearing   *)
(* took: the code tells the client of that by no reply, and such memory    *)
(* stays until the client clears or is refused.                            *)
BeingReported ==
    ToSet(deletingList) \cup UNION {reply[p].deletingBuffers : p \in Producers}
ConsumerGone == ~isValidStatus \/ \E m \in Managers : pc[m] = "setStatus"
Clearing == \E p \in Producers : at[p] \in ClearPlaces
NoGhosts ==
    \/ ConsumerGone \/ Clearing
    \/ clientCache \subseteq DOMAIN cache \cup BeingReported \cup untold

(* The client is told to forget only buffers that the queue does not use.  *)
ReportedNotInUse == BeingReported \cap DOMAIN cache = {}
=============================================================================
