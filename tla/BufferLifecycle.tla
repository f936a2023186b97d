-------------------------- MODULE BufferLifecycle --------------------------
(***************************************************************************)
(* What a buffer queue promises its two users, without threads, locks or   *)
(* lists of free buffers: every buffer is in one place at a time, the      *)
(* places follow the state diagram of the queue's documentation, flushed   *)
(* buffers are acquired in the order they were flushed, and there are      *)
(* never more than Capacity buffers.                                       *)
(***************************************************************************)
EXTENDS Integers, Sequences, FiniteSets, SequencesExt

CONSTANTS Buffers, Capacity

VARIABLES place, frames

Places == {"outside", "free", "producer", "queued", "consumer", "attached"}

At(where) == {b \in Buffers : place[b] = where}
Inside == Buffers \ At("outside")
Move(S, where) == place' = [b \in Buffers |-> IF b \in S THEN where ELSE place[b]]

Init == place = [b \in Buffers |-> "outside"] /\ frames = <<>>

(* The producer is given a free buffer, a new one if there is room, or a   *)
(* new one in place of a free one.                                         *)
GiveFree(b) ==
    place[b] = "free" /\ Move({b}, "producer") /\ UNCHANGED frames
GiveNew(b) ==
    /\ place[b] = "outside" /\ Cardinality(Inside) < Capacity
    /\ Move({b}, "producer") /\ UNCHANGED frames
Replace(b, old) ==
    /\ place[b] = "outside" /\ place[old] = "free"
    /\ place' = [place EXCEPT ![b] = "producer", ![old] = "outside"]
    /\ UNCHANGED frames

Cancel(b) == place[b] = "producer" /\ Move({b}, "free") /\ UNCHANGED frames
Flush(b) ==
    /\ place[b] \in {"producer", "attached"}
    /\ Move({b}, "queued") /\ frames' = Append(frames, b)
Acquire ==
    /\ frames # <<>>
    /\ Move({Head(frames)}, "consumer") /\ frames' = Tail(frames)
Release(b) ==
    place[b] \in {"consumer", "attached"} /\ Move({b}, "free") /\ UNCHANGED frames

Attach(b) ==
    /\ place[b] = "outside" /\ Cardinality(Inside) < Capacity
    /\ Move({b}, "attached") /\ UNCHANGED frames

(* Buffers leave: a single one that is not on display's way, or free ones  *)
(* with the oldest frames, or all of them.                                 *)
Leave(b) ==
    /\ place[b] \in {"free", "producer", "consumer", "attached"}
    /\ Move({b}, "outside") /\ UNCHANGED frames
Drop(n) ==
    /\ \E gone \in SUBSET At("free") :
         Move(gone \cup ToSet(SubSeq(frames, 1, n)), "outside")
    /\ frames' = SubSeq(frames, n + 1, Len(frames))
Clear == Move(Buffers, "outside") /\ frames' = <<>>

(* Every step moves something: most of the queue's steps move nothing, and *)
(* are stutters here.                                                      *)
Next ==
    /\ <<place, frames>>' # <<place, frames>>
    /\ \/ \E b \in Buffers :
            \/ GiveFree(b) \/ GiveNew(b) \/ \E old \in Buffers : Replace(b, old)
            \/ Cancel(b) \/ Flush(b) \/ Release(b) \/ Attach(b) \/ Leave(b)
       \/ Acquire \/ Clear
       \/ \E n \in 0..Len(frames) : Drop(n)

Spec == Init /\ [][Next]_<<place, frames>>
=============================================================================
