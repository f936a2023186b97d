---------------------------- MODULE VSyncService ----------------------------
(***************************************************************************)
(* What vsync promises its clients, without threads, rates or sockets: who *)
(* asks gets one event, who subscribes gets events until it leaves, and    *)
(* nobody gets an event it did not ask for.                                *)
(***************************************************************************)
EXTENDS Integers

CONSTANTS Clients

VARIABLES
    members,    \* clients that are connected
    wish,       \* of each client: "none", "one" event or "every" due event
    sending,    \* clients the current event is on its way to
    answers,    \* events each client was sent, modulo 2
    closed      \* clients that receive no more

Init ==
    /\ members = {} /\ sending = {} /\ closed = {}
    /\ wish = [c \in Clients |-> "none"]
    /\ answers = [c \in Clients |-> 0]

Join(c) == members' = members \cup {c} /\ UNCHANGED <<wish, sending, answers, closed>>
Leave(c) == members' = members \ {c} /\ UNCHANGED <<wish, sending, answers, closed>>
Close(c) == closed' = closed \cup {c} /\ UNCHANGED <<members, wish, sending, answers>>

(* A request may be made while the answer to the last one is on its way.   *)
Ask(c) ==
    /\ c \in members /\ wish[c] = "none"
    /\ wish' = [wish EXCEPT ![c] = "one"]
    /\ UNCHANGED <<members, sending, answers, closed>>
Subscribe(c) ==
    /\ c \in members
    /\ wish' = [wish EXCEPT ![c] = "every"]
    /\ UNCHANGED <<members, sending, answers, closed>>

(* An event is for members that wished for one; single wishes are granted. *)
Serve(S) ==
    /\ sending = {} /\ S \subseteq {c \in members : wish[c] # "none"}
    /\ sending' = S
    /\ wish' = [c \in Clients |-> IF c \in S /\ wish[c] = "one" THEN "none" ELSE wish[c]]
    /\ UNCHANGED <<members, answers, closed>>

Sent(c) == c \in sending /\ sending' = sending \ {c}
Answer(c) ==
    /\ Sent(c) /\ c \notin closed
    /\ answers' = [answers EXCEPT ![c] = 1 - @]
    /\ UNCHANGED <<members, wish, closed>>

(* No room for the event: the wish stands again.                           *)
Postpone(c) ==
    /\ Sent(c)
    /\ wish' = [wish EXCEPT ![c] = IF @ = "none" THEN "one" ELSE @]
    /\ UNCHANGED <<members, answers, closed>>

(* Only who closed is given up.                                            *)
GiveUp(c) ==
    /\ Sent(c) /\ c \in closed
    /\ members' = members \ {c}
    /\ UNCHANGED <<wish, answers, closed>>

Next ==
    \/ \E c \in Clients :
         \/ Join(c) \/ Leave(c) \/ Close(c) \/ Ask(c) \/ Subscribe(c)
         \/ Answer(c) \/ Postpone(c) \/ GiveUp(c)
    \/ \E S \in SUBSET Clients : Serve(S)

Spec == Init /\ [][Next]_<<members, wish, sending, answers, closed>>
=============================================================================
