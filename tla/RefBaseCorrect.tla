--------------------------- MODULE RefBaseCorrect ---------------------------
(***************************************************************************)
(* What RefBase's counts are for.                                          *)
(***************************************************************************)
EXTENDS RefBase

At(labels) == {p \in Ptrs : pc[p] \in labels}

TakeLabels  == {"incWeak", "incLoad", "incAdd", "incFix"}
TryLabels   == {"attLoad", "attWeak", "attSwap"}
DropLabels  == {"decLoad", "decSub", "decCall"}
CountLabels == {"weakLoad", "weakSub", "weakLast", "refLoad", "refSub"}
OwnLabels   == {"newRef", "ownAdd", "newWeak", "ownSub", "delLoad", "delSub"}
SptrLabels  == {"null", "held"} \cup TakeLabels \cup TryLabels \cup DropLabels \cup CountLabels
WptrLabels  == {"null", "held"} \cup OwnLabels \cup CountLabels

(* The types; a variable that is null or held reads no other.              *)
TypeOK ==
    /\ strong \in Int /\ weak \in Int /\ refs \in Int
    /\ own \in [Wptrs -> Int]
    /\ alive \in BOOLEAN /\ freed \in BOOLEAN /\ fresh \in BOOLEAN
    /\ pc \in [Ptrs -> SptrLabels \cup WptrLabels]
    /\ \A r \in Sptrs : pc[r] \in SptrLabels
    /\ \A w \in Wptrs : pc[w] \in WptrLabels
    /\ from \in [Ptrs -> Ptrs \cup {This, None}]
    /\ counter \in [Wptrs -> Wptrs \cup {None}]
    /\ cur \in [Sptrs -> Int]
    /\ \A p \in Ptrs : pc[p] \in {"null", "held"} => from[p] = None

(* As long as an sptr names the object, or one is being made or dropped    *)
(* up to its decrement, ~RefBase has not run: no promotion revives an      *)
(* object whose last sptr is on its way out.                               *)
ObjectAlive ==
    fresh \/ At({"held", "decLoad", "decSub"} \cup TakeLabels) \cap Sptrs # {} => alive

(* The RefCounter outlives every operation that will still touch it, and   *)
(* every wptr, however late it is dropped; and a WeakRefCounter every wptr *)
(* that shares it.                                                         *)
CounterOutlivesUsers ==
    /\ freed => At({"null"}) = Ptrs
    /\ \A w \in Wptrs : Held(w) => own[counter[w]] > 0

Quiet == At({"null", "held"}) = Ptrs
HeldSptrs == {r \in Sptrs : Held(r)}
WeakRefCounters == {counter[w] : w \in {v \in Wptrs : Held(v)}}

(* refbase.h:238-240 says of the counts: (num of sptr) or Initial-value;   *)
(* (num of sptr)+(num of WeakRefCounter); (num of WeakRefCounter) + 1.     *)
(* True whenever no operation is under way.  The share of the object in    *)
(* atomicRefCount_ is given up with the last count of atomicWeak_.         *)
CountsAgree ==
    Quiet =>
      /\ strong = IF fresh THEN Initial ELSE Cardinality(HeldSptrs)
      /\ weak = Cardinality(HeldSptrs) + Cardinality(WeakRefCounters)
      /\ refs = Cardinality(WeakRefCounters) + IF fresh \/ weak > 0 THEN 1 ELSE 0

(* Nothing leaks: when the last sptr is gone the object is gone, and when  *)
(* the last wptr is gone too, the RefCounter.                              *)
NothingLeaks ==
    /\ Quiet /\ ~fresh /\ HeldSptrs = {} => ~alive
    /\ At({"null"}) = Ptrs /\ ~fresh => freed

(* promote answers nullptr only when the last sptr was already dropped:    *)
(* lost races with other promotions or copies never make it fail.          *)
PromoteFailsOnlyWhenGone ==
    [][\A r \in Sptrs :
         pc[r] = "attSwap" /\ pc'[r] = "weakLoad" => HeldSptrs = {} /\ strong = 0]_vars
=============================================================================
