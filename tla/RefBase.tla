------------------------------ MODULE RefBase ------------------------------
(***************************************************************************)
(* The reference counts of OHOS::RefBase (rosen/modules/platform/utils):   *)
(* one object, its RefCounter, and the sptr and wptr variables that name   *)
(* it.  Each variable is used by one thread at a time and is an actor; one *)
(* step is one atomic operation on a count.  The order of the atomics is   *)
(* taken as sequentially consistent.                                       *)
(*                                                                         *)
(* AttemptAcquire and ExtendObjectLifetime are called by nobody in the     *)
(* repository: atomicAttempt_ and atomicFlags_ stay 0.  An operator named  *)
(* Fault... is no part of the model; it is a mistake the properties find.  *)
(***************************************************************************)
EXTENDS Integers, FiniteSets

CONSTANTS
    Sptrs,      \* sptr variables
    Wptrs,      \* wptr variables; each names the WeakRefCounter it creates
    Initial,    \* INITIAL_PRIMARY_VALUE
    EarlyWeak,  \* a constructor hands out wptr(this) before the first sptr
    This, None  \* the raw pointer of the creator; no pointer

Ptrs == Sptrs \cup Wptrs

ASSUME PtrsFinite == IsFiniteSet(Sptrs) /\ IsFiniteSet(Wptrs)
ASSUME PtrsDistinct ==
    /\ Sptrs \cap Wptrs = {}
    /\ This \notin Ptrs /\ None \notin Ptrs /\ This # None
ASSUME InitialLarge == Initial \in Nat /\ Initial > Cardinality(Sptrs) + 1
ASSUME EarlyWeakType == EarlyWeak \in BOOLEAN

VARIABLES
    strong,     \* atomicStrong_
    weak,       \* atomicWeak_
    refs,       \* atomicRefCount_
    own,        \* atomicWeak_ of each WeakRefCounter
    alive,      \* callback_ is set: ~RefBase has not run
    freed,      \* the RefCounter is deleted
    fresh,      \* the creator still has only the raw pointer
    pc,         \* where each variable's operation stands
    from,       \* the pointer an operation reads: copied or promoted from
    counter,    \* refs_ of a wptr: its WeakRefCounter
    cur         \* curCount of AttemptIncStrongRef

counts == <<strong, weak, refs, own>>
vars   == <<strong, weak, refs, own, alive, freed, fresh, pc, from, counter, cur>>

Init ==
    /\ strong = Initial /\ weak = 0 /\ refs = 1
    /\ own = [w \in Wptrs |-> 0]
    /\ alive = TRUE /\ freed = FALSE /\ fresh = TRUE
    /\ pc = [p \in Ptrs |-> "null"]
    /\ from = [p \in Ptrs |-> None]
    /\ counter = [w \in Wptrs |-> None]
    /\ cur = [r \in Sptrs |-> 0]

Go(p, label) == pc' = [pc EXCEPT ![p] = label]
Free(p)      == pc[p] = "null"
Held(p)      == pc[p] = "held"
NotRead(p)   == \A q \in Ptrs : from[q] # p
----------------------------------------------------------------------------
(* sptr: construction and RefBase::IncStrongRef                            *)

(* A strong reference is taken from the raw pointer once, when the         *)
(* constructor has returned, then by copying.                              *)
StrongSources ==
    {r \in Sptrs : Held(r)} \cup (IF fresh /\ NotRead(This) THEN {This} ELSE {})

CopyStrong(r) ==
    /\ Free(r)
    /\ \E s \in StrongSources :
         /\ from' = [from EXCEPT ![r] = s]
         /\ fresh' = (fresh /\ s # This)
    /\ Go(r, "incWeak")
    /\ UNCHANGED <<counts, alive, freed, counter, cur>>

IncWeak(r) ==
    /\ pc[r] = "incWeak"
    /\ weak' = weak + 1
    /\ Go(r, "incLoad")
    /\ UNCHANGED <<strong, refs, own, alive, freed, fresh, from, counter, cur>>

IncLoad(r) ==
    /\ pc[r] = "incLoad"
    /\ IF strong >= 0
       THEN Go(r, "incAdd") /\ UNCHANGED from
       ELSE Go(r, "held") /\ from' = [from EXCEPT ![r] = None]
    /\ UNCHANGED <<counts, alive, freed, fresh, counter, cur>>

IncAdd(r) ==
    /\ pc[r] = "incAdd"
    /\ strong' = strong + 1
    /\ IF strong = Initial
       THEN Go(r, "incFix") /\ UNCHANGED from
       ELSE Go(r, "held") /\ from' = [from EXCEPT ![r] = None]
    /\ UNCHANGED <<weak, refs, own, alive, freed, fresh, counter, cur>>

(* The first sptr, or the first promotion, takes INITIAL_PRIMARY_VALUE     *)
(* away again, in an operation of its own.                                 *)
IncFix(r) ==
    /\ pc[r] = "incFix"
    /\ strong' = strong - Initial
    /\ Go(r, "held")
    /\ from' = [from EXCEPT ![r] = None]
    /\ UNCHANGED <<weak, refs, own, alive, freed, fresh, counter, cur>>
----------------------------------------------------------------------------
(* wptr::promote: RefCounter::AttemptIncStrongRef                          *)

Promote(r, w) ==
    /\ Free(r) /\ Held(w)
    /\ from' = [from EXCEPT ![r] = w]
    /\ Go(r, "attLoad")
    /\ UNCHANGED <<counts, alive, freed, fresh, counter, cur>>

AttLoad(r) ==
    /\ pc[r] = "attLoad"
    /\ cur' = [cur EXCEPT ![r] = strong]
    /\ Go(r, "attWeak")
    /\ UNCHANGED <<counts, alive, freed, fresh, from, counter>>

AttWeak(r) ==
    /\ pc[r] = "attWeak"
    /\ weak' = weak + 1
    /\ Go(r, "attSwap")
    /\ UNCHANGED <<strong, refs, own, alive, freed, fresh, from, counter, cur>>

(* Mutant: promote adds 1 to what it has read without comparing.           *)
AttSwapFaultNoCompare(r) ==
    /\ pc[r] = "attSwap" /\ cur[r] > 0
    /\ strong' = strong + 1
    /\ Go(r, "held") /\ from' = [from EXCEPT ![r] = None]
    /\ UNCHANGED <<weak, refs, own, alive, freed, fresh, counter, cur>>

(* Both loops swap while curCount > 0.  compare_exchange_weak may fail for *)
(* no reason; the count is loaded again and the loop goes on.              *)
AttSwap(r) ==
    /\ pc[r] = "attSwap" /\ cur[r] > 0
    /\ strong = cur[r]
    /\ strong' = strong + 1
    /\ IF cur[r] >= Initial
       THEN Go(r, "incFix") /\ UNCHANGED from
       ELSE Go(r, "held") /\ from' = [from EXCEPT ![r] = None]
    /\ UNCHANGED <<weak, refs, own, alive, freed, fresh, counter, cur>>

(* Mutant: promote gives up when another thread changed the count.         *)
AttReloadFaultGivesUp(r) ==
    /\ pc[r] = "attSwap" /\ cur[r] > 0 /\ strong # cur[r]
    /\ Go(r, "weakLoad")
    /\ UNCHANGED <<counts, alive, freed, fresh, from, counter, cur>>

AttReload(r) ==
    /\ pc[r] = "attSwap" /\ cur[r] > 0
    /\ cur' = [cur EXCEPT ![r] = strong]
    /\ UNCHANGED <<counts, alive, freed, fresh, pc, from, counter>>

AttFail(r) ==
    /\ pc[r] = "attSwap" /\ cur[r] <= 0
    /\ Go(r, "weakLoad")
    /\ UNCHANGED <<counts, alive, freed, fresh, from, counter, cur>>

----------------------------------------------------------------------------
(* ~sptr: RefBase::DecStrongRef                                            *)

DropStrong(r) ==
    /\ r \in Sptrs /\ Held(r) /\ NotRead(r)
    /\ Go(r, "decLoad")
    /\ UNCHANGED <<counts, alive, freed, fresh, from, counter, cur>>

DecLoad(r) ==
    /\ pc[r] = "decLoad"
    /\ Go(r, IF strong > 0 /\ strong # Initial THEN "decSub" ELSE "weakLoad")
    /\ UNCHANGED <<counts, alive, freed, fresh, from, counter, cur>>

DecSub(r) ==
    /\ pc[r] = "decSub"
    /\ strong' = strong - 1
    /\ Go(r, IF strong = 1 THEN "decCall" ELSE "weakLoad")
    /\ UNCHANGED <<weak, refs, own, alive, freed, fresh, from, counter, cur>>

(* The last sptr runs callback_, if set: ~RefBase.  strong is 0 here, so   *)
(* the destructor leaves its share of the RefCounter to DecWeakRefCount.   *)
DecCall(r) ==
    /\ pc[r] = "decCall"
    /\ alive' = FALSE
    /\ Go(r, "weakLoad")
    /\ UNCHANGED <<counts, freed, fresh, from, counter, cur>>
----------------------------------------------------------------------------
(* RefCounter::DecWeakRefCount and DecRefCount                             *)

AfterWeak(p) == IF p \in Sptrs THEN "null" ELSE "delLoad"
Leave(p, label) ==
    /\ Go(p, label)
    /\ from' = [from EXCEPT ![p] = IF label = "null" THEN None ELSE @]

WeakLoad(p) ==
    /\ pc[p] = "weakLoad"
    /\ Leave(p, IF weak > 0 THEN "weakSub" ELSE AfterWeak(p))
    /\ UNCHANGED <<counts, alive, freed, fresh, counter, cur>>

WeakSub(p) ==
    /\ pc[p] = "weakSub"
    /\ weak' = weak - 1
    /\ Leave(p, IF weak = 1 THEN "weakLast" ELSE AfterWeak(p))
    /\ UNCHANGED <<strong, refs, own, alive, freed, fresh, counter, cur>>

(* Mutant: the last count of atomicWeak_ keeps the object's share.         *)
WeakLastFaultKeepsShare(p) ==
    /\ pc[p] = "weakLast"
    /\ Leave(p, AfterWeak(p))
    /\ UNCHANGED <<counts, alive, freed, fresh, counter, cur>>

(* An object that never had an sptr is deleted by its last wptr, and       *)
(* ~RefBase gives up its share; otherwise DecWeakRefCount does.            *)
WeakLast(p) ==
    /\ pc[p] = "weakLast"
    /\ alive' = (alive /\ strong # Initial)
    /\ Leave(p, IF strong = Initial /\ ~alive THEN AfterWeak(p) ELSE "refLoad")
    /\ UNCHANGED <<counts, freed, fresh, counter, cur>>

RefLoad(p) ==
    /\ pc[p] = "refLoad"
    /\ Leave(p, IF refs > 0 THEN "refSub" ELSE AfterWeak(p))
    /\ UNCHANGED <<counts, alive, freed, fresh, counter, cur>>

RefSub(p) ==
    /\ pc[p] = "refSub"
    /\ refs' = refs - 1
    /\ freed' = (freed \/ refs = 1)
    /\ Leave(p, AfterWeak(p))
    /\ UNCHANGED <<strong, weak, own, alive, fresh, counter, cur>>
----------------------------------------------------------------------------
(* wptr and WeakRefCounter                                                 *)

WeakSources == {r \in Sptrs : Held(r)} \cup (IF fresh /\ EarlyWeak THEN {This} ELSE {})

(* From an sptr or the raw pointer: a WeakRefCounter of its own.           *)
NewWeak(w) ==
    /\ Free(w)
    /\ \A v \in Wptrs : counter[v] # w
    /\ \E s \in WeakSources : from' = [from EXCEPT ![w] = s]
    /\ counter' = [counter EXCEPT ![w] = w]
    /\ Go(w, "newRef")
    /\ UNCHANGED <<counts, alive, freed, fresh, cur>>

(* From another wptr: they share the WeakRefCounter.                       *)
CopyWeak(w, v) ==
    /\ Free(w) /\ Held(v)
    /\ from' = [from EXCEPT ![w] = v]
    /\ counter' = [counter EXCEPT ![w] = counter[v]]
    /\ Go(w, "ownAdd")
    /\ UNCHANGED <<counts, alive, freed, fresh, cur>>

(* Mutant: a WeakRefCounter does not count itself in atomicRefCount_.      *)
NewRefFaultUncounted(w) ==
    /\ pc[w] = "newRef"
    /\ Go(w, "ownAdd")
    /\ UNCHANGED <<counts, alive, freed, fresh, from, counter, cur>>

NewRef(w) ==
    /\ pc[w] = "newRef"
    /\ refs' = refs + 1
    /\ Go(w, "ownAdd")
    /\ UNCHANGED <<strong, weak, own, alive, freed, fresh, from, counter, cur>>

OwnAdd(w) ==
    /\ pc[w] = "ownAdd"
    /\ own' = [own EXCEPT ![counter[w]] = @ + 1]
    /\ IF own[counter[w]] = 0
       THEN Go(w, "newWeak") /\ UNCHANGED from
       ELSE Go(w, "held") /\ from' = [from EXCEPT ![w] = None]
    /\ UNCHANGED <<strong, weak, refs, alive, freed, fresh, counter, cur>>

NewWeakCount(w) ==
    /\ pc[w] = "newWeak"
    /\ weak' = weak + 1
    /\ Go(w, "held")
    /\ from' = [from EXCEPT ![w] = None]
    /\ UNCHANGED <<strong, refs, own, alive, freed, fresh, counter, cur>>

DropWeak(w) ==
    /\ w \in Wptrs /\ Held(w) /\ NotRead(w)
    /\ Go(w, "ownSub")
    /\ UNCHANGED <<counts, alive, freed, fresh, from, counter, cur>>

OwnSub(w) ==
    /\ pc[w] = "ownSub"
    /\ own' = [own EXCEPT ![counter[w]] = @ - 1]
    /\ IF own[counter[w]] = 1
       THEN Go(w, "weakLoad") /\ UNCHANGED counter
       ELSE Go(w, "null") /\ counter' = [counter EXCEPT ![w] = None]
    /\ UNCHANGED <<strong, weak, refs, alive, freed, fresh, from, cur>>

(* delete this: ~WeakRefCounter                                            *)
DelLoad(w) ==
    /\ pc[w] = "delLoad"
    /\ IF refs > 0
       THEN Go(w, "delSub") /\ UNCHANGED counter
       ELSE Go(w, "null") /\ counter' = [counter EXCEPT ![w] = None]
    /\ UNCHANGED <<counts, alive, freed, fresh, from, cur>>

DelSub(w) ==
    /\ pc[w] = "delSub"
    /\ refs' = refs - 1
    /\ freed' = (freed \/ refs = 1)
    /\ Go(w, "null")
    /\ counter' = [counter EXCEPT ![w] = None]
    /\ UNCHANGED <<strong, weak, own, alive, fresh, from, cur>>
----------------------------------------------------------------------------
StrongStep(r) ==
    \/ CopyStrong(r) \/ IncWeak(r) \/ IncLoad(r) \/ IncAdd(r) \/ IncFix(r)
    \/ \E w \in Wptrs : Promote(r, w)
    \/ AttLoad(r) \/ AttWeak(r) \/ AttSwap(r) \/ AttReload(r) \/ AttFail(r)
    \/ DropStrong(r) \/ DecLoad(r) \/ DecSub(r) \/ DecCall(r)

WeakStep(w) ==
    \/ NewWeak(w) \/ NewRef(w) \/ OwnAdd(w) \/ NewWeakCount(w)
    \/ \E v \in Wptrs : CopyWeak(w, v)
    \/ DropWeak(w) \/ OwnSub(w) \/ DelLoad(w) \/ DelSub(w)

CountStep(p) == WeakLoad(p) \/ WeakSub(p) \/ WeakLast(p) \/ RefLoad(p) \/ RefSub(p)

Next ==
    \/ \E r \in Sptrs : StrongStep(r)
    \/ \E w \in Wptrs : WeakStep(w)
    \/ \E p \in Ptrs : CountStep(p)

Spec == Init /\ [][Next]_vars
=============================================================================
