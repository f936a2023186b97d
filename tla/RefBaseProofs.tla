--------------------------- MODULE RefBaseProofs ---------------------------
(***************************************************************************)
(* Theorems about RefBase, for every set of sptr and wptr variables: types *)
(* first, then the object's life, then the RefCounter's.  All but the      *)
(* first need that no constructor hands out wptr(this): such a wptr may be *)
(* promoted and dropped before the creator has its sptr.                   *)
(***************************************************************************)
EXTENDS RefBaseCorrect, TLAPS, FiniteSetTheorems

----------------------------------------------------------------------------
(* Type correctness.                                                       *)

(* Labels at which a wptr reads no other pointer.                          *)
QuietLabels == {"ownSub", "delLoad", "delSub"} \cup CountLabels

TypeInv ==
    /\ TypeOK
    /\ \A w \in Wptrs : pc[w] \in QuietLabels => from[w] = None

USE DEF Ptrs, TakeLabels, TryLabels, DropLabels, CountLabels, OwnLabels, SptrLabels,
        WptrLabels, QuietLabels

LEMMA InitType == Init => TypeInv
<1> SUFFICES ASSUME Init
             PROVE  TypeInv
  OBVIOUS
<1>1. /\ strong \in Int /\ weak \in Int /\ refs \in Int /\ own \in [Wptrs -> Int]
      /\ alive \in BOOLEAN /\ freed \in BOOLEAN /\ fresh \in BOOLEAN
      /\ cur \in [Sptrs -> Int]
  <2>1. Initial \in Nat
    BY InitialLarge
  <2>2. own \in [Wptrs -> Int] /\ cur \in [Sptrs -> Int]
    BY DEF Init
  <2>3. strong \in Int /\ weak \in Int /\ refs \in Int
    BY <2>1 DEF Init
  <2>4. alive \in BOOLEAN /\ freed \in BOOLEAN /\ fresh \in BOOLEAN
    BY DEF Init
  <2> QED
    BY <2>2, <2>3, <2>4
<1>2. /\ pc \in [Ptrs -> SptrLabels \cup WptrLabels] /\ \A p \in Ptrs : pc[p] = "null"
      /\ from \in [Ptrs -> Ptrs \cup {This, None}] /\ \A p \in Ptrs : from[p] = None
      /\ counter \in [Wptrs -> Wptrs \cup {None}]
  BY DEF Init
<1> QED
  BY <1>1, <1>2 DEF TypeInv, TypeOK

LEMMA StrongType ==
    ASSUME TypeInv, NEW r \in Sptrs, StrongStep(r)
    PROVE  TypeInv'
<1> USE PtrsDistinct, InitialLarge DEF TypeInv, TypeOK, counts, Go, Free, Held
<1>1. CASE CopyStrong(r)
  BY <1>1 DEF CopyStrong, StrongSources
<1>2. CASE IncWeak(r) \/ IncLoad(r)
  BY <1>2 DEF IncWeak, IncLoad
<1>3. CASE IncAdd(r) \/ IncFix(r)
  BY <1>3 DEF IncAdd, IncFix
<1>4. CASE \E w \in Wptrs : Promote(r, w)
  BY <1>4 DEF Promote
<1>5. CASE AttLoad(r) \/ AttWeak(r)
  BY <1>5 DEF AttLoad, AttWeak
<1>6. CASE AttSwap(r)
  BY <1>6 DEF AttSwap
<1>7. CASE AttReload(r) \/ AttFail(r)
  BY <1>7 DEF AttReload, AttFail
<1>8. CASE DropStrong(r) \/ DecLoad(r)
  BY <1>8 DEF DropStrong, DecLoad
<1>9. CASE DecSub(r)
  BY <1>9 DEF DecSub
<1>10. CASE DecCall(r)
  BY <1>10 DEF DecCall
<1> QED
  BY <1>1, <1>2, <1>3, <1>4, <1>5, <1>6, <1>7, <1>8, <1>9, <1>10 DEF StrongStep

LEMMA WeakType ==
    ASSUME TypeInv, NEW w \in Wptrs, WeakStep(w)
    PROVE  TypeInv'
<1> USE PtrsDistinct DEF TypeInv, TypeOK, counts, Go, Free, Held
<1>1. CASE NewWeak(w)
  BY <1>1 DEF NewWeak, WeakSources
<1>2. CASE NewRef(w)
  BY <1>2 DEF NewRef
<1>3. CASE OwnAdd(w)
  <2>1. own' \in [Wptrs -> Int]
    <3>1. own' = [v \in Wptrs |-> IF v = counter[w] THEN own[v] + 1 ELSE own[v]]
      BY <1>3, Zenon DEF OwnAdd
    <3> QED
      BY <3>1
  <2>2. CASE own[counter[w]] = 0
    BY <1>3, <2>1, <2>2 DEF OwnAdd
  <2>3. CASE own[counter[w]] # 0
    BY <1>3, <2>1, <2>3 DEF OwnAdd
  <2> QED
    BY <2>2, <2>3
<1>4. CASE NewWeakCount(w)
  BY <1>4 DEF NewWeakCount
<1>5. CASE \E v \in Wptrs : CopyWeak(w, v)
  BY <1>5 DEF CopyWeak
<1>6. CASE DropWeak(w)
  BY <1>6 DEF DropWeak
<1>7. CASE OwnSub(w)
  <2>1. own' \in [Wptrs -> Int]
    <3>1. own' = [v \in Wptrs |-> IF v = counter[w] THEN own[v] - 1 ELSE own[v]]
      BY <1>7, Zenon DEF OwnSub
    <3> QED
      BY <3>1
  <2>2. CASE own[counter[w]] = 1
    BY <1>7, <2>1, <2>2 DEF OwnSub
  <2>3. CASE own[counter[w]] # 1
    BY <1>7, <2>1, <2>3 DEF OwnSub
  <2> QED
    BY <2>2, <2>3
<1>8. CASE DelLoad(w)
  <2>1. CASE refs > 0
    BY <1>8, <2>1 DEF DelLoad
  <2>2. CASE ~(refs > 0)
    BY <1>8, <2>2 DEF DelLoad
  <2> QED
    BY <2>1, <2>2
<1>9. CASE DelSub(w)
  BY <1>9 DEF DelSub
<1> QED
  BY <1>1, <1>2, <1>3, <1>4, <1>5, <1>6, <1>7, <1>8, <1>9 DEF WeakStep

LEMMA CountType ==
    ASSUME TypeInv, NEW p \in Ptrs, CountStep(p)
    PROVE  TypeInv'
<1> USE PtrsDistinct DEF TypeInv, TypeOK, counts, Go, Leave, AfterWeak
<1>1. CASE WeakLoad(p)
  BY <1>1 DEF WeakLoad
<1>2. CASE WeakSub(p)
  BY <1>2 DEF WeakSub
<1>3. CASE WeakLast(p)
  BY <1>3 DEF WeakLast
<1>4. CASE RefLoad(p)
  BY <1>4 DEF RefLoad
<1>5. CASE RefSub(p)
  BY <1>5 DEF RefSub
<1> QED
  BY <1>1, <1>2, <1>3, <1>4, <1>5 DEF CountStep

LEMMA StepType == TypeInv /\ [Next]_vars => TypeInv'
<1> SUFFICES ASSUME TypeInv, [Next]_vars
             PROVE  TypeInv'
  OBVIOUS
<1>1. CASE Next
  BY <1>1, StrongType, WeakType, CountType DEF Next
<1>2. CASE UNCHANGED vars
  BY <1>2 DEF vars, TypeInv, TypeOK
<1> QED
  BY <1>1, <1>2

(* Every reachable state is well typed, and a variable that names the      *)
(* object or nothing is in the middle of no copy.                          *)
THEOREM TypeCorrect == Spec => []TypeOK
<1>1. TypeInv => TypeOK
  BY DEF TypeInv
<1> QED
  BY <1>1, InitType, StepType, PTL DEF Spec
----------------------------------------------------------------------------
(* The object lives as long as its sptrs.                                  *)

(* The sptrs that atomicStrong_ counts.  When the first has been counted,  *)
(* INITIAL_PRIMARY_VALUE is still in the count until IncFix.               *)
Counted == {r \in Sptrs : pc[r] \in {"incFix", "held", "decLoad", "decSub"}}
Taking == {"incWeak", "incLoad", "incAdd"}
Creating == \E p \in Ptrs : from[p] = This

FreshOK == fresh => /\ strong = Initial /\ alive
                    /\ \A p \in Ptrs : pc[p] = "null"

(* While the first sptr is made, there is no other variable.               *)
FirstOK == \A r \in Ptrs : from[r] = This =>
              /\ r \in Sptrs /\ ~fresh /\ alive
              /\ \A q \in Ptrs \ {r} : pc[q] = "null"
              /\ \/ pc[r] \in Taking /\ strong = Initial
                 \/ pc[r] = "incFix" /\ strong = Initial + 1

StrongOK == fresh \/ Creating \/ strong = Cardinality(Counted)
CopyOK   == \A r \in Sptrs : pc[r] \in Taking =>
               from[r] = This \/ (from[r] \in Sptrs /\ pc[from[r]] = "held")
FixOK    == \A r \in Sptrs : pc[r] = "incFix" => from[r] = This
LastOK   == \A r \in Sptrs : pc[r] = "decCall" => Counted = {}
AliveOK  == Counted # {} => alive

ObjectInv == FreshOK /\ FirstOK /\ StrongOK /\ CopyOK /\ FixOK /\ LastOK /\ AliveOK

LEMMA CountedFinite ==
    /\ IsFiniteSet(Counted) /\ Cardinality(Counted) \in Nat
    /\ Cardinality(Counted) < Initial
    /\ Cardinality(Counted) = 0 <=> Counted = {}
<1>1. IsFiniteSet(Sptrs) /\ Counted \in SUBSET Sptrs
  BY PtrsFinite DEF Counted
<1>2. /\ IsFiniteSet(Counted) /\ Cardinality(Counted) <= Cardinality(Sptrs)
      /\ Cardinality(Counted) \in Nat /\ Cardinality(Sptrs) \in Nat
  BY <1>1, FS_Subset, FS_CardinalityType
<1> QED
  BY <1>2, FS_EmptySet, InitialLarge

(* Steps that leave the counted sptrs as they are.                         *)
LEMMA SameCount ==
    ASSUME \A r \in Sptrs : (pc[r] \in {"incFix", "held", "decLoad", "decSub"})
                        <=> (pc[r] \in {"incFix", "held", "decLoad", "decSub"})'
    PROVE  Counted' = Counted
BY DEF Counted

LEMMA ObjectKept ==
    ASSUME TypeInv, ObjectInv
    PROVE  ObjectAlive
<1> SUFFICES ASSUME fresh \/ At({"held", "decLoad", "decSub"} \cup TakeLabels) \cap Sptrs # {}
             PROVE  alive
  BY DEF ObjectAlive
<1>1. CASE fresh
  BY <1>1 DEF ObjectInv, FreshOK
<1>2. CASE ~fresh
  <2>1. PICK r \in Sptrs : pc[r] \in {"held", "decLoad", "decSub"} \cup TakeLabels
    BY <1>2 DEF At
  <2>2. CASE r \in Counted
    BY <2>2 DEF ObjectInv, AliveOK
  <2>3. CASE r \notin Counted
    <3>1. pc[r] \in Taking
      BY <2>1, <2>3 DEF Counted, Taking
    <3>2. CASE from[r] = This
      BY <3>2 DEF ObjectInv, FirstOK
    <3>3. CASE from[r] # This
      BY <3>1, <3>3 DEF ObjectInv, CopyOK, AliveOK, Counted
    <3> QED
      BY <3>2, <3>3
  <2> QED
    BY <2>2, <2>3
<1> QED
  BY <1>1, <1>2
(* Before the first sptr is made, and while it is.                         *)
Normal == ~fresh /\ ~Creating

LEMMA InitObject == Init => ObjectInv
BY PtrsDistinct DEF Init, ObjectInv, FreshOK, FirstOK, StrongOK, CopyOK, FixOK, LastOK, AliveOK,
   Counted, Creating, Taking

LEMMA FreshQuiet ==
    ASSUME TypeInv, ObjectInv, fresh
    PROVE  ~Creating /\ Counted = {} /\ strong = Initial /\ alive
BY PtrsDistinct DEF TypeInv, TypeOK, ObjectInv, FreshOK, Creating, Counted

(* The creator makes the first sptr from its raw pointer.                  *)
LEMMA FreshStep ==
    ASSUME TypeInv, ObjectInv, ~EarlyWeak, Next, fresh
    PROVE  ObjectInv'
<1>1. /\ \A p \in Ptrs : pc[p] = "null" /\ from[p] # This
      /\ Counted = {} /\ strong = Initial /\ alive
  BY FreshQuiet DEF ObjectInv, FreshOK, Creating
<1>2. PICK r \in Sptrs : CopyStrong(r) /\ from' = [from EXCEPT ![r] = This] /\ ~fresh'
  BY <1>1 DEF Next, StrongStep, WeakStep, CountStep, CopyStrong, StrongSources, IncWeak, IncLoad,
     IncAdd, IncFix, Promote, AttLoad, AttWeak, AttSwap, AttReload, AttFail, DropStrong, DecLoad,
     DecSub, DecCall, NewWeak, WeakSources, NewRef, OwnAdd, NewWeakCount, CopyWeak, DropWeak,
     OwnSub, DelLoad, DelSub, WeakLoad, WeakSub, WeakLast, RefLoad, RefSub, Free, Held
<1>3. /\ from \in [Ptrs -> Ptrs \cup {This, None}] /\ r \in Ptrs
      /\ pc' = [pc EXCEPT ![r] = "incWeak"] /\ pc \in [Ptrs -> SptrLabels \cup WptrLabels]
      /\ strong' = strong /\ alive' = alive
  BY <1>2 DEF TypeInv, TypeOK, CopyStrong, Go, counts
<1>4. /\ \A q \in Ptrs : from'[q] = This <=> q = r
      /\ \A q \in Ptrs \ {r} : pc'[q] = "null"
      /\ pc'[r] = "incWeak"
  BY <1>1, <1>2, <1>3
<1>5. Counted' = {}
  BY <1>4 DEF Counted
<1> QED
  BY <1>1, <1>2, <1>3, <1>4, <1>5 DEF ObjectInv, FreshOK, FirstOK, StrongOK, CopyOK, FixOK, LastOK, AliveOK,
     Creating, Taking

(* The first sptr is made: no other variable can do anything.              *)
LEMMA FirstStep ==
    ASSUME TypeInv, ObjectInv, ~EarlyWeak, Next, Creating
    PROVE  ObjectInv'
<1>1. PICK r \in Ptrs : from[r] = This
  BY DEF Creating
<1>2. /\ r \in Sptrs /\ ~fresh /\ alive
      /\ \A q \in Ptrs \ {r} : pc[q] = "null" /\ from[q] = None
      /\ \/ pc[r] \in Taking /\ strong = Initial
         \/ pc[r] = "incFix" /\ strong = Initial + 1
  BY <1>1 DEF ObjectInv, FirstOK, TypeInv, TypeOK
<1>3. IncWeak(r) \/ IncLoad(r) \/ IncAdd(r) \/ IncFix(r)
  <2>1. \A p \in Ptrs : pc[p] # "held"
    BY <1>2 DEF Taking
  <2>2. \A p \in Ptrs : CountStep(p) => p = r /\ pc[r] \in CountLabels
    BY <1>2 DEF CountStep, WeakLoad, WeakSub, WeakLast, RefLoad, RefSub
  <2>3. \A w \in Wptrs : ~WeakStep(w)
    BY <1>2, <2>1, PtrsDistinct DEF WeakStep, NewWeak, WeakSources, NewRef, OwnAdd, NewWeakCount,
       CopyWeak, DropWeak, OwnSub, DelLoad, DelSub, Free, Held
  <2>4. \A q \in Sptrs : ~CopyStrong(q) /\ \A w \in Wptrs : ~Promote(q, w)
    BY <1>2, <2>1 DEF CopyStrong, StrongSources, Promote, Held
  <2>5. ASSUME NEW q \in Sptrs, StrongStep(q), q # r
        PROVE  FALSE
    <3>1. pc[q] = "null"
      BY <1>2, <2>5
    <3> QED
      BY <2>4, <2>5, <3>1 DEF StrongStep, IncWeak, IncLoad, IncAdd, IncFix, AttLoad, AttWeak, AttSwap,
         AttReload, AttFail, DropStrong, DecLoad, DecSub, DecCall, Held
  <2>6. StrongStep(r)
    BY <1>2, <2>2, <2>3, <2>5 DEF Next, Taking
  <2> QED
    BY <1>2, <2>4, <2>6 DEF StrongStep, AttLoad, AttWeak, AttSwap, AttReload, AttFail, DropStrong,
       DecLoad, DecSub, DecCall, Held, Taking
<1>4. /\ pc \in [Ptrs -> SptrLabels \cup WptrLabels]
      /\ from \in [Ptrs -> Ptrs \cup {This, None}] /\ Initial \in Nat /\ Initial > 0
  BY InitialLarge, FS_CardinalityType, PtrsFinite DEF TypeInv, TypeOK
<1>5. \A q \in Ptrs \ {r} : pc'[q] = pc[q] /\ from'[q] = from[q]
  <2>1. CASE IncWeak(r) \/ IncFix(r)
    BY <1>4, <2>1 DEF IncWeak, IncFix, Go
  <2>2. CASE IncLoad(r)
    BY <1>4, <2>2 DEF IncLoad, Go
  <2>3. CASE IncAdd(r)
    BY <1>4, <2>3 DEF IncAdd, Go
  <2> QED
    BY <1>3, <2>1, <2>2, <2>3
<1>6. alive' /\ ~fresh'
  <2>1. alive' = alive /\ fresh' = fresh
    BY <1>3 DEF IncWeak, IncLoad, IncAdd, IncFix
  <2> QED
    BY <1>2, <2>1
<1>7. CASE IncWeak(r) \/ IncLoad(r) \/ IncAdd(r)
  <2>1. /\ from'[r] = This
        /\ \/ pc'[r] \in Taking /\ strong' = Initial
           \/ pc'[r] = "incFix" /\ strong' = Initial + 1
    <3>1. CASE IncWeak(r)
      BY <1>1, <1>2, <1>4, <3>1 DEF IncWeak, Taking, Go
    <3>2. CASE IncLoad(r)
      BY <1>1, <1>2, <1>4, <3>2 DEF IncLoad, Taking, Go, counts
    <3>3. CASE IncAdd(r)
      BY <1>1, <1>2, <1>4, <3>3 DEF IncAdd, Taking, Go
    <3> QED
      BY <1>7, <3>1, <3>2, <3>3
  <2> QED
    BY <1>2, <1>5, <1>6, <2>1, PtrsDistinct
    DEF ObjectInv, FreshOK, FirstOK, StrongOK, CopyOK, FixOK, LastOK, AliveOK, Creating, Taking, Counted
<1>8. CASE IncFix(r)
  <2>1. from'[r] = None /\ pc'[r] = "held" /\ strong' = 1
    BY <1>2, <1>4, <1>8 DEF IncFix, Go, Taking
  <2>2. Counted' = {r}
    BY <1>2, <1>5, <2>1 DEF Counted
  <2>3. Cardinality({r}) = 1
    BY FS_Singleton
  <2>4. \A q \in Ptrs : from'[q] # This
    BY <1>2, <1>5, <2>1, PtrsDistinct
  <2> QED
    BY <1>2, <1>5, <1>6, <2>1, <2>2, <2>3, <2>4
    DEF ObjectInv, FreshOK, FirstOK, StrongOK, CopyOK, FixOK, LastOK, AliveOK, Taking
<1> QED
  BY <1>3, <1>7, <1>8
(* From then on, no variable reads the raw pointer again, and the count is *)
(* the number of the sptrs.                                                *)
Rest ==
    /\ strong = Cardinality(Counted)
    /\ \A p \in Ptrs : from[p] # This
    /\ \A r \in Sptrs : pc[r] # "incFix"
    /\ \A r \in Sptrs : pc[r] \in Taking => from[r] \in Sptrs /\ pc[from[r]] = "held"
    /\ \A r \in Sptrs : pc[r] = "decCall" => Counted = {}
    /\ Counted # {} => alive

LEMMA NormalRest ==
    ASSUME TypeInv, ObjectInv, Normal
    PROVE  Rest /\ ~fresh /\ strong \in Nat /\ strong < Initial
BY CountedFinite DEF Normal, Rest, ObjectInv, StrongOK, CopyOK, FixOK, LastOK, AliveOK, Creating

(* A step of p from one label to another, neither of them counted.         *)
LEMMA OtherStep ==
    ASSUME TypeInv, Rest, NEW p \in Ptrs, NEW b,
           pc' = [pc EXCEPT ![p] = b], strong' = strong, alive' = alive,
           \A q \in Ptrs \ {p} : from'[q] = from[q],
           from'[p] # This,
           p \in Sptrs => pc[p] \notin {"incFix", "held", "decLoad", "decSub"},
           p \in Sptrs => b \notin {"incFix", "held", "decLoad", "decSub", "decCall"},
           p \in Sptrs /\ b \in Taking => from'[p] \in Sptrs /\ pc[from'[p]] = "held"
    PROVE  Rest'
<1>1. \A q \in Ptrs : pc'[q] = IF q = p THEN b ELSE pc[q]
  BY DEF TypeInv, TypeOK
<1>2. Counted' = Counted
  BY <1>1, SameCount
<1>3. \A r \in Sptrs : pc'[r] \in Taking => from'[r] \in Sptrs /\ pc'[from'[r]] = "held"
  <2>1. ASSUME NEW r \in Sptrs, pc'[r] \in Taking
        PROVE  from'[r] \in Sptrs /\ pc[from'[r]] = "held"
    BY <1>1, <2>1 DEF Rest
  <2> QED
    BY <1>1, <2>1
<1> QED
  BY <1>1, <1>2, <1>3 DEF Rest
(* r is counted by the step that finds the count positive or copies a held *)
(* sptr.                                                                   *)
LEMMA CountedMore ==
    ASSUME TypeInv, Rest, NEW r \in Sptrs, r \notin Counted, Counted # {},
           pc' = [pc EXCEPT ![r] = "held"], from' = [from EXCEPT ![r] = None],
           strong' = strong + 1, alive' = alive, pc[r] # "held"
    PROVE  Rest'
<1>1. \A q \in Ptrs : /\ pc'[q] = IF q = r THEN "held" ELSE pc[q]
                      /\ from'[q] = IF q = r THEN None ELSE from[q]
  BY DEF TypeInv, TypeOK
<1>2. Counted' = Counted \cup {r}
  BY <1>1 DEF Counted
<1>3. Cardinality(Counted \cup {r}) = Cardinality(Counted) + 1
  BY CountedFinite, FS_AddElement
<1> QED
  BY <1>1, <1>2, <1>3, PtrsDistinct DEF Rest, Taking

(* A step of a counted sptr that stays counted and that nobody reads.      *)
LEMMA CountedSame ==
    ASSUME TypeInv, Rest, NEW r \in Sptrs, r \in Counted, NEW b \in {"decLoad", "decSub"},
           NotRead(r) \/ pc[r] # "held",
           pc' = [pc EXCEPT ![r] = b], strong' = strong, alive' = alive, from' = from
    PROVE  Rest'
<1>1. \A q \in Ptrs : pc'[q] = IF q = r THEN b ELSE pc[q]
  BY DEF TypeInv, TypeOK
<1>2. Counted' = Counted
  BY <1>1 DEF Counted
<1> QED
  BY <1>1, <1>2 DEF Rest, Taking, NotRead

LEMMA CopyObject ==
    ASSUME TypeInv, Rest, ~fresh, NEW r \in Sptrs, CopyStrong(r)
    PROVE  Rest' /\ ~fresh'
<1>1. PICK s \in Sptrs : /\ pc[s] = "held" /\ from' = [from EXCEPT ![r] = s]
                         /\ fresh' = (fresh /\ s # This)
  BY DEF CopyStrong, StrongSources, Held
<1>2. /\ pc[r] = "null" /\ pc' = [pc EXCEPT ![r] = "incWeak"] /\ strong' = strong /\ alive' = alive
  BY DEF CopyStrong, Free, Go, counts
<1>3. /\ \A q \in Ptrs \ {r} : from'[q] = from[q]
      /\ from'[r] = s
  BY <1>1 DEF TypeInv, TypeOK
<1> QED
  BY <1>1, <1>2, <1>3, OtherStep, PtrsDistinct

LEMMA TakeObject ==
    ASSUME TypeInv, Rest, NEW r \in Sptrs, strong < Initial,
           IncWeak(r) \/ IncLoad(r) \/ IncAdd(r) \/ IncFix(r)
    PROVE  Rest'
<1>1. r \in Ptrs /\ strong \in Nat /\ from[r] # This
  BY CountedFinite DEF Rest
<1>2. CASE IncWeak(r)
  BY <1>1, <1>2, OtherStep DEF IncWeak, Go, Rest, Taking
<1>3. CASE IncLoad(r)
  <2>1. pc[r] = "incLoad" /\ pc' = [pc EXCEPT ![r] = "incAdd"] /\ from' = from
        /\ strong' = strong /\ alive' = alive
    BY <1>1, <1>3 DEF IncLoad, Go, counts
  <2> QED
    BY <1>1, <2>1, OtherStep DEF Rest, Taking
<1>4. CASE IncAdd(r)
  <2>1. /\ pc[r] = "incAdd" /\ pc' = [pc EXCEPT ![r] = "held"] /\ from' = [from EXCEPT ![r] = None]
        /\ strong' = strong + 1 /\ alive' = alive
    BY <1>1, <1>4 DEF IncAdd, Go
  <2>2. r \notin Counted /\ Counted # {}
    BY <2>1 DEF Rest, Taking, Counted
  <2> QED
    BY <2>1, <2>2, CountedMore
<1>5. CASE IncFix(r)
  BY <1>5 DEF IncFix, Rest
<1> QED
  BY <1>2, <1>3, <1>4, <1>5

LEMMA TryObject ==
    ASSUME TypeInv, Rest, NEW r \in Sptrs, strong < Initial,
           \/ \E w \in Wptrs : Promote(r, w)
           \/ AttLoad(r) \/ AttWeak(r) \/ AttSwap(r) \/ AttReload(r) \/ AttFail(r)
    PROVE  Rest'
<1>1. r \in Ptrs /\ strong \in Nat /\ from[r] # This
  BY CountedFinite DEF Rest
<1>2. CASE \E w \in Wptrs : Promote(r, w)
  <2>1. PICK w \in Wptrs : Promote(r, w)
    BY <1>2
  <2>2. /\ \A q \in Ptrs \ {r} : from'[q] = from[q]
        /\ from'[r] # This
    BY <2>1, PtrsDistinct DEF Promote, TypeInv, TypeOK
  <2> QED
    BY <1>1, <2>1, <2>2, OtherStep DEF Promote, Go, Free, counts, Taking
<1>3. CASE AttLoad(r) \/ AttWeak(r) \/ AttFail(r)
  <2>1. /\ pc[r] \in TryLabels /\ from' = from /\ strong' = strong /\ alive' = alive
        /\ \E b \in {"attWeak", "attSwap", "weakLoad"} : pc' = [pc EXCEPT ![r] = b]
    BY <1>3 DEF AttLoad, AttWeak, AttFail, Go, counts
  <2> QED
    BY <1>1, <2>1, OtherStep DEF Taking
<1>4. CASE AttReload(r)
  <2>1. pc' = pc /\ from' = from /\ strong' = strong /\ alive' = alive
    BY <1>4 DEF AttReload, counts
  <2> QED
    BY <2>1 DEF Rest, Counted
<1>5. CASE AttSwap(r)
  <2>1. cur[r] > 0 /\ strong = cur[r] /\ cur[r] \in Int
    BY <1>5 DEF AttSwap, TypeInv, TypeOK
  <2>2. /\ pc[r] = "attSwap" /\ pc' = [pc EXCEPT ![r] = "held"] /\ from' = [from EXCEPT ![r] = None]
        /\ strong' = strong + 1 /\ alive' = alive
    BY <1>5, <2>1, <1>1, InitialLarge DEF AttSwap, Go
  <2>3. r \notin Counted /\ Counted # {}
    BY <2>1, <2>2, CountedFinite DEF Rest, Counted
  <2> QED
    BY <2>2, <2>3, CountedMore
<1> QED
  BY <1>2, <1>3, <1>4, <1>5
(* The decrement: the test before it never fails, and the sptr that finds  *)
(* a count of 1 is alone.                                                  *)
LEMMA DropObject ==
    ASSUME TypeInv, Rest, NEW r \in Sptrs, strong < Initial,
           DropStrong(r) \/ DecLoad(r) \/ DecSub(r) \/ DecCall(r)
    PROVE  Rest'
<1>1. r \in Ptrs /\ strong \in Nat /\ from[r] # This
  BY CountedFinite DEF Rest
<1>2. CASE DropStrong(r)
  BY <1>2, CountedSame DEF DropStrong, Held, Go, counts, Counted
<1>3. CASE DecLoad(r)
  <2>1. r \in Counted /\ strong > 0
    BY <1>3, CountedFinite DEF DecLoad, Counted, Rest
  <2>2. /\ pc[r] = "decLoad" /\ pc' = [pc EXCEPT ![r] = "decSub"] /\ from' = from
        /\ strong' = strong /\ alive' = alive
    <3>1. strong > 0 /\ strong # Initial
      BY <1>1, <2>1, InitialLarge
    <3> QED
      BY <1>3, <3>1 DEF DecLoad, Go, counts
  <2> QED
    BY <2>1, <2>2, CountedSame
<1>4. CASE DecSub(r)
  <2>1. /\ pc[r] = "decSub" /\ from' = from /\ strong' = strong - 1 /\ alive' = alive
        /\ pc' = [pc EXCEPT ![r] = IF strong = 1 THEN "decCall" ELSE "weakLoad"]
    BY <1>4 DEF DecSub, Go
  <2>2. \A q \in Ptrs : pc'[q] = IF q = r THEN (IF strong = 1 THEN "decCall" ELSE "weakLoad")
                                 ELSE pc[q]
    BY <2>1 DEF TypeInv, TypeOK
  <2>3. r \in Counted /\ Counted' = Counted \ {r}
    BY <2>1, <2>2 DEF Counted
  <2>4. /\ IsFiniteSet(Counted \ {r})
        /\ Cardinality(Counted \ {r}) = Cardinality(Counted) - 1
    BY <2>3, CountedFinite, FS_RemoveElement
  <2>5. strong = 1 => Counted' = {}
    BY <1>1, <2>3, <2>4, FS_EmptySet DEF Rest
  <2>6. \A q \in Sptrs : pc'[q] = "decCall" => strong = 1
    BY <2>2, <2>3 DEF Rest
  <2>7. \A q \in Sptrs : pc'[q] \in Taking => from'[q] \in Sptrs /\ pc'[from'[q]] = "held"
    BY <2>1, <2>2 DEF Rest, Taking
  <2> QED
    BY <2>1, <2>2, <2>3, <2>4, <2>5, <2>6, <2>7 DEF Rest
<1>5. CASE DecCall(r)
  <2>1. /\ pc[r] = "decCall" /\ pc' = [pc EXCEPT ![r] = "weakLoad"] /\ from' = from
        /\ strong' = strong /\ Counted = {}
    BY <1>5 DEF DecCall, Go, counts, Rest
  <2>2. \A q \in Ptrs : pc'[q] = IF q = r THEN "weakLoad" ELSE pc[q]
    BY <2>1 DEF TypeInv, TypeOK
  <2>3. Counted' = {}
    BY <2>1, <2>2 DEF Counted
  <2> QED
    BY <2>1, <2>2, <2>3 DEF Rest, Counted, Taking
<1> QED
  BY <1>2, <1>3, <1>4, <1>5

LEMMA WeakObject ==
    ASSUME TypeInv, Rest, ~EarlyWeak, NEW w \in Wptrs, WeakStep(w)
    PROVE  Rest'
<1>1. w \in Ptrs /\ w \notin Sptrs /\ from[w] # This
  BY PtrsDistinct DEF Rest
<1>2. /\ strong' = strong /\ alive' = alive
      /\ \E b : pc' = [pc EXCEPT ![w] = b]
  BY DEF WeakStep, NewWeak, NewRef, OwnAdd, NewWeakCount, CopyWeak, DropWeak, OwnSub, DelLoad,
     DelSub, Go, counts
<1>3. /\ \A q \in Ptrs \ {w} : from'[q] = from[q]
      /\ from'[w] # This
  <2>1. CASE NewWeak(w) \/ \E v \in Wptrs : CopyWeak(w, v)
    <3>1. PICK s \in Ptrs : from' = [from EXCEPT ![w] = s]
      BY <2>1 DEF NewWeak, CopyWeak, WeakSources
    <3> QED
      BY <1>1, <3>1, PtrsDistinct DEF TypeInv, TypeOK
  <2>2. CASE from' = from \/ from' = [from EXCEPT ![w] = None]
    BY <1>1, <2>2, PtrsDistinct DEF TypeInv, TypeOK
  <2> QED
    BY <2>1, <2>2 DEF WeakStep, NewRef, OwnAdd, NewWeakCount, DropWeak, OwnSub, DelLoad, DelSub
<1> QED
  BY <1>1, <1>2, <1>3, OtherStep

LEMMA CountObject ==
    ASSUME TypeInv, Rest, NEW p \in Ptrs, strong \in Nat, strong < Initial, CountStep(p)
    PROVE  Rest'
<1>1. /\ pc[p] \in CountLabels /\ from[p] # This
      /\ strong' = strong /\ (alive' = alive)
  <2>1. alive \in BOOLEAN
    BY DEF TypeInv, TypeOK
  <2> QED
    BY <2>1 DEF CountStep, WeakLoad, WeakSub, WeakLast, RefLoad, RefSub, counts, Rest
<1>2. PICK b \in CountLabels \cup {"null", "delLoad"} : Leave(p, b)
  BY DEF CountStep, WeakLoad, WeakSub, WeakLast, RefLoad, RefSub, AfterWeak
<1>3. /\ pc' = [pc EXCEPT ![p] = b]
      /\ \A q \in Ptrs \ {p} : from'[q] = from[q]
      /\ from'[p] # This
  BY <1>1, <1>2, PtrsDistinct DEF Leave, Go, TypeInv, TypeOK
<1> QED
  BY <1>1, <1>3, OtherStep DEF Taking

LEMMA NormalStep ==
    ASSUME TypeInv, ObjectInv, ~EarlyWeak, Next, Normal
    PROVE  ObjectInv'
<1>1. Rest /\ ~fresh /\ strong \in Nat /\ strong < Initial
  BY NormalRest
<1>2. Rest'
  <2>1. ASSUME NEW r \in Sptrs, StrongStep(r)
        PROVE  Rest'
    BY <1>1, <2>1, CopyObject, TakeObject, TryObject, DropObject DEF StrongStep
  <2> QED
    BY <1>1, <2>1, WeakObject, CountObject DEF Next
<1>3. ~fresh'
  <2>1. ASSUME NEW r \in Sptrs, StrongStep(r)
        PROVE  ~fresh'
    BY <1>1, <2>1 DEF StrongStep, CopyStrong, IncWeak, IncLoad, IncAdd, IncFix, Promote, AttLoad,
       AttWeak, AttSwap, AttReload, AttFail, DropStrong, DecLoad, DecSub, DecCall
  <2>2. ASSUME NEW w \in Wptrs, WeakStep(w)
        PROVE  ~fresh'
    BY <1>1, <2>2 DEF WeakStep, NewWeak, NewRef, OwnAdd, NewWeakCount, CopyWeak, DropWeak, OwnSub,
       DelLoad, DelSub
  <2>3. ASSUME NEW p \in Ptrs, CountStep(p)
        PROVE  ~fresh'
    BY <1>1, <2>3 DEF CountStep, WeakLoad, WeakSub, WeakLast, RefLoad, RefSub
  <2> QED
    BY <2>1, <2>2, <2>3 DEF Next
<1> QED
  BY <1>2, <1>3 DEF Rest, ObjectInv, FreshOK, FirstOK, StrongOK, CopyOK, FixOK, LastOK, AliveOK,
     Creating

LEMMA StepObject == ~EarlyWeak /\ TypeInv /\ ObjectInv /\ [Next]_vars => ObjectInv'
<1> SUFFICES ASSUME ~EarlyWeak, TypeInv, ObjectInv, [Next]_vars
             PROVE  ObjectInv'
  OBVIOUS
<1>1. CASE Next
  BY <1>1, FreshStep, FirstStep, NormalStep DEF Normal
<1>2. CASE UNCHANGED vars
  BY <1>2 DEF vars, ObjectInv, FreshOK, FirstOK, StrongOK, CopyOK, FixOK, LastOK, AliveOK,
     Creating, Counted
<1> QED
  BY <1>1, <1>2

(* When no constructor hands out wptr(this), no sptr ever names an object  *)
(* whose destructor has run: not one that is copied or promoted while the  *)
(* last one is dropped, in any number of threads.                          *)
THEOREM ObjectCorrect ==
    ASSUME ~EarlyWeak
    PROVE  Spec => []ObjectAlive
<1>1. Init => TypeInv /\ ObjectInv
  BY InitType, InitObject
<1>2. (TypeInv /\ ObjectInv) /\ [Next]_vars => (TypeInv /\ ObjectInv)'
  BY StepType, StepObject
<1>3. TypeInv /\ ObjectInv => ObjectAlive
  BY ObjectKept
<1> QED
  BY <1>1, <1>2, <1>3, PTL DEF Spec
----------------------------------------------------------------------------
(***************************************************************************)
(* The RefCounter's own life: what each count counts at every moment of    *)
(* every operation, and from it that nothing touches a deleted RefCounter, *)
(* that nothing leaks, and that promotions fail only when the last sptr is *)
(* gone.                                                                   *)
(***************************************************************************)

(* Where an sptr has its share of atomicWeak_, where a wptr has its share  *)
(* of atomicWeak_ of its WeakRefCounter, and where that has one of the     *)
(* object's atomicWeak_.                                                   *)
StrongShare == {"incLoad", "incAdd", "incFix", "attSwap", "held", "decLoad", "decSub",
                "decCall", "weakLoad", "weakSub"}
OwnShare    == {"newWeak", "held", "ownSub"}
WeakShare   == {"held", "ownSub", "weakLoad", "weakSub"}

StrongUsers == {r \in Sptrs : pc[r] \in StrongShare}
Sharers(c)  == {w \in Wptrs : counter[w] = c /\ pc[w] \in OwnShare}
Registered  == {c \in Wptrs : \E w \in Wptrs : counter[w] = c /\ pc[w] \in WeakShare}
Referring   == {c \in Wptrs : \E w \in Wptrs : counter[w] = c /\ pc[w] # "newRef"}

(* Who is about to give up the object's share, or to count itself.         *)
GiveLabels == {"weakLast", "refLoad", "refSub"}
Givers     == At(GiveLabels)
First      == At({"incWeak"})

(* The object still has its share of atomicRefCount_.                      *)
Kept == fresh \/ weak > 0 \/ Givers # {} \/ First # {}

(* A pointer that is read is held.                                         *)
ReadOK ==
    /\ \A r \in Sptrs : pc[r] \in {"attLoad", "attWeak"} =>
          from[r] \in Wptrs /\ pc[from[r]] = "held"
    /\ \A w \in Wptrs : pc[w] \in {"newRef", "newWeak"} =>
          from[w] \in Sptrs /\ pc[from[w]] = "held"
    /\ \A w \in Wptrs : pc[w] = "ownAdd" =>
          /\ from[w] \in Ptrs /\ pc[from[w]] = "held"
          /\ from[w] \in Wptrs => counter[from[w]] = counter[w]

NamedOK == \A w \in Wptrs : counter[w] = None <=> pc[w] = "null"

(* A WeakRefCounter that is being made or deleted is nobody else's.        *)
Alone(w) == \/ pc[w] \in {"newRef", "newWeak", "delLoad", "delSub"} \cup CountLabels
            \/ pc[w] = "ownAdd" /\ from[w] \in Sptrs
AloneOK == \A w \in Wptrs : Alone(w) => \A v \in Wptrs \ {w} : counter[v] # counter[w]

OwnOK   == \A c \in Wptrs : own[c] = Cardinality(Sharers(c))
WeakOK  == weak = Cardinality(StrongUsers) + Cardinality(Registered)
GiverOK == /\ \A p, q \in Givers : p = q
           /\ Givers # {} => weak = 0
RefsOK  == refs = Cardinality(Referring) + IF Kept THEN 1 ELSE 0
FreedOK == /\ freed => ~fresh /\ \A p \in Ptrs : pc[p] = "null"
           /\ refs = 0 => freed

ShareInv  == ReadOK /\ NamedOK /\ AloneOK /\ OwnOK
CountsInv == WeakOK /\ GiverOK /\ RefsOK /\ FreedOK

----------------------------------------------------------------------------
(* Who shares a WeakRefCounter.                                            *)

LEMMA WptrSets ==
    ASSUME NEW S, S \subseteq Wptrs
    PROVE  IsFiniteSet(S) /\ Cardinality(S) \in Nat /\ (Cardinality(S) = 0 <=> S = {})
BY PtrsFinite, FS_Subset, FS_CardinalityType, FS_EmptySet

LEMMA SptrSets ==
    ASSUME NEW S, S \subseteq Sptrs
    PROVE  IsFiniteSet(S) /\ Cardinality(S) \in Nat /\ (Cardinality(S) = 0 <=> S = {})
BY PtrsFinite, FS_Subset, FS_CardinalityType, FS_EmptySet

LEMMA InitShare == Init => ShareInv
<1> SUFFICES ASSUME Init
             PROVE  ShareInv
  OBVIOUS
<1>1. /\ \A p \in Ptrs : pc[p] = "null" /\ from[p] = None
      /\ \A w \in Wptrs : counter[w] = None /\ own[w] = 0
  BY DEF Init
<1>2. \A c \in Wptrs : Sharers(c) = {}
  BY <1>1 DEF Sharers, OwnShare
<1>3. OwnOK
  BY <1>1, <1>2, FS_EmptySet DEF OwnOK
<1> QED
  BY <1>1, <1>3 DEF ShareInv, ReadOK, NamedOK, AloneOK, Alone

(* A step of an sptr: no WeakRefCounter changes, and a pointer that is     *)
(* read stays held.                                                        *)
LEMMA SptrShare ==
    ASSUME TypeInv, ShareInv, NEW r \in Sptrs, NEW b,
           pc' = [pc EXCEPT ![r] = b], counter' = counter, own' = own,
           \A q \in Ptrs \ {r} : from'[q] = from[q],
           pc[r] = "held" => NotRead(r),
           b \in {"attLoad", "attWeak"} => from'[r] \in Wptrs /\ pc[from'[r]] = "held"
    PROVE  ShareInv'
<1>1. /\ \A q \in Ptrs : pc'[q] = IF q = r THEN b ELSE pc[q]
      /\ \A w \in Wptrs : w # r /\ pc'[w] = pc[w] /\ from'[w] = from[w]
  BY PtrsDistinct DEF TypeInv, TypeOK
<1>2. \A c \in Wptrs : Sharers(c)' = Sharers(c)
  BY <1>1 DEF Sharers
<1>3. OwnOK'
  BY <1>2 DEF ShareInv, OwnOK
<1>4. NamedOK' /\ AloneOK'
  BY <1>1 DEF ShareInv, NamedOK, AloneOK, Alone
<1>5. ReadOK'
  BY <1>1, PtrsDistinct DEF ShareInv, ReadOK, NotRead
<1> QED
  BY <1>3, <1>4, <1>5 DEF ShareInv

(* A step of a wptr that changes no WeakRefCounter's own count.            *)
LEMMA WptrShare ==
    ASSUME TypeInv, ShareInv, NEW w \in Wptrs, NEW b,
           pc' = [pc EXCEPT ![w] = b], counter' = counter, own' = own,
           \A q \in Ptrs \ {w} : from'[q] = from[q],
           pc[w] # "null", b # "null", pc[w] = "held" => NotRead(w),
           pc[w] \in OwnShare <=> b \in OwnShare,
           b # "ownAdd" \/ (from'[w] = from[w] /\ from[w] \in Sptrs /\ pc[from[w]] = "held"),
           b \in {"newRef", "newWeak"} => FALSE,
           b \in {"ownAdd", "delLoad", "delSub"} \cup CountLabels => Alone(w)
    PROVE  ShareInv'
<1>1. \A q \in Ptrs : pc'[q] = IF q = w THEN b ELSE pc[q]
  BY DEF TypeInv, TypeOK
<1>2. \A c \in Wptrs : Sharers(c)' = Sharers(c)
  BY <1>1 DEF Sharers
<1>3. OwnOK'
  BY <1>2 DEF ShareInv, OwnOK
<1>4. NamedOK'
  BY <1>1 DEF ShareInv, NamedOK
<1>5. AloneOK'
  BY <1>1 DEF ShareInv, AloneOK, Alone
<1>6. ReadOK'
  BY <1>1, PtrsDistinct DEF ShareInv, ReadOK, NotRead
<1> QED
  BY <1>3, <1>4, <1>5, <1>6 DEF ShareInv

LEMMA NewWeakShare ==
    ASSUME TypeInv, ShareInv, ~EarlyWeak, NEW w \in Wptrs, NewWeak(w)
    PROVE  ShareInv'
<1>1. PICK s \in Sptrs : pc[s] = "held" /\ from' = [from EXCEPT ![w] = s]
  BY DEF NewWeak, WeakSources, Held
<1>2. /\ \A q \in Ptrs : pc'[q] = IF q = w THEN "newRef" ELSE pc[q]
      /\ \A q \in Ptrs : from'[q] = IF q = w THEN s ELSE from[q]
      /\ \A v \in Wptrs : counter'[v] = IF v = w THEN w ELSE counter[v]
      /\ pc[w] = "null" /\ own' = own /\ \A v \in Wptrs : counter[v] # w
  BY <1>1, PtrsDistinct DEF NewWeak, Go, Free, counts, TypeInv, TypeOK
<1>3. \A c \in Wptrs : Sharers(c)' = Sharers(c)
  BY <1>2 DEF Sharers, OwnShare
<1>4. OwnOK'
  BY <1>2, <1>3 DEF ShareInv, OwnOK
<1>5. NamedOK'
  BY <1>2, PtrsDistinct DEF ShareInv, NamedOK
<1>6. AloneOK'
  BY <1>2 DEF ShareInv, AloneOK, Alone
<1>7. ReadOK'
  BY <1>1, <1>2, PtrsDistinct DEF ShareInv, ReadOK
<1> QED
  BY <1>4, <1>5, <1>6, <1>7 DEF ShareInv

LEMMA CopyWeakShare ==
    ASSUME TypeInv, ShareInv, NEW w \in Wptrs, NEW v \in Wptrs, CopyWeak(w, v)
    PROVE  ShareInv'
<1>1. /\ \A q \in Ptrs : pc'[q] = IF q = w THEN "ownAdd" ELSE pc[q]
      /\ \A q \in Ptrs : from'[q] = IF q = w THEN v ELSE from[q]
      /\ \A u \in Wptrs : counter'[u] = IF u = w THEN counter[v] ELSE counter[u]
      /\ pc[w] = "null" /\ pc[v] = "held" /\ own' = own /\ counter[v] # None /\ v # w
  BY DEF CopyWeak, Go, Free, Held, counts, TypeInv, TypeOK, ShareInv, NamedOK
<1>2. \A c \in Wptrs : Sharers(c)' = Sharers(c)
  BY <1>1 DEF Sharers, OwnShare
<1>3. OwnOK'
  BY <1>1, <1>2 DEF ShareInv, OwnOK
<1>4. NamedOK'
  BY <1>1 DEF ShareInv, NamedOK
<1>5. AloneOK'
  <2>1. ASSUME NEW u \in Wptrs, Alone(u)'
        PROVE  u # w /\ Alone(u) /\ u # v
    BY <1>1, <2>1, PtrsDistinct DEF Alone
  <2> QED
    BY <1>1, <2>1 DEF ShareInv, AloneOK
<1>6. ReadOK'
  BY <1>1, PtrsDistinct DEF ShareInv, ReadOK
<1> QED
  BY <1>3, <1>4, <1>5, <1>6 DEF ShareInv

(* A sharer that counts itself is the maker, alone, or finds those it      *)
(* copies from counted.                                                    *)
LEMMA AddShare ==
    ASSUME TypeInv, ShareInv, NEW w \in Wptrs, pc[w] = "ownAdd"
    PROVE  /\ counter[w] \in Wptrs /\ w \notin Sharers(counter[w])
           /\ own[counter[w]] = 0 <=> from[w] \in Sptrs
           /\ own[counter[w]] # 0 => \E v \in Wptrs : counter[v] = counter[w] /\ pc[v] = "held"
<1>1. counter[w] \in Wptrs
  BY DEF TypeInv, TypeOK, ShareInv, NamedOK
<1>2. w \notin Sharers(counter[w])
  BY DEF Sharers, OwnShare
<1>3. own[counter[w]] = 0 <=> Sharers(counter[w]) = {}
  BY <1>1, WptrSets DEF ShareInv, OwnOK, Sharers
<1>4. CASE from[w] \in Sptrs
  <2>1. \A v \in Wptrs \ {w} : counter[v] # counter[w]
    BY <1>4 DEF ShareInv, AloneOK, Alone
  <2>2. Sharers(counter[w]) = {}
    BY <1>2, <2>1 DEF Sharers
  <2> QED
    BY <1>1, <1>2, <1>3, <1>4, <2>2
<1>5. CASE from[w] \notin Sptrs
  <2>1. from[w] \in Wptrs /\ counter[from[w]] = counter[w] /\ pc[from[w]] = "held"
    BY <1>5 DEF ShareInv, ReadOK
  <2>2. from[w] \in Sharers(counter[w])
    BY <2>1 DEF Sharers, OwnShare
  <2> QED
    BY <1>1, <1>2, <1>3, <1>5, <2>1, <2>2
<1> QED
  BY <1>4, <1>5

LEMMA OwnAddShare ==
    ASSUME TypeInv, ShareInv, NEW w \in Wptrs, OwnAdd(w)
    PROVE  ShareInv'
<1> DEFINE c == counter[w]
           b == IF own[c] = 0 THEN "newWeak" ELSE "held"
<1>1. /\ pc[w] = "ownAdd" /\ c \in Wptrs /\ w \notin Sharers(c)
      /\ own[c] = 0 <=> from[w] \in Sptrs
  BY AddShare DEF OwnAdd
<1>2. /\ \A q \in Ptrs : pc'[q] = IF q = w THEN b ELSE pc[q]
      /\ \A q \in Ptrs : from'[q] = IF q = w /\ own[c] # 0 THEN None ELSE from[q]
      /\ counter' = counter
  BY DEF OwnAdd, Go, TypeInv, TypeOK
<1>3. own' = [own EXCEPT ![c] = @ + 1]
  BY DEF OwnAdd
<1>4. \A d \in Wptrs : own'[d] = IF d = c THEN own[c] + 1 ELSE own[d]
  BY <1>1, <1>3 DEF TypeInv, TypeOK
<1>5. \A d \in Wptrs : Sharers(d)' = IF d = c THEN Sharers(c) \cup {w} ELSE Sharers(d)
  BY <1>1, <1>2 DEF Sharers, OwnShare
<1>6. Cardinality(Sharers(c) \cup {w}) = Cardinality(Sharers(c)) + 1
  <2>1. IsFiniteSet(Sharers(c))
    BY WptrSets DEF Sharers
  <2> QED
    BY <1>1, <2>1, FS_AddElement
<1>7. OwnOK'
  BY <1>1, <1>4, <1>5, <1>6 DEF ShareInv, OwnOK
<1>8. NamedOK'
  BY <1>1, <1>2 DEF ShareInv, NamedOK
<1>9. AloneOK'
  <2>1. ASSUME NEW u \in Wptrs, Alone(u)'
        PROVE  Alone(u)
    BY <1>1, <1>2, <2>1, PtrsDistinct DEF Alone
  <2> QED
    BY <1>2, <2>1 DEF ShareInv, AloneOK
<1>10. ReadOK'
  BY <1>1, <1>2, PtrsDistinct DEF ShareInv, ReadOK
<1> QED
  BY <1>7, <1>8, <1>9, <1>10 DEF ShareInv

(* The last sharer to let go is alone, and others leave the rest counted.  *)
LEMMA SubShare ==
    ASSUME TypeInv, ShareInv, NEW w \in Wptrs, pc[w] = "ownSub"
    PROVE  /\ counter[w] \in Wptrs /\ w \in Sharers(counter[w])
           /\ own[counter[w]] = 1 => \A v \in Wptrs \ {w} : counter[v] # counter[w]
           /\ own[counter[w]] # 1 =>
                 \E v \in Wptrs \ {w} : counter[v] = counter[w] /\ pc[v] \in {"held", "ownSub"}
<1> DEFINE c == counter[w]
<1>1. c \in Wptrs /\ w \in Sharers(c)
  BY DEF TypeInv, TypeOK, ShareInv, NamedOK, Sharers, OwnShare
<1>2. /\ IsFiniteSet(Sharers(c)) /\ Cardinality(Sharers(c) \ {w}) = Cardinality(Sharers(c)) - 1
      /\ own[c] = Cardinality(Sharers(c)) /\ own[c] \in Int
  <2>1. IsFiniteSet(Sharers(c))
    BY WptrSets DEF Sharers
  <2> QED
    BY <1>1, <2>1, FS_RemoveElement DEF ShareInv, OwnOK, TypeInv, TypeOK
<1>3. Cardinality(Sharers(c) \ {w}) \in Nat /\ (own[c] = 1 <=> Sharers(c) \ {w} = {})
  <2>1. Sharers(c) \ {w} \subseteq Wptrs
    BY DEF Sharers
  <2> QED
    BY <1>2, <2>1, WptrSets
<1>4. ASSUME own[c] = 1, NEW v \in Wptrs \ {w}, counter[v] = c
      PROVE  FALSE
  <2>1. pc[v] \in WptrLabels \ ({"null"} \cup OwnShare)
    BY <1>1, <1>3, <1>4, PtrsDistinct DEF TypeInv, TypeOK, ShareInv, NamedOK, Sharers
  <2>2. ~Alone(v)
    BY <1>4 DEF ShareInv, AloneOK
  <2>3. pc[v] = "ownAdd" /\ from[v] \notin Sptrs
    BY <2>1, <2>2 DEF Alone, OwnShare
  <2>4. from[v] \in Wptrs /\ counter[from[v]] = c /\ pc[from[v]] = "held"
    BY <1>4, <2>3 DEF ShareInv, ReadOK
  <2>5. from[v] \in Sharers(c) \ {w}
    BY <2>4 DEF Sharers, OwnShare
  <2> QED
    BY <1>3, <1>4, <2>5
<1>5. ASSUME own[c] # 1
      PROVE  \E v \in Wptrs \ {w} : counter[v] = c /\ pc[v] \in {"held", "ownSub"}
  <2>1. PICK v \in Sharers(c) \ {w} : TRUE
    BY <1>3, <1>5
  <2>2. ~Alone(v)
    BY <2>1 DEF ShareInv, AloneOK, Sharers
  <2> QED
    BY <2>1, <2>2 DEF Sharers, OwnShare, Alone
<1> QED
  BY <1>1, <1>4, <1>5

LEMMA OwnSubShare ==
    ASSUME TypeInv, ShareInv, NEW w \in Wptrs, OwnSub(w)
    PROVE  ShareInv'
<1> DEFINE c == counter[w]
           last == own[c] = 1
<1>1. /\ pc[w] = "ownSub" /\ c \in Wptrs /\ w \in Sharers(c)
      /\ last => \A v \in Wptrs \ {w} : counter[v] # c
  BY SubShare DEF OwnSub
<1>2. /\ \A q \in Ptrs : pc'[q] = IF q = w THEN (IF last THEN "weakLoad" ELSE "null") ELSE pc[q]
      /\ \A v \in Wptrs : counter'[v] = IF v = w /\ ~last THEN None ELSE counter[v]
      /\ from' = from
  BY DEF OwnSub, Go, TypeInv, TypeOK
<1>3. own' = [own EXCEPT ![c] = @ - 1]
  BY DEF OwnSub
<1>4. \A d \in Wptrs : own'[d] = IF d = c THEN own[c] - 1 ELSE own[d]
  BY <1>1, <1>3 DEF TypeInv, TypeOK
<1>5. \A d \in Wptrs : Sharers(d)' = IF d = c THEN Sharers(c) \ {w} ELSE Sharers(d)
  BY <1>1, <1>2, PtrsDistinct DEF Sharers, OwnShare
<1>6. Cardinality(Sharers(c) \ {w}) = Cardinality(Sharers(c)) - 1
  <2>1. IsFiniteSet(Sharers(c))
    BY WptrSets DEF Sharers
  <2> QED
    BY <1>1, <2>1, FS_RemoveElement
<1>7. OwnOK'
  BY <1>1, <1>4, <1>5, <1>6 DEF ShareInv, OwnOK
<1>8. NamedOK'
  BY <1>1, <1>2, PtrsDistinct DEF ShareInv, NamedOK
<1>9. AloneOK'
  <2>1. ASSUME NEW u \in Wptrs, Alone(u)', u # w
        PROVE  \A v \in Wptrs \ {u} : counter'[v] # counter'[u]
    <3>1. Alone(u) /\ counter'[u] = counter[u] /\ counter[u] # None
      BY <1>2, <2>1 DEF Alone, ShareInv, NamedOK
    <3> QED
      BY <1>2, <3>1 DEF ShareInv, AloneOK
  <2>2. ASSUME Alone(w)'
        PROVE  \A v \in Wptrs \ {w} : counter'[v] # counter'[w]
    BY <1>1, <1>2, <2>2 DEF Alone
  <2> QED
    BY <2>1, <2>2 DEF AloneOK
<1>10. ReadOK'
  BY <1>1, <1>2, PtrsDistinct DEF ShareInv, ReadOK
<1> QED
  BY <1>7, <1>8, <1>9, <1>10 DEF ShareInv

(* The WeakRefCounter is deleted.                                          *)
LEMMA DelShare ==
    ASSUME TypeInv, ShareInv, NEW w \in Wptrs, pc[w] \in {"delLoad", "delSub"},
           pc' = [pc EXCEPT ![w] = "null"], counter' = [counter EXCEPT ![w] = None],
           own' = own, from' = from
    PROVE  ShareInv'
<1>1. /\ \A q \in Ptrs : pc'[q] = IF q = w THEN "null" ELSE pc[q]
      /\ \A v \in Wptrs : counter'[v] = IF v = w THEN None ELSE counter[v]
  BY DEF TypeInv, TypeOK
<1>2. \A c \in Wptrs : Sharers(c)' = Sharers(c)
  BY <1>1, PtrsDistinct DEF Sharers, OwnShare
<1>3. OwnOK' /\ NamedOK'
  BY <1>1, <1>2 DEF ShareInv, OwnOK, NamedOK
<1>4. AloneOK'
  <2>1. ASSUME NEW u \in Wptrs, Alone(u)'
        PROVE  Alone(u) /\ u # w /\ counter[u] # None
    BY <1>1, <2>1 DEF Alone, ShareInv, NamedOK
  <2> QED
    BY <1>1, <2>1 DEF ShareInv, AloneOK
<1>5. ReadOK'
  BY <1>1, PtrsDistinct DEF ShareInv, ReadOK
<1> QED
  BY <1>3, <1>4, <1>5 DEF ShareInv

(* What an sptr's step does to the variables that pointers share.          *)
LEMMA StrongFrame ==
    ASSUME TypeInv, NEW r \in Sptrs, StrongStep(r)
    PROVE  /\ \E b \in SptrLabels \ {"null"} : pc' = [pc EXCEPT ![r] = b]
           /\ \A q \in Ptrs \ {r} : from'[q] = from[q]
           /\ counter' = counter /\ own' = own /\ refs' = refs /\ freed' = freed
           /\ pc[r] = "held" => NotRead(r)
<1>1. /\ pc' = pc \/ \E b \in SptrLabels \ {"null"} : pc' = [pc EXCEPT ![r] = b]
      /\ pc[r] = "held" => NotRead(r)
      /\ counter' = counter /\ own' = own /\ refs' = refs /\ freed' = freed
      /\ pc' = pc => pc[r] # "null"
  <2> USE DEF Go, Free, Held, counts
  <2>1. CASE CopyStrong(r) \/ IncWeak(r) \/ IncLoad(r) \/ IncAdd(r) \/ IncFix(r)
    BY <2>1 DEF CopyStrong, IncWeak, IncLoad, IncAdd, IncFix, TypeInv, TypeOK
  <2>2. CASE \E w \in Wptrs : Promote(r, w)
    BY <2>2 DEF Promote, TypeInv, TypeOK
  <2>3. CASE AttLoad(r) \/ AttWeak(r) \/ AttSwap(r) \/ AttReload(r) \/ AttFail(r)
    BY <2>3 DEF AttLoad, AttWeak, AttSwap, AttReload, AttFail, TypeInv, TypeOK
  <2>4. CASE DropStrong(r) \/ DecLoad(r) \/ DecSub(r) \/ DecCall(r)
    BY <2>4 DEF DropStrong, DecLoad, DecSub, DecCall, TypeInv, TypeOK
  <2> QED
    BY <2>1, <2>2, <2>3, <2>4 DEF StrongStep
<1>2. from' = from \/ \E s : from' = [from EXCEPT ![r] = s]
  BY DEF StrongStep, CopyStrong, IncWeak, IncLoad, IncAdd, IncFix, Promote, AttLoad, AttWeak, AttSwap,
     AttReload, AttFail, DropStrong, DecLoad, DecSub, DecCall
<1>3. \A q \in Ptrs \ {r} : from'[q] = from[q]
  BY <1>2 DEF TypeInv, TypeOK
<1>4. \E b \in SptrLabels \ {"null"} : pc' = [pc EXCEPT ![r] = b]
  <2>1. CASE pc' = pc
    <3>1. pc[r] \in SptrLabels \ {"null"} /\ pc' = [pc EXCEPT ![r] = pc[r]]
      BY <1>1, <2>1 DEF TypeInv, TypeOK
    <3> QED
      BY <3>1
  <2> QED
    BY <1>1, <2>1
<1> QED
  BY <1>1, <1>3, <1>4

LEMMA StrongShares ==
    ASSUME TypeInv, ShareInv, NEW r \in Sptrs, StrongStep(r)
    PROVE  ShareInv'
<1>1. PICK b \in SptrLabels : pc' = [pc EXCEPT ![r] = b]
  BY StrongFrame
<1>2. b \in {"attLoad", "attWeak"} => from'[r] \in Wptrs /\ pc[from'[r]] = "held"
  <2>1. pc'[r] = b
    BY <1>1 DEF TypeInv, TypeOK
  <2>2. CASE \E w \in Wptrs : Promote(r, w)
    BY <2>2 DEF Promote, Held, TypeInv, TypeOK
  <2>3. CASE AttLoad(r)
    BY <2>3 DEF AttLoad, ShareInv, ReadOK
  <2>4. CASE AttReload(r)
    BY <2>1, <2>4 DEF AttReload
  <2>5. CASE pc'[r] \notin {"attLoad", "attWeak"}
    BY <2>1, <2>5
  <2> QED
    BY <2>2, <2>3, <2>4, <2>5 DEF StrongStep, CopyStrong, IncWeak, IncLoad, IncAdd, IncFix, AttWeak,
       AttSwap, AttFail, DropStrong, DecLoad, DecSub, DecCall, Go, TypeInv, TypeOK
<1> QED
  BY <1>1, <1>2, StrongFrame, SptrShare

LEMMA WeakShares ==
    ASSUME TypeInv, ShareInv, ~EarlyWeak, NEW w \in Wptrs, WeakStep(w)
    PROVE  ShareInv'
<1>1. w \in Ptrs
  OBVIOUS
<1>2. CASE NewRef(w)
  BY <1>2, WptrShare DEF NewRef, Go, ShareInv, ReadOK, Alone, OwnShare
<1>3. CASE NewWeakCount(w)
  <2>1. \A q \in Ptrs \ {w} : from'[q] = from[q]
    BY <1>3 DEF NewWeakCount, TypeInv, TypeOK
  <2> QED
    BY <1>3, <2>1, WptrShare DEF NewWeakCount, Go, OwnShare
<1>4. CASE DropWeak(w)
  BY <1>4, WptrShare DEF DropWeak, Go, OwnShare, Held, counts
<1>5. CASE DelLoad(w)
  <2>1. CASE refs > 0
    BY <1>5, <2>1, WptrShare DEF DelLoad, Go, OwnShare, counts, Alone
  <2>2. CASE ~(refs > 0)
    BY <1>5, <2>2, DelShare DEF DelLoad, Go, counts
  <2> QED
    BY <2>1, <2>2
<1>6. CASE DelSub(w)
  BY <1>6, DelShare DEF DelSub, Go
<1> QED
  BY <1>2, <1>3, <1>4, <1>5, <1>6, NewWeakShare, CopyWeakShare, OwnAddShare, OwnSubShare DEF WeakStep

(* What a step that gives up a count does to the shared variables.         *)
LEMMA CountFrame ==
    ASSUME TypeInv, NEW p \in Ptrs, CountStep(p)
    PROVE  /\ pc[p] \in CountLabels /\ counter' = counter /\ own' = own
           /\ \E b \in CountLabels \cup {AfterWeak(p)} : pc' = [pc EXCEPT ![p] = b]
           /\ \A q \in Ptrs \ {p} : from'[q] = from[q]
<1>1. PICK b \in CountLabels \cup {AfterWeak(p)} : Leave(p, b)
  BY DEF CountStep, WeakLoad, WeakSub, WeakLast, RefLoad, RefSub
<1>2. pc' = [pc EXCEPT ![p] = b] /\ \A q \in Ptrs \ {p} : from'[q] = from[q]
  BY <1>1 DEF Leave, Go, TypeInv, TypeOK
<1> QED
  BY <1>2 DEF CountStep, WeakLoad, WeakSub, WeakLast, RefLoad, RefSub, counts

LEMMA CountShares ==
    ASSUME TypeInv, ShareInv, NEW p \in Ptrs, CountStep(p)
    PROVE  ShareInv'
<1>1. PICK b \in CountLabels \cup {AfterWeak(p)} : pc' = [pc EXCEPT ![p] = b]
  BY CountFrame
<1>2. pc[p] \in CountLabels /\ counter' = counter /\ own' = own
      /\ \A q \in Ptrs \ {p} : from'[q] = from[q]
  BY CountFrame
<1>3. CASE p \in Sptrs
  BY <1>1, <1>2, <1>3, SptrShare DEF AfterWeak
<1>4. CASE p \in Wptrs
  BY <1>1, <1>2, <1>4, WptrShare, PtrsDistinct DEF AfterWeak, Alone, OwnShare
<1> QED
  BY <1>3, <1>4

LEMMA StepShare == ~EarlyWeak /\ TypeInv /\ ShareInv /\ [Next]_vars => ShareInv'
<1> SUFFICES ASSUME ~EarlyWeak, TypeInv, ShareInv, [Next]_vars
             PROVE  ShareInv'
  OBVIOUS
<1>1. CASE Next
  BY <1>1, StrongShares, WeakShares, CountShares DEF Next
<1>2. CASE UNCHANGED vars
  BY <1>2 DEF vars, counts, ShareInv, ReadOK, NamedOK, AloneOK, Alone, OwnOK, Sharers
<1> QED
  BY <1>1, <1>2

----------------------------------------------------------------------------
(* What the RefCounter counts.                                             *)

LEMMA UserSets ==
    /\ Cardinality(StrongUsers) \in Nat /\ (Cardinality(StrongUsers) = 0 <=> StrongUsers = {})
    /\ Cardinality(Registered) \in Nat /\ (Cardinality(Registered) = 0 <=> Registered = {})
    /\ Cardinality(Referring) \in Nat /\ (Cardinality(Referring) = 0 <=> Referring = {})
    /\ IsFiniteSet(StrongUsers) /\ IsFiniteSet(Registered) /\ IsFiniteSet(Referring)
<1>1. StrongUsers \subseteq Sptrs /\ Registered \subseteq Wptrs /\ Referring \subseteq Wptrs
  BY DEF StrongUsers, Registered, Referring
<1> QED
  BY <1>1, WptrSets, SptrSets

(* Whoever has a share of atomicWeak_ is in its count.                     *)
LEMMA ShareCounts ==
    ASSUME TypeInv, ShareInv, CountsInv
    PROVE  /\ weak \in Nat /\ refs \in Nat
           /\ \A r \in Sptrs : pc[r] \in StrongShare => weak > 0
           /\ \A w \in Wptrs : pc[w] \in WeakShare => weak > 0
           /\ \A w \in Wptrs : pc[w] \notin {"null", "newRef"} => refs > 0
           /\ Kept => refs > 0
<1>1. /\ weak = Cardinality(StrongUsers) + Cardinality(Registered)
      /\ refs = Cardinality(Referring) + IF Kept THEN 1 ELSE 0
  BY DEF CountsInv, WeakOK, RefsOK
<1>2. weak \in Nat /\ refs \in Nat /\ (Kept => refs > 0)
  BY <1>1, UserSets
<1>3. ASSUME NEW r \in Sptrs, pc[r] \in StrongShare
      PROVE  weak > 0
  <2>1. StrongUsers # {}
    BY <1>3 DEF StrongUsers
  <2> QED
    BY <1>1, <2>1, UserSets
<1>4. \A w \in Wptrs : pc[w] # "null" => counter[w] \in Wptrs
  BY DEF TypeInv, TypeOK, ShareInv, NamedOK
<1>5. ASSUME NEW w \in Wptrs, pc[w] \in WeakShare
      PROVE  weak > 0
  <2>1. Registered # {}
    BY <1>4, <1>5 DEF Registered, WeakShare
  <2> QED
    BY <1>1, <2>1, UserSets
<1>6. ASSUME NEW w \in Wptrs, pc[w] \notin {"null", "newRef"}
      PROVE  refs > 0
  <2>1. Referring # {}
    BY <1>4, <1>6 DEF Referring
  <2> QED
    BY <1>1, <2>1, UserSets
<1> QED
  BY <1>2, <1>3, <1>5, <1>6

LEMMA InitCounts == Init => CountsInv
<1> SUFFICES ASSUME Init
             PROVE  CountsInv
  OBVIOUS
<1>1. /\ \A p \in Ptrs : pc[p] = "null"
      /\ weak = 0 /\ refs = 1 /\ fresh /\ ~freed
  BY DEF Init
<1>2. StrongUsers = {} /\ Registered = {} /\ Referring = {} /\ Givers = {}
  <2>1. \A w \in Wptrs : counter[w] = None
    BY DEF Init
  <2> QED
    BY <1>1, <2>1, PtrsDistinct DEF StrongUsers, StrongShare, Registered, WeakShare, Referring, Givers,
       GiveLabels, At
<1> QED
  BY <1>1, <1>2, FS_EmptySet DEF CountsInv, WeakOK, GiverOK, RefsOK, FreedOK, Kept

(* Nothing can be done with a RefCounter that is deleted.                  *)
LEMMA FreedStops ==
    ASSUME TypeInv, CountsInv, freed, Next
    PROVE  FALSE
<1>1. ~fresh /\ \A p \in Ptrs : pc[p] = "null"
  BY DEF CountsInv, FreedOK
<1>2. \A r \in Sptrs : ~StrongStep(r)
  BY <1>1 DEF StrongStep, CopyStrong, StrongSources, IncWeak, IncLoad, IncAdd, IncFix, Promote,
     AttLoad, AttWeak, AttSwap, AttReload, AttFail, DropStrong, DecLoad, DecSub, DecCall, Held
<1>3. \A w \in Wptrs : ~WeakStep(w)
  BY <1>1 DEF WeakStep, NewWeak, WeakSources, NewRef, OwnAdd, NewWeakCount, CopyWeak, DropWeak,
     OwnSub, DelLoad, DelSub, Held
<1>4. \A p \in Ptrs : ~CountStep(p)
  BY <1>1 DEF CountStep, WeakLoad, WeakSub, WeakLast, RefLoad, RefSub
<1> QED
  BY <1>2, <1>3, <1>4 DEF Next

(* Steps that change no count.                                             *)
LEMMA QuietCounts ==
    ASSUME CountsInv, ~freed, StrongUsers' = StrongUsers, Registered' = Registered,
           Referring' = Referring, Givers' = Givers, Kept' <=> Kept,
           weak' = weak, refs' = refs, freed' = freed
    PROVE  CountsInv'
BY DEF CountsInv, WeakOK, GiverOK, RefsOK, FreedOK

(* How the sets follow a step of an sptr, and of a wptr that keeps or      *)
(* alone has its WeakRefCounter.                                           *)
LEMMA SptrMoves ==
    ASSUME TypeInv, NEW r \in Sptrs, NEW b, pc' = [pc EXCEPT ![r] = b], counter' = counter
    PROVE  /\ Registered' = Registered /\ Referring' = Referring
           /\ (pc[r] \in StrongShare <=> b \in StrongShare) => StrongUsers' = StrongUsers
           /\ b \in StrongShare => StrongUsers' = StrongUsers \cup {r}
           /\ b \notin StrongShare => StrongUsers' = StrongUsers \ {r}
           /\ r \in StrongUsers <=> pc[r] \in StrongShare
<1>1. \A q \in Ptrs : pc'[q] = IF q = r THEN b ELSE pc[q]
  BY DEF TypeInv, TypeOK
<1>2. Registered' = Registered /\ Referring' = Referring
  BY <1>1, PtrsDistinct DEF Registered, Referring
<1>3. (pc[r] \in StrongShare <=> b \in StrongShare) => StrongUsers' = StrongUsers
  BY <1>1 DEF StrongUsers
<1>4. b \in StrongShare => StrongUsers' = StrongUsers \cup {r}
  BY <1>1 DEF StrongUsers
<1>5. b \notin StrongShare => StrongUsers' = StrongUsers \ {r}
  BY <1>1 DEF StrongUsers
<1> QED
  BY <1>2, <1>3, <1>4, <1>5 DEF StrongUsers

LEMMA WptrMoves ==
    ASSUME TypeInv, NEW w \in Wptrs, NEW b, pc' = [pc EXCEPT ![w] = b]
    PROVE  StrongUsers' = StrongUsers
BY PtrsDistinct DEF StrongUsers, TypeInv, TypeOK

LEMMA GiverMoves ==
    ASSUME TypeInv, NEW p \in Ptrs, NEW b, pc' = [pc EXCEPT ![p] = b]
    PROVE  /\ (pc[p] \in GiveLabels <=> b \in GiveLabels) => Givers' = Givers
           /\ (pc[p] = "incWeak" <=> b = "incWeak") => First' = First
           /\ b \in GiveLabels => Givers' = Givers \cup {p}
           /\ b \notin GiveLabels => Givers' = Givers \ {p}
           /\ b = "incWeak" => p \in First'
           /\ pc[p] = "incWeak" => p \in First
           /\ p \in Givers <=> pc[p] \in GiveLabels
<1>1. \A q \in Ptrs : pc'[q] = IF q = p THEN b ELSE pc[q]
  BY DEF TypeInv, TypeOK
<1>2. /\ (pc[p] \in GiveLabels <=> b \in GiveLabels) => Givers' = Givers
      /\ (pc[p] = "incWeak" <=> b = "incWeak") => First' = First
  BY <1>1 DEF GiveLabels, Givers, First, At
<1>3. b \in GiveLabels => Givers' = Givers \cup {p}
  BY <1>1 DEF GiveLabels, Givers, At
<1>4. b \notin GiveLabels => Givers' = Givers \ {p}
  BY <1>1 DEF GiveLabels, Givers, At
<1> QED
  BY <1>1, <1>2, <1>3, <1>4 DEF GiveLabels, Givers, First, At

LEMMA RegisteredMoves ==
    ASSUME TypeInv, ShareInv, NEW w \in Wptrs, NEW b, pc' = [pc EXCEPT ![w] = b],
           counter' = counter, pc[w] # "null"
    PROVE  /\ b # "newRef" => Referring' = Referring \cup {counter[w]}
           /\ b # "newRef" /\ pc[w] # "newRef" => Referring' = Referring
           /\ b \in WeakShare => Registered' = Registered \cup {counter[w]}
           /\ (pc[w] \in WeakShare <=> b \in WeakShare) => Registered' = Registered
           /\ b \notin WeakShare /\ Alone(w) => Registered' = Registered \ {counter[w]}
<1>1. \A q \in Ptrs : pc'[q] = IF q = w THEN b ELSE pc[q]
  BY DEF TypeInv, TypeOK
<1>2. counter[w] \in Wptrs
  BY DEF TypeInv, TypeOK, ShareInv, NamedOK
<1>3. b # "newRef" => Referring' = Referring \cup {counter[w]}
  BY <1>1, <1>2 DEF Referring
<1>4. b # "newRef" /\ pc[w] # "newRef" => Referring' = Referring
  BY <1>1, <1>2 DEF Referring
<1>5. b \in WeakShare => Registered' = Registered \cup {counter[w]}
  BY <1>1, <1>2 DEF Registered
<1>6. (pc[w] \in WeakShare <=> b \in WeakShare) => Registered' = Registered
  BY <1>1 DEF Registered
<1>7. b \notin WeakShare /\ Alone(w) => Registered' = Registered \ {counter[w]}
  BY <1>1 DEF Registered, ShareInv, AloneOK
<1> QED
  BY <1>3, <1>4, <1>5, <1>6, <1>7

(* Whether w's WeakRefCounter is counted.                                  *)
LEMMA RegisteredNow ==
    ASSUME TypeInv, ShareInv, NEW w \in Wptrs, pc[w] # "null"
    PROVE  /\ counter[w] \in Wptrs
           /\ pc[w] # "newRef" => counter[w] \in Referring
           /\ pc[w] = "newRef" => counter[w] \notin Referring
           /\ pc[w] \in WeakShare => counter[w] \in Registered
           /\ pc[w] = "newWeak" => counter[w] \notin Registered
<1>1. counter[w] \in Wptrs
  BY DEF TypeInv, TypeOK, ShareInv, NamedOK
<1>2. pc[w] \in {"newRef", "newWeak"} => \A v \in Wptrs \ {w} : counter[v] # counter[w]
  BY DEF ShareInv, AloneOK, Alone
<1> QED
  BY <1>1, <1>2 DEF Referring, Registered, WeakShare

(* While somebody has begun to count itself in atomicWeak_, nobody has     *)
(* taken the last count out of it.                                         *)
LEMMA ReadCounts ==
    ASSUME TypeInv, ObjectInv, ShareInv, CountsInv
    PROVE  /\ \A r \in Sptrs : pc[r] = "incWeak" => Givers = {}
           /\ \A r \in Sptrs : pc[r] \in {"attLoad", "attWeak"} => weak > 0
           /\ \A w \in Wptrs : pc[w] \in {"newRef", "newWeak"} => weak > 0
           /\ weak > 0 => Givers = {}
           /\ \A p \in Ptrs : fresh => pc[p] = "null"
<1>1. weak > 0 => Givers = {}
  BY DEF CountsInv, GiverOK
<1>2. ASSUME NEW p \in Ptrs, pc[p] = "held"
      PROVE  weak > 0
  BY <1>2, ShareCounts DEF StrongShare, WeakShare
<1>3. ASSUME NEW r \in Sptrs, pc[r] = "incWeak"
      PROVE  Givers = {}
  <2>1. CASE from[r] = This
    <3>1. \A q \in Ptrs \ {r} : pc[q] = "null"
      BY <2>1 DEF ObjectInv, FirstOK
    <3> QED
      BY <1>3, <3>1 DEF Givers, GiveLabels, At
  <2>2. CASE from[r] # This
    <3>1. from[r] \in Sptrs /\ pc[from[r]] = "held"
      BY <1>3, <2>2 DEF ObjectInv, CopyOK, Taking
    <3> QED
      BY <1>1, <1>2, <3>1
  <2> QED
    BY <2>1, <2>2
<1>4. \A r \in Sptrs : pc[r] \in {"attLoad", "attWeak"} => weak > 0
  BY <1>2 DEF ShareInv, ReadOK
<1>5. \A w \in Wptrs : pc[w] \in {"newRef", "newWeak"} => weak > 0
  BY <1>2 DEF ShareInv, ReadOK
<1> QED
  BY <1>1, <1>3, <1>4, <1>5 DEF ObjectInv, FreshOK

LEMMA CopyCounts ==
    ASSUME TypeInv, ObjectInv, ShareInv, CountsInv, ~freed, NEW r \in Sptrs, CopyStrong(r)
    PROVE  CountsInv'
<1>1. /\ pc[r] = "null" /\ pc' = [pc EXCEPT ![r] = "incWeak"]
      /\ counter' = counter /\ weak' = weak /\ refs' = refs /\ freed' = freed
  BY DEF CopyStrong, Free, Go, counts
<1>2. /\ StrongUsers' = StrongUsers /\ Registered' = Registered /\ Referring' = Referring
      /\ Givers' = Givers /\ r \in First'
  BY <1>1, SptrMoves, GiverMoves DEF StrongShare, GiveLabels
<1>3. Kept
  <2>1. CASE fresh
    BY <2>1 DEF Kept
  <2>2. CASE ~fresh
    <3>1. \E s \in Sptrs : pc[s] = "held"
      BY <2>2 DEF CopyStrong, StrongSources, Held
    <3> QED
      BY <3>1, ShareCounts DEF Kept, StrongShare
  <2> QED
    BY <2>1, <2>2
<1> QED
  BY <1>1, <1>2, <1>3, QuietCounts DEF Kept

(* An sptr, or one that may become one, counts itself.                     *)
LEMMA RaiseCounts ==
    ASSUME TypeInv, ObjectInv, ShareInv, CountsInv, ~freed, NEW r \in Sptrs,
           IncWeak(r) \/ AttWeak(r)
    PROVE  CountsInv'
<1>1. /\ pc[r] \in {"incWeak", "attWeak"}
      /\ \E b \in {"incLoad", "attSwap"} : pc' = [pc EXCEPT ![r] = b]
      /\ counter' = counter /\ weak' = weak + 1 /\ refs' = refs /\ freed' = freed /\ fresh' = fresh
  BY DEF IncWeak, AttWeak, Go
<1>2. /\ StrongUsers' = StrongUsers \cup {r} /\ r \notin StrongUsers
      /\ Registered' = Registered /\ Referring' = Referring /\ Givers' = Givers \ {r}
  BY <1>1, SptrMoves, GiverMoves DEF StrongShare, GiveLabels
<1>3. Cardinality(StrongUsers') = Cardinality(StrongUsers) + 1
  BY <1>2, UserSets, FS_AddElement
<1>4. Givers = {} /\ Kept
  BY <1>1, ReadCounts, GiverMoves DEF Kept
<1>5. weak \in Nat
  BY ShareCounts
<1> QED
  BY <1>1, <1>2, <1>3, <1>4, <1>5, UserSets DEF CountsInv, WeakOK, GiverOK, RefsOK, FreedOK, Kept

LEMMA StrongCounts ==
    ASSUME TypeInv, ObjectInv, ShareInv, CountsInv, ~freed, NEW r \in Sptrs, StrongStep(r)
    PROVE  CountsInv'
<1>1. CASE CopyStrong(r) \/ IncWeak(r) \/ AttWeak(r)
  BY <1>1, CopyCounts, RaiseCounts
<1>2. CASE ~(CopyStrong(r) \/ IncWeak(r) \/ AttWeak(r))
  <2>1. PICK b \in SptrLabels : pc' = [pc EXCEPT ![r] = b]
    BY StrongFrame
  <2>2. counter' = counter /\ refs' = refs /\ freed' = freed
    BY StrongFrame
  <2>3. pc'[r] = b
    BY <2>1 DEF TypeInv, TypeOK
  <2>4. /\ weak' = weak /\ fresh' = fresh
        /\ pc[r] \in StrongShare <=> b \in StrongShare
        /\ {pc[r], b} \cap {"incWeak", "weakLast", "refLoad", "refSub"} = {}
    <3> USE DEF Go, Free, Held, counts, StrongShare
    <3>1. CASE IncLoad(r) \/ IncAdd(r) \/ IncFix(r)
      BY <2>3, <3>1 DEF IncLoad, IncAdd, IncFix, TypeInv, TypeOK
    <3>2. CASE \E w \in Wptrs : Promote(r, w)
      BY <2>3, <3>2 DEF Promote, TypeInv, TypeOK
    <3>3. CASE AttLoad(r) \/ AttSwap(r) \/ AttReload(r) \/ AttFail(r)
      BY <2>3, <3>3 DEF AttLoad, AttSwap, AttReload, AttFail, TypeInv, TypeOK
    <3>4. CASE DropStrong(r) \/ DecLoad(r) \/ DecSub(r) \/ DecCall(r)
      BY <2>3, <3>4 DEF DropStrong, DecLoad, DecSub, DecCall, TypeInv, TypeOK
    <3> QED
      BY <1>2, <3>1, <3>2, <3>3, <3>4 DEF StrongStep
  <2>5. /\ StrongUsers' = StrongUsers /\ Registered' = Registered /\ Referring' = Referring
        /\ Givers' = Givers /\ First' = First
    BY <2>1, <2>2, <2>4, SptrMoves, GiverMoves DEF GiveLabels
  <2> QED
    BY <2>2, <2>4, <2>5, QuietCounts DEF Kept
<1> QED
  BY <1>1, <1>2

----------------------------------------------------------------------------
(* When no count is left but p's own, everybody else has let go.           *)
LEMMA Deserted ==
    ASSUME TypeInv, ObjectInv, ShareInv, CountsInv, NEW p \in Ptrs, weak = 0,
           \A q \in Ptrs \ {p} : pc[q] \notin {"incWeak", "weakLast", "refLoad", "refSub"},
           \A w \in Wptrs \ {p} : pc[w] \in {"null", "newRef"}
    PROVE  \A q \in Ptrs \ {p} : pc[q] = "null"
<1>1. ASSUME NEW w \in Wptrs \ {p}
      PROVE  pc[w] = "null"
  BY ReadCounts
<1>2. ASSUME NEW r \in Sptrs \ {p}
      PROVE  pc[r] = "null"
  <2>1. pc[r] \notin StrongShare /\ pc[r] \notin {"attLoad", "attWeak"}
    BY ShareCounts, ReadCounts
  <2>2. pc[r] \in SptrLabels
    BY DEF TypeInv, TypeOK
  <2> QED
    BY <2>1, <2>2 DEF StrongShare
<1> QED
  BY <1>1, <1>2

(* Making a WeakRefCounter, and sharing one.                               *)
LEMMA MakeCounts ==
    ASSUME TypeInv, ObjectInv, ShareInv, CountsInv, ~freed, ~EarlyWeak, NEW w \in Wptrs,
           NewWeak(w) \/ \E v \in Wptrs : CopyWeak(w, v)
    PROVE  CountsInv'
<1>1. PICK b \in {"newRef", "ownAdd"} :
        /\ pc[w] = "null" /\ pc' = [pc EXCEPT ![w] = b]
        /\ weak' = weak /\ refs' = refs /\ freed' = freed /\ fresh' = fresh
        /\ \E c : counter' = [counter EXCEPT ![w] = c]
                  /\ (b = "ownAdd" => \E v \in Wptrs : pc[v] = "held" /\ c = counter[v])
  BY DEF NewWeak, CopyWeak, Free, Held, Go, counts
<1>2. PICK c : /\ counter' = [counter EXCEPT ![w] = c]
               /\ b = "ownAdd" => \E v \in Wptrs : pc[v] = "held" /\ c = counter[v]
  BY <1>1
<1>3. /\ \A q \in Ptrs : pc'[q] = IF q = w THEN b ELSE pc[q]
      /\ \A v \in Wptrs : counter'[v] = IF v = w THEN c ELSE counter[v]
      /\ counter[w] = None
  BY <1>1, <1>2 DEF TypeInv, TypeOK, ShareInv, NamedOK
<1>4. Registered' = Registered
  BY <1>3, PtrsDistinct DEF Registered, WeakShare
<1>5. Referring' = Referring
  BY <1>2, <1>3, PtrsDistinct DEF Referring
<1>6. StrongUsers' = StrongUsers /\ Givers' = Givers /\ First' = First
  BY <1>1, WptrMoves, GiverMoves DEF GiveLabels
<1> QED
  BY <1>1, <1>4, <1>5, <1>6, QuietCounts DEF Kept

LEMMA NewRefCounts ==
    ASSUME TypeInv, ObjectInv, ShareInv, CountsInv, ~freed, NEW w \in Wptrs, NewRef(w)
    PROVE  CountsInv'
<1>1. PICK b \in {"ownAdd"} :
        /\ pc[w] = "newRef" /\ pc' = [pc EXCEPT ![w] = b] /\ counter' = counter
        /\ refs' = refs + 1 /\ weak' = weak /\ fresh' = fresh /\ freed' = freed
  BY DEF NewRef, Go
<1>2. /\ Referring' = Referring \cup {counter[w]} /\ Registered' = Registered
      /\ counter[w] \notin Referring
  BY <1>1, RegisteredMoves, RegisteredNow DEF WeakShare
<1>3. StrongUsers' = StrongUsers /\ Givers' = Givers /\ First' = First
  BY <1>1, WptrMoves, GiverMoves DEF GiveLabels
<1>4. Cardinality(Referring') = Cardinality(Referring) + 1
  BY <1>2, UserSets, FS_AddElement
<1>5. Kept' <=> Kept
  BY <1>1, <1>3 DEF Kept
<1>6. refs \in Nat
  BY ShareCounts
<1>7. WeakOK' /\ GiverOK'
  BY <1>1, <1>2, <1>3 DEF CountsInv, WeakOK, GiverOK
<1>8. RefsOK'
  BY <1>1, <1>4, <1>5, UserSets DEF CountsInv, RefsOK
<1>9. FreedOK'
  BY <1>1, <1>6 DEF FreedOK
<1> QED
  BY <1>7, <1>8, <1>9 DEF CountsInv

LEMMA OwnAddCounts ==
    ASSUME TypeInv, ObjectInv, ShareInv, CountsInv, ~freed, NEW w \in Wptrs, OwnAdd(w)
    PROVE  CountsInv'
<1>1. PICK b \in {"newWeak", "held"} :
        /\ pc[w] = "ownAdd" /\ pc' = [pc EXCEPT ![w] = b] /\ counter' = counter
        /\ refs' = refs /\ weak' = weak /\ fresh' = fresh /\ freed' = freed
        /\ b = "held" => own[counter[w]] # 0
  BY DEF OwnAdd, Go
<1>2. b = "held" => counter[w] \in Registered
  BY <1>1, AddShare DEF Registered, WeakShare
<1>3. Referring' = Referring
  BY <1>1, RegisteredMoves
<1>4. Registered' = Registered
  <2>1. CASE b = "held"
    <3>1. Registered' = Registered \cup {counter[w]}
      BY <1>1, <2>1, RegisteredMoves DEF WeakShare
    <3> QED
      BY <1>2, <2>1, <3>1
  <2>2. CASE b = "newWeak"
    BY <1>1, <2>2, RegisteredMoves DEF WeakShare
  <2> QED
    BY <2>1, <2>2
<1>5. StrongUsers' = StrongUsers /\ Givers' = Givers /\ First' = First
  BY <1>1, WptrMoves, GiverMoves DEF GiveLabels
<1> QED
  BY <1>1, <1>3, <1>4, <1>5, QuietCounts DEF Kept

LEMMA NewWeakCounts ==
    ASSUME TypeInv, ObjectInv, ShareInv, CountsInv, ~freed, NEW w \in Wptrs, NewWeakCount(w)
    PROVE  CountsInv'
<1>1. PICK b \in {"held"} :
        /\ pc[w] = "newWeak" /\ pc' = [pc EXCEPT ![w] = b] /\ counter' = counter
        /\ refs' = refs /\ weak' = weak + 1 /\ fresh' = fresh /\ freed' = freed
  BY DEF NewWeakCount, Go
<1>2. counter[w] \in Referring /\ counter[w] \notin Registered
  BY <1>1, RegisteredNow
<1>3. Referring' = Referring /\ Registered' = Registered \cup {counter[w]}
  BY <1>1, RegisteredMoves DEF WeakShare
<1>4. StrongUsers' = StrongUsers /\ Givers' = Givers /\ First' = First
  BY <1>1, WptrMoves, GiverMoves DEF GiveLabels
<1>5. Cardinality(Registered') = Cardinality(Registered) + 1
  BY <1>2, <1>3, UserSets, FS_AddElement
<1>6. weak \in Nat /\ weak > 0 /\ Givers = {}
  BY <1>1, ShareCounts, ReadCounts
<1>7. Kept /\ Kept'
  BY <1>1, <1>6 DEF Kept
<1> QED
  BY <1>1, <1>3, <1>4, <1>5, <1>6, <1>7, UserSets DEF CountsInv, WeakOK, GiverOK, RefsOK, FreedOK

LEMMA DropCounts ==
    ASSUME TypeInv, ObjectInv, ShareInv, CountsInv, ~freed, NEW w \in Wptrs, DropWeak(w) \/ OwnSub(w)
    PROVE  CountsInv'
<1>1. PICK b \in {"ownSub", "weakLoad", "null"} :
        /\ pc[w] \in {"held", "ownSub"} /\ pc' = [pc EXCEPT ![w] = b]
        /\ refs' = refs /\ weak' = weak /\ fresh' = fresh /\ freed' = freed
        /\ b # "null" => counter' = counter
        /\ b = "null" => /\ pc[w] = "ownSub" /\ own[counter[w]] # 1
                         /\ counter' = [counter EXCEPT ![w] = None]
  BY DEF DropWeak, OwnSub, Go, Held, counts
<1>2. StrongUsers' = StrongUsers /\ Givers' = Givers /\ First' = First
  BY <1>1, WptrMoves, GiverMoves DEF GiveLabels
<1>3. CASE b # "null"
  <2>1. Referring' = Referring /\ Registered' = Registered
    BY <1>1, <1>3, RegisteredMoves DEF WeakShare
  <2> QED
    BY <1>1, <1>2, <2>1, QuietCounts DEF Kept
<1>4. CASE b = "null"
  <2>1. PICK v \in Wptrs \ {w} : counter[v] = counter[w] /\ pc[v] \in {"held", "ownSub"}
    BY <1>1, <1>4, SubShare
  <2>2. /\ \A q \in Ptrs : pc'[q] = IF q = w THEN "null" ELSE pc[q]
        /\ \A u \in Wptrs : counter'[u] = IF u = w THEN None ELSE counter[u]
    BY <1>1, <1>4 DEF TypeInv, TypeOK
  <2>3. Registered' = Registered
    BY <2>1, <2>2, PtrsDistinct DEF Registered, WeakShare
  <2>4. Referring' = Referring
    BY <2>1, <2>2, PtrsDistinct DEF Referring
  <2> QED
    BY <1>1, <1>2, <2>3, <2>4, QuietCounts DEF Kept
<1> QED
  BY <1>3, <1>4

LEMMA DelCounts ==
    ASSUME TypeInv, ObjectInv, ShareInv, CountsInv, ~freed, NEW w \in Wptrs, DelLoad(w) \/ DelSub(w)
    PROVE  CountsInv'
<1>1. CASE DelLoad(w)
  <2>1. refs > 0 /\ pc[w] = "delLoad"
    BY <1>1, ShareCounts DEF DelLoad
  <2>2. PICK b \in {"delSub"} :
          /\ pc' = [pc EXCEPT ![w] = b] /\ counter' = counter /\ refs' = refs
          /\ weak' = weak /\ fresh' = fresh /\ freed' = freed
    BY <1>1, <2>1 DEF DelLoad, Go, counts
  <2>3. Referring' = Referring /\ Registered' = Registered
    BY <2>1, <2>2, RegisteredMoves DEF WeakShare
  <2>4. StrongUsers' = StrongUsers /\ Givers' = Givers /\ First' = First
    BY <2>1, <2>2, WptrMoves, GiverMoves DEF GiveLabels
  <2> QED
    BY <2>2, <2>3, <2>4, QuietCounts DEF Kept
<1>2. CASE DelSub(w)
  <2>1. PICK b \in {"null"} :
          /\ pc[w] = "delSub" /\ pc' = [pc EXCEPT ![w] = b]
          /\ counter' = [counter EXCEPT ![w] = None] /\ refs' = refs - 1
          /\ weak' = weak /\ fresh' = fresh /\ freed' = (freed \/ refs = 1)
    BY <1>2 DEF DelSub, Go
  <2>2. /\ \A q \in Ptrs : pc'[q] = IF q = w THEN "null" ELSE pc[q]
        /\ \A u \in Wptrs : counter'[u] = IF u = w THEN None ELSE counter[u]
        /\ counter[w] \in Wptrs /\ \A v \in Wptrs \ {w} : counter[v] # counter[w]
    BY <2>1 DEF TypeInv, TypeOK, ShareInv, NamedOK, AloneOK, Alone
  <2>3. Registered' = Registered
    BY <2>1, <2>2, PtrsDistinct DEF Registered, WeakShare
  <2>4. Referring' = Referring \ {counter[w]} /\ counter[w] \in Referring
    BY <2>1, <2>2, PtrsDistinct DEF Referring
  <2>5. Cardinality(Referring') = Cardinality(Referring) - 1
    BY <2>4, UserSets, FS_RemoveElement
  <2>6. StrongUsers' = StrongUsers /\ Givers' = Givers /\ First' = First
    BY <2>1, WptrMoves, GiverMoves DEF GiveLabels
  <2>7. Kept' <=> Kept
    BY <2>1, <2>6 DEF Kept
  <2>8. refs = 1 => ~fresh' /\ \A p \in Ptrs : pc'[p] = "null"
    <3> SUFFICES ASSUME refs = 1
                 PROVE  ~fresh' /\ \A p \in Ptrs : pc'[p] = "null"
      OBVIOUS
    <3>1. ~Kept /\ Referring' = {}
      <4>1. Cardinality(Referring) # 0
        BY <2>4, UserSets
      <4>2. ~Kept /\ Cardinality(Referring) = 1
        BY <4>1, UserSets DEF CountsInv, RefsOK
      <4>3. Cardinality(Referring') = 0
        BY <2>5, <4>2
      <4>4. Cardinality(Referring \ {counter[w]}) = 0 => Referring \ {counter[w]} = {}
        BY WptrSets DEF Referring
      <4> QED
        BY <2>4, <4>2, <4>3, <4>4
    <3>2. weak \in Nat /\ weak = 0
      BY <3>1, ShareCounts DEF Kept
    <3>3. \A v \in Wptrs \ {w} : pc[v] \in {"null", "newRef"}
      <4>1. ASSUME NEW v \in Wptrs \ {w}, pc[v] \notin {"null", "newRef"}
            PROVE  counter[v] \in Referring \ {counter[w]}
        BY <2>2, <4>1 DEF Referring, TypeInv, TypeOK, ShareInv, NamedOK
      <4> QED
        BY <2>4, <3>1, <4>1
    <3>4. \A q \in Ptrs \ {w} : pc[q] \notin {"incWeak", "weakLast", "refLoad", "refSub"}
      BY <3>1 DEF Kept, Givers, GiveLabels, First, At
    <3>5. \A q \in Ptrs \ {w} : pc[q] = "null"
      BY <3>2, <3>3, <3>4, Deserted
    <3> QED
      BY <2>1, <2>2, <3>1, <3>5 DEF Kept
  <2>9. refs \in Nat
    BY ShareCounts
  <2>10. WeakOK' /\ GiverOK'
    BY <2>1, <2>3, <2>6 DEF CountsInv, WeakOK, GiverOK
  <2>11. RefsOK'
    BY <2>1, <2>5, <2>7, UserSets DEF CountsInv, RefsOK
  <2>12. freed' => refs = 1
    BY <2>1
  <2>13. refs = 1 => freed'
    BY <2>1
  <2>14. refs' = 0 => refs = 1
    BY <2>1, <2>9
  <2>15. FreedOK'
    BY <2>8, <2>12, <2>13, <2>14 DEF FreedOK
  <2> QED
    BY <2>10, <2>11, <2>15 DEF CountsInv
<1> QED
  BY <1>1, <1>2

----------------------------------------------------------------------------
(* Giving up counts.                                                       *)

(* The count that p has is there, so the test before it never fails.       *)
LEMMA LoadCounts ==
    ASSUME TypeInv, ObjectInv, ShareInv, CountsInv, ~freed, NEW p \in Ptrs,
           WeakLoad(p) \/ WeakLast(p) \/ RefLoad(p)
    PROVE  CountsInv'
<1>1. /\ counter' = counter /\ weak' = weak /\ refs' = refs /\ freed' = freed /\ fresh' = fresh
      /\ pc[p] \in {"weakLoad", "weakLast", "refLoad"}
  BY DEF WeakLoad, WeakLast, RefLoad, counts
<1>2. PICK b \in {"weakSub", "refLoad", "refSub"} :
        /\ pc' = [pc EXCEPT ![p] = b]
        /\ pc[p] = "weakLoad" <=> b = "weakSub"
  <2>1. CASE WeakLoad(p)
    <3>1. weak > 0
      BY <2>1, ShareCounts DEF WeakLoad, StrongShare, WeakShare
    <3> QED
      BY <2>1, <3>1 DEF WeakLoad, Leave, Go
  <2>2. CASE WeakLast(p)
    <3>1. Normal
      BY <1>1, <2>2 DEF WeakLast, Normal, ObjectInv, FreshOK, FirstOK, Creating, Taking
    <3>2. strong # Initial
      BY <3>1, NormalRest, InitialLarge
    <3> QED
      BY <2>2, <3>2 DEF WeakLast, Leave, Go
  <2>3. CASE RefLoad(p)
    <3>1. p \in Givers
      BY <2>3 DEF RefLoad, Givers, GiveLabels, At
    <3>2. refs > 0
      BY <3>1, ShareCounts DEF Kept
    <3> QED
      BY <2>3, <3>2 DEF RefLoad, Leave, Go
  <2> QED
    BY <2>1, <2>2, <2>3
<1>3. Givers' = Givers /\ First' = First
  BY <1>1, <1>2, GiverMoves DEF GiveLabels
<1>4. StrongUsers' = StrongUsers /\ Registered' = Registered /\ Referring' = Referring
  <2>1. CASE p \in Sptrs
    BY <1>1, <1>2, <2>1, SptrMoves DEF StrongShare
  <2>2. CASE p \in Wptrs
    BY <1>1, <1>2, <2>2, WptrMoves, RegisteredMoves DEF WeakShare
  <2> QED
    BY <2>1, <2>2
<1> QED
  BY <1>1, <1>3, <1>4, QuietCounts DEF Kept

LEMMA WeakSubCounts ==
    ASSUME TypeInv, ObjectInv, ShareInv, CountsInv, ~freed, NEW p \in Ptrs, WeakSub(p)
    PROVE  CountsInv'
<1>1. /\ counter' = counter /\ weak' = weak - 1 /\ refs' = refs /\ freed' = freed
      /\ pc[p] = "weakSub"
  BY DEF WeakSub
<1>2. weak \in Nat /\ weak > 0 /\ Givers = {}
  BY <1>1, ShareCounts, ReadCounts DEF StrongShare, WeakShare
<1>3. PICK b \in {"weakLast", AfterWeak(p)} :
        /\ pc' = [pc EXCEPT ![p] = b]
        /\ b = "weakLast" <=> weak = 1
  BY DEF WeakSub, Leave, Go, AfterWeak
<1>4. /\ b \in GiveLabels <=> weak = 1
      /\ Givers' = IF weak = 1 THEN {p} ELSE {}
  BY <1>2, <1>3, GiverMoves DEF GiveLabels, AfterWeak
<1>5. /\ Referring' = Referring
      /\ Cardinality(StrongUsers') + Cardinality(Registered')
            = Cardinality(StrongUsers) + Cardinality(Registered) - 1
  <2>1. CASE p \in Sptrs
    <3>1. /\ Referring' = Referring /\ Registered' = Registered
          /\ StrongUsers' = StrongUsers \ {p} /\ p \in StrongUsers
      BY <1>1, <1>3, <2>1, SptrMoves DEF AfterWeak, StrongShare
    <3>2. Cardinality(StrongUsers \ {p}) = Cardinality(StrongUsers) - 1
      BY <3>1, UserSets, FS_RemoveElement
    <3> QED
      BY <3>1, <3>2, UserSets
  <2>2. CASE p \in Wptrs
    <3>1. b \in {"weakLast", "delLoad"} /\ Alone(p)
      BY <1>1, <1>3, <2>2, PtrsDistinct DEF AfterWeak, Alone
    <3>2. /\ Referring' = Referring /\ Registered' = Registered \ {counter[p]}
          /\ counter[p] \in Registered
      BY <1>1, <1>3, <2>2, <3>1, RegisteredMoves, RegisteredNow DEF WeakShare
    <3>3. StrongUsers' = StrongUsers
      BY <1>3, <2>2, WptrMoves
    <3>4. Cardinality(Registered \ {counter[p]}) = Cardinality(Registered) - 1
      BY <3>2, UserSets, FS_RemoveElement
    <3> QED
      BY <3>2, <3>3, <3>4, UserSets
  <2> QED
    BY <2>1, <2>2
<1>6. Kept /\ Kept'
  <2>1. weak' > 0 \/ Givers' # {}
    BY <1>1, <1>2, <1>4
  <2> QED
    BY <1>2, <2>1 DEF Kept
<1>7. WeakOK'
  BY <1>1, <1>5, UserSets DEF CountsInv, WeakOK
<1>8. GiverOK'
  BY <1>1, <1>4 DEF GiverOK
<1>9. RefsOK' /\ FreedOK'
  BY <1>1, <1>5, <1>6, ShareCounts DEF CountsInv, RefsOK, FreedOK
<1> QED
  BY <1>7, <1>8, <1>9 DEF CountsInv

(* The object's share is given up once, and whoever finds it the last of   *)
(* all is the last to touch the RefCounter.                                *)
LEMMA RefSubCounts ==
    ASSUME TypeInv, ObjectInv, ShareInv, CountsInv, ~freed, NEW p \in Ptrs, RefSub(p)
    PROVE  CountsInv'
<1>1. /\ counter' = counter /\ weak' = weak /\ refs' = refs - 1 /\ freed' = (freed \/ refs = 1)
      /\ pc[p] = "refSub" /\ fresh' = fresh
  BY DEF RefSub
<1>2. PICK b \in {AfterWeak(p)} : pc' = [pc EXCEPT ![p] = b]
  BY DEF RefSub, Leave, Go
<1>3. p \in Givers /\ b \notin GiveLabels /\ b # "incWeak"
  BY <1>1, <1>2, GiverMoves DEF AfterWeak, GiveLabels
<1>4. Givers = {p} /\ weak = 0 /\ Givers' = {} /\ First' = First
  <2>1. Givers = {p} /\ weak = 0
    BY <1>3 DEF CountsInv, GiverOK
  <2>2. Givers' = {}
    BY <1>2, <1>3, <2>1, GiverMoves
  <2> QED
    BY <1>1, <1>2, <1>3, <2>1, <2>2, GiverMoves
<1>5. First = {} /\ ~fresh
  BY <1>1, <1>4, ReadCounts DEF First, At, TypeInv, TypeOK
<1>6. Kept /\ ~Kept'
  BY <1>1, <1>4, <1>5 DEF Kept
<1>7. StrongUsers' = StrongUsers /\ Registered' = Registered /\ Referring' = Referring
  <2>1. CASE p \in Sptrs
    BY <1>1, <1>2, <2>1, SptrMoves DEF StrongShare, AfterWeak
  <2>2. CASE p \in Wptrs
    <3>1. b = "delLoad"
      BY <1>2, <2>2, PtrsDistinct DEF AfterWeak
    <3> QED
      BY <1>1, <1>2, <2>2, <3>1, WptrMoves, RegisteredMoves DEF WeakShare
  <2> QED
    BY <2>1, <2>2
<1>8. WeakOK' /\ GiverOK'
  BY <1>1, <1>4, <1>7 DEF CountsInv, WeakOK, GiverOK
<1>9. RefsOK' /\ refs \in Nat
  <2>1. refs = Cardinality(Referring) + 1 /\ Cardinality(Referring) \in Nat
    BY <1>6, UserSets DEF CountsInv, RefsOK
  <2>2. refs' = Cardinality(Referring) + 0
    BY <1>1, <2>1
  <2> QED
    BY <1>6, <1>7, <2>1, <2>2 DEF RefsOK
<1>10. ASSUME refs = 1
       PROVE  ~fresh' /\ \A q \in Ptrs : pc'[q] = "null"
  <2>1. Referring = {}
    <3>1. Cardinality(Referring) = 0
      BY <1>6, <1>10, UserSets DEF CountsInv, RefsOK
    <3> QED
      BY <3>1, UserSets
  <2>2. \A w \in Wptrs : pc[w] \in {"null", "newRef"}
    BY <2>1, RegisteredNow
  <2>3. p \in Sptrs /\ b = "null"
    BY <1>1, <1>2, <2>2 DEF AfterWeak
  <2>4. \A q \in Ptrs \ {p} : pc[q] \notin {"incWeak", "weakLast", "refLoad", "refSub"}
    BY <1>4, <1>5 DEF Givers, GiveLabels, First, At
  <2>5. \A q \in Ptrs \ {p} : pc[q] = "null"
    BY <1>4, <2>2, <2>4, Deserted
  <2> QED
    BY <1>1, <1>2, <1>5, <2>3, <2>5 DEF TypeInv, TypeOK
<1>11. FreedOK'
  <2>1. freed' => refs = 1
    BY <1>1
  <2>2. refs = 1 => freed'
    BY <1>1
  <2>3. refs' = 0 => refs = 1
    BY <1>1, <1>9
  <2> QED
    BY <1>10, <2>1, <2>2, <2>3 DEF FreedOK
<1> QED
  BY <1>8, <1>9, <1>11 DEF CountsInv

LEMMA StepCounts ==
    ~EarlyWeak /\ TypeInv /\ ObjectInv /\ ShareInv /\ CountsInv /\ [Next]_vars => CountsInv'
<1> SUFFICES ASSUME ~EarlyWeak, TypeInv, ObjectInv, ShareInv, CountsInv, [Next]_vars
             PROVE  CountsInv'
  OBVIOUS
<1>1. CASE Next
  <2>1. ~freed
    BY <1>1, FreedStops
  <2>2. ASSUME NEW w \in Wptrs, WeakStep(w)
        PROVE  CountsInv'
    BY <2>1, <2>2, MakeCounts, NewRefCounts, OwnAddCounts, NewWeakCounts, DropCounts, DelCounts
    DEF WeakStep
  <2>3. ASSUME NEW p \in Ptrs, CountStep(p)
        PROVE  CountsInv'
    BY <2>1, <2>3, LoadCounts, WeakSubCounts, RefSubCounts DEF CountStep
  <2> QED
    BY <1>1, <2>1, <2>2, <2>3, StrongCounts DEF Next
<1>2. CASE UNCHANGED vars
  BY <1>2 DEF vars, counts, CountsInv, WeakOK, GiverOK, RefsOK, FreedOK, StrongUsers, Registered,
     Referring, Givers, First, At, Kept
<1> QED
  BY <1>1, <1>2

----------------------------------------------------------------------------
(* The object's end, and promotions that come after it.                    *)

(* When no sptr is counted, ~RefBase has run or one thread will run it.    *)
GoneOK == strong = 0 => ~alive \/ \E r \in Sptrs : pc[r] = "decCall"

(* A promotion that has read 0 has read the end.                           *)
TriedOK == \A r \in Sptrs : pc[r] \in {"attWeak", "attSwap"} /\ cur[r] <= 0 => strong = 0

LEMMA StrongNat ==
    ASSUME TypeInv, ObjectInv
    PROVE  /\ strong \in Nat /\ Initial \in Nat /\ Initial > 0
           /\ strong = 0 => Normal /\ Counted = {}
           /\ \A r \in Sptrs : pc[r] = "incFix" => strong = Initial + 1
<1>1. Initial \in Nat /\ Initial > 0
  BY InitialLarge, PtrsFinite, FS_CardinalityType
<1>2. CASE fresh
  BY <1>1, <1>2 DEF ObjectInv, FreshOK
<1>3. CASE Creating
  <2>1. PICK r \in Ptrs : from[r] = This
    BY <1>3 DEF Creating
  <2>2. \/ pc[r] \in Taking /\ strong = Initial
        \/ pc[r] = "incFix" /\ strong = Initial + 1
    BY <2>1 DEF ObjectInv, FirstOK
  <2>3. \A q \in Ptrs \ {r} : pc[q] = "null"
    BY <2>1 DEF ObjectInv, FirstOK
  <2> QED
    BY <1>1, <2>2, <2>3 DEF Taking
<1>4. CASE Normal
  <2>1. Rest
    BY <1>4, NormalRest
  <2> QED
    BY <1>1, <1>4, <2>1, CountedFinite DEF Rest
<1> QED
  BY <1>2, <1>3, <1>4 DEF Normal

(* An object that has lost its sptrs gets no other.                        *)
LEMMA StrongZero ==
    ASSUME TypeInv, ObjectInv, strong = 0, Next
    PROVE  strong' = 0
<1>1. Rest /\ ~fresh /\ Counted = {}
  BY StrongNat, NormalRest
<1>2. ASSUME NEW r \in Sptrs, StrongStep(r)
      PROVE  strong' = 0
  <2>1. pc[r] \notin {"incFix", "held", "decLoad", "decSub"} /\ pc[r] \notin Taking
    BY <1>1 DEF Rest, Counted
  <2>2. ~IncAdd(r) /\ ~IncFix(r) /\ ~DecSub(r) /\ ~AttSwap(r)
    BY <2>1 DEF IncAdd, IncFix, DecSub, AttSwap, Taking
  <2> QED
    BY <1>2, <2>2 DEF StrongStep, CopyStrong, IncWeak, IncLoad, Promote, AttLoad, AttWeak, AttReload,
       AttFail, DropStrong, DecLoad, DecCall, counts
<1>3. ASSUME NEW w \in Wptrs, WeakStep(w)
      PROVE  strong' = 0
  BY <1>3 DEF WeakStep, NewWeak, NewRef, OwnAdd, NewWeakCount, CopyWeak, DropWeak, OwnSub, DelLoad,
     DelSub, counts
<1>4. ASSUME NEW p \in Ptrs, CountStep(p)
      PROVE  strong' = 0
  BY <1>4 DEF CountStep, WeakLoad, WeakSub, WeakLast, RefLoad, RefSub, counts
<1> QED
  BY <1>2, <1>3, <1>4 DEF Next

LEMMA StepGone == TypeInv /\ ObjectInv /\ GoneOK /\ [Next]_vars => GoneOK'
<1> SUFFICES ASSUME TypeInv, ObjectInv, GoneOK, [Next]_vars, strong' = 0
             PROVE  ~alive' \/ \E r \in Sptrs : pc'[r] = "decCall"
  BY DEF GoneOK
<1>1. strong \in Nat /\ Initial \in Nat /\ Initial > 0
      /\ \A r \in Sptrs : pc[r] = "incFix" => strong = Initial + 1
  BY StrongNat
<1>2. ASSUME NEW r \in Sptrs, DecSub(r), strong # 0
      PROVE  pc'[r] = "decCall"
  BY <1>1, <1>2 DEF DecSub, Go, TypeInv, TypeOK
<1>3. CASE Next /\ strong # 0
  <2>1. ASSUME NEW r \in Sptrs, StrongStep(r)
        PROVE  DecSub(r)
    <3>1. ~IncAdd(r) /\ ~IncFix(r) /\ ~AttSwap(r)
      BY <1>1 DEF IncAdd, IncFix, AttSwap
    <3> QED
      BY <1>3, <2>1, <3>1 DEF StrongStep, CopyStrong, IncWeak, IncLoad, Promote, AttLoad, AttWeak,
         AttReload, AttFail, DropStrong, DecLoad, DecCall, counts
  <2>2. ASSUME NEW w \in Wptrs, WeakStep(w)
        PROVE  FALSE
    BY <1>3, <2>2 DEF WeakStep, NewWeak, NewRef, OwnAdd, NewWeakCount, CopyWeak, DropWeak, OwnSub,
       DelLoad, DelSub, counts
  <2>3. ASSUME NEW p \in Ptrs, CountStep(p)
        PROVE  FALSE
    BY <1>3, <2>3 DEF CountStep, WeakLoad, WeakSub, WeakLast, RefLoad, RefSub, counts
  <2> QED
    BY <1>2, <1>3, <2>1, <2>2, <2>3 DEF Next
<1>4. CASE Next /\ strong = 0
  <2>1. CASE ~alive
    <3>1. alive' => alive
      BY <1>4 DEF Next, StrongStep, CopyStrong, IncWeak, IncLoad, IncAdd, IncFix, Promote, AttLoad,
         AttWeak, AttSwap, AttReload, AttFail, DropStrong, DecLoad, DecSub, DecCall, WeakStep, NewWeak,
         NewRef, OwnAdd, NewWeakCount, CopyWeak, DropWeak, OwnSub, DelLoad, DelSub, CountStep, WeakLoad,
         WeakSub, WeakLast, RefLoad, RefSub
    <3> QED
      BY <2>1, <3>1
  <2>2. CASE alive
    <3>1. PICK r \in Sptrs : pc[r] = "decCall"
      BY <1>4, <2>2 DEF GoneOK
    <3>2. ASSUME NEW q \in Ptrs, NEW b, pc' = [pc EXCEPT ![q] = b], q # r
          PROVE  pc'[r] = "decCall"
      BY <3>1, <3>2 DEF TypeInv, TypeOK
    <3>3. ASSUME NEW q \in Sptrs, StrongStep(q)
          PROVE  pc'[r] = "decCall" \/ ~alive'
      <4>1. CASE q # r
        BY <3>2, <3>3, <4>1, StrongFrame
      <4>2. CASE q = r
        <5>1. DecCall(r)
          BY <3>1, <3>3, <4>2 DEF StrongStep, CopyStrong, IncWeak, IncLoad, IncAdd, IncFix, Promote,
             AttLoad, AttWeak, AttSwap, AttReload, AttFail, DropStrong, DecLoad, DecSub, Free, Held
        <5> QED
          BY <5>1 DEF DecCall
      <4> QED
        BY <4>1, <4>2
    <3>4. ASSUME NEW w \in Wptrs, WeakStep(w)
          PROVE  pc'[r] = "decCall"
      <4>1. \E b : pc' = [pc EXCEPT ![w] = b]
        BY <3>4 DEF WeakStep, NewWeak, NewRef, OwnAdd, NewWeakCount, CopyWeak, DropWeak, OwnSub,
           DelLoad, DelSub, Go
      <4> QED
        BY <3>2, <4>1, PtrsDistinct
    <3>5. ASSUME NEW p \in Ptrs, CountStep(p)
          PROVE  pc'[r] = "decCall"
      BY <3>1, <3>2, <3>5, CountFrame
    <3> QED
      BY <1>4, <3>3, <3>4, <3>5 DEF Next
  <2> QED
    BY <2>1, <2>2
<1>5. CASE UNCHANGED vars
  BY <1>5 DEF vars, GoneOK
<1> QED
  BY <1>3, <1>4, <1>5

LEMMA StepTried == TypeInv /\ ObjectInv /\ TriedOK /\ [Next]_vars => TriedOK'
<1> SUFFICES ASSUME TypeInv, ObjectInv, TriedOK, [Next]_vars, NEW r \in Sptrs,
                    pc'[r] \in {"attWeak", "attSwap"}, cur'[r] <= 0
             PROVE  strong' = 0
  BY DEF TriedOK
<1>1. strong \in Nat
  BY StrongNat
<1>2. CASE Next
  <2>1. strong = 0
    <3>1. CASE AttLoad(r) \/ AttReload(r)
      <4>1. cur'[r] = strong
        BY <3>1 DEF AttLoad, AttReload, TypeInv, TypeOK
      <4> QED
        BY <1>1, <4>1
    <3>2. CASE ~(AttLoad(r) \/ AttReload(r))
      <4>1. ASSUME NEW q \in Sptrs, StrongStep(q)
            PROVE  cur'[r] = cur[r] /\ (q # r => pc'[r] = pc[r])
        <5>1. q # r => pc'[r] = pc[r]
          BY <4>1, StrongFrame DEF TypeInv, TypeOK
        <5>2. CASE AttLoad(q) \/ AttReload(q)
          BY <3>2, <5>1, <5>2 DEF AttLoad, AttReload, TypeInv, TypeOK
        <5> QED
          BY <4>1, <5>1, <5>2 DEF StrongStep, CopyStrong, IncWeak, IncLoad, IncAdd, IncFix, Promote,
             AttWeak, AttSwap, AttFail, DropStrong, DecLoad, DecSub, DecCall
      <4>2. ASSUME StrongStep(r)
            PROVE  pc[r] = "attWeak"
        BY <3>2, <4>2 DEF StrongStep, CopyStrong, IncWeak, IncLoad, IncAdd, IncFix, Promote, AttWeak,
           AttSwap, AttFail, DropStrong, DecLoad, DecSub, DecCall, Go, TypeInv, TypeOK
      <4>3. ASSUME NEW w \in Wptrs, WeakStep(w)
            PROVE  cur'[r] = cur[r] /\ pc'[r] = pc[r]
        <5>1. cur' = cur /\ \E b : pc' = [pc EXCEPT ![w] = b]
          BY <4>3 DEF WeakStep, NewWeak, NewRef, OwnAdd, NewWeakCount, CopyWeak, DropWeak, OwnSub,
             DelLoad, DelSub, Go
        <5> QED
          BY <5>1, PtrsDistinct DEF TypeInv, TypeOK
      <4>4. ASSUME NEW p \in Ptrs, CountStep(p)
            PROVE  cur'[r] = cur[r] /\ pc'[r] = pc[r]
        <5>1. PICK b \in CountLabels \cup {AfterWeak(p)} : pc' = [pc EXCEPT ![p] = b]
          BY <4>4, CountFrame
        <5>2. cur' = cur
          BY <4>4 DEF CountStep, WeakLoad, WeakSub, WeakLast, RefLoad, RefSub
        <5>3. pc'[r] = IF p = r THEN b ELSE pc[r]
          BY <5>1 DEF TypeInv, TypeOK
        <5> QED
          BY <5>1, <5>2, <5>3 DEF AfterWeak
      <4>5. cur[r] <= 0 /\ pc[r] \in {"attWeak", "attSwap"}
        BY <1>2, <4>1, <4>2, <4>3, <4>4 DEF Next
      <4> QED
        BY <4>5 DEF TriedOK
    <3> QED
      BY <3>1, <3>2
  <2> QED
    BY <1>2, <2>1, StrongZero
<1>3. CASE UNCHANGED vars
  BY <1>3 DEF vars, TriedOK
<1> QED
  BY <1>2, <1>3

----------------------------------------------------------------------------
CounterInv == TypeInv /\ ObjectInv /\ ShareInv /\ CountsInv /\ GoneOK /\ TriedOK

LEMMA CounterHolds == ASSUME ~EarlyWeak PROVE Spec => []CounterInv
<1>1. Init => CounterInv
  <2>1. Init => GoneOK /\ TriedOK
    BY InitialLarge, PtrsFinite, FS_CardinalityType DEF Init, GoneOK, TriedOK
  <2> QED
    BY <2>1, InitType, InitObject, InitShare, InitCounts DEF CounterInv
<1>2. CounterInv /\ [Next]_vars => CounterInv'
  BY StepType, StepObject, StepShare, StepCounts, StepGone, StepTried DEF CounterInv
<1> QED
  BY <1>1, <1>2, PTL DEF Spec

(* No operation, and no wptr however late it is dropped, ever touches a    *)
(* RefCounter that was deleted, and no wptr a WeakRefCounter that another  *)
(* sharer deleted, for any number of pointers and threads.                 *)
THEOREM CounterCorrect ==
    ASSUME ~EarlyWeak
    PROVE  Spec => []CounterOutlivesUsers
<1>1. ASSUME CounterInv
      PROVE  CounterOutlivesUsers
  <2>1. freed => At({"null"}) = Ptrs
    BY <1>1 DEF CounterInv, CountsInv, FreedOK, At
  <2>2. ASSUME NEW w \in Wptrs, Held(w)
        PROVE  own[counter[w]] > 0
    <3>1. pc[w] = "held" /\ counter[w] \in Wptrs
      BY <1>1, <2>2, RegisteredNow DEF Held, CounterInv
    <3>2. w \in Sharers(counter[w])
      BY <3>1 DEF Sharers, OwnShare
    <3>3. Cardinality(Sharers(counter[w])) \in Nat /\ Cardinality(Sharers(counter[w])) # 0
      <4>1. Sharers(counter[w]) \subseteq Wptrs
        BY DEF Sharers
      <4> QED
        BY <3>2, <4>1, WptrSets
    <3> QED
      BY <1>1, <3>1, <3>3 DEF CounterInv, ShareInv, OwnOK
  <2> QED
    BY <2>1, <2>2 DEF CounterOutlivesUsers
<1> QED
  BY <1>1, CounterHolds, PTL

LEMMA QuietSets ==
    ASSUME CounterInv, Quiet
    PROVE  /\ ~Creating /\ Counted = HeldSptrs /\ StrongUsers = HeldSptrs
           /\ Registered = WeakRefCounters /\ Referring = WeakRefCounters
           /\ Givers = {} /\ First = {}
<1>1. \A p \in Ptrs : pc[p] \in {"null", "held"} /\ from[p] = None
  BY DEF CounterInv, TypeInv, TypeOK, Quiet, At
<1>2. \A w \in Wptrs : counter[w] \in Wptrs \cup {None} /\ (counter[w] = None <=> pc[w] = "null")
  BY DEF CounterInv, TypeInv, TypeOK, ShareInv, NamedOK
<1>3. ~Creating
  BY <1>1, PtrsDistinct DEF Creating
<1>4. Counted = HeldSptrs /\ StrongUsers = HeldSptrs
  BY <1>1 DEF Counted, StrongUsers, StrongShare, HeldSptrs, Held
<1>5. Registered = WeakRefCounters
  BY <1>1, <1>2, PtrsDistinct DEF Registered, WeakShare, WeakRefCounters, Held
<1>6. Referring = WeakRefCounters
  BY <1>1, <1>2, PtrsDistinct DEF Referring, WeakRefCounters, Held
<1> QED
  BY <1>1, <1>3, <1>4, <1>5, <1>6 DEF Givers, GiveLabels, First, At

(* refbase.h's description of the three counts holds whenever no operation *)
(* is under way, whatever happened before.                                 *)
THEOREM CountsCorrect ==
    ASSUME ~EarlyWeak
    PROVE  Spec => []CountsAgree
<1>1. ASSUME CounterInv, Quiet
      PROVE  /\ strong = IF fresh THEN Initial ELSE Cardinality(HeldSptrs)
             /\ weak = Cardinality(HeldSptrs) + Cardinality(WeakRefCounters)
             /\ refs = Cardinality(WeakRefCounters) + IF fresh \/ weak > 0 THEN 1 ELSE 0
  <2>1. strong = IF fresh THEN Initial ELSE Cardinality(HeldSptrs)
    BY <1>1, QuietSets DEF CounterInv, ObjectInv, FreshOK, StrongOK
  <2>2. weak = Cardinality(HeldSptrs) + Cardinality(WeakRefCounters)
    BY <1>1, QuietSets DEF CounterInv, CountsInv, WeakOK
  <2>3. Kept <=> fresh \/ weak > 0
    BY <1>1, QuietSets DEF Kept
  <2>4. refs = Cardinality(WeakRefCounters) + IF fresh \/ weak > 0 THEN 1 ELSE 0
    BY <1>1, <2>3, QuietSets DEF CounterInv, CountsInv, RefsOK
  <2> QED
    BY <2>1, <2>2, <2>4
<1>2. CounterInv => CountsAgree
  BY <1>1 DEF CountsAgree
<1> QED
  BY <1>2, CounterHolds, PTL

(* When the last sptr is gone ~RefBase has run, and when the last wptr is  *)
(* gone too the RefCounter is deleted.                                     *)
THEOREM LeakCorrect ==
    ASSUME ~EarlyWeak
    PROVE  Spec => []NothingLeaks
<1>1. ASSUME CounterInv, Quiet, ~fresh, HeldSptrs = {}
      PROVE  ~alive
  <2>1. strong = 0
    BY <1>1, QuietSets, FS_EmptySet DEF CounterInv, ObjectInv, StrongOK
  <2>2. \A r \in Sptrs : pc[r] # "decCall"
    BY <1>1 DEF Quiet, At
  <2> QED
    BY <1>1, <2>1, <2>2 DEF CounterInv, GoneOK
<1>2. ASSUME CounterInv, At({"null"}) = Ptrs, ~fresh
      PROVE  freed
  <2>1. \A p \in Ptrs : pc[p] = "null"
    BY <1>2 DEF At
  <2>2. Quiet
    BY <2>1 DEF Quiet, At
  <2>3. HeldSptrs = {} /\ WeakRefCounters = {}
    BY <2>1 DEF HeldSptrs, WeakRefCounters, Held
  <2>4. weak = 0
    BY <1>2, <2>2, <2>3, QuietSets, FS_EmptySet DEF CounterInv, CountsInv, WeakOK
  <2>5. ~Kept
    BY <1>2, <2>2, <2>4, QuietSets DEF Kept
  <2>6. refs = 0
    BY <1>2, <2>2, <2>3, <2>5, QuietSets, FS_EmptySet DEF CounterInv, CountsInv, RefsOK
  <2> QED
    BY <1>2, <2>6 DEF CounterInv, CountsInv, FreedOK
<1>3. CounterInv => NothingLeaks
  BY <1>1, <1>2 DEF NothingLeaks
<1> QED
  BY <1>3, CounterHolds, PTL

(* promote answers nullptr only when the last sptr was dropped before,     *)
(* however many copies and promotions run against it.                      *)
THEOREM PromoteCorrect ==
    ASSUME ~EarlyWeak
    PROVE  Spec => PromoteFailsOnlyWhenGone
<1>1. ASSUME CounterInv, [Next]_vars, NEW r \in Sptrs, pc[r] = "attSwap", pc'[r] = "weakLoad"
      PROVE  HeldSptrs = {} /\ strong = 0
  <2>1. /\ pc \in [Ptrs -> SptrLabels \cup WptrLabels]
        /\ TypeInv /\ ObjectInv /\ TriedOK
    BY <1>1 DEF CounterInv, TypeInv, TypeOK
  <2>2. Next
    BY <1>1 DEF vars
  <2>3. ASSUME NEW q \in Sptrs, StrongStep(q)
        PROVE  AttFail(r)
    <3>1. q = r
      BY <1>1, <2>1, <2>3, StrongFrame
    <3> QED
      BY <1>1, <2>1, <2>3, <3>1 DEF StrongStep, CopyStrong, IncWeak, IncLoad, IncAdd, IncFix, Promote,
         AttLoad, AttWeak, AttSwap, AttReload, DropStrong, DecLoad, DecSub, DecCall, Go, Free, Held
  <2>4. ASSUME NEW w \in Wptrs, WeakStep(w)
        PROVE  FALSE
    <3>1. \E b : pc' = [pc EXCEPT ![w] = b]
      BY <2>4 DEF WeakStep, NewWeak, NewRef, OwnAdd, NewWeakCount, CopyWeak, DropWeak, OwnSub,
         DelLoad, DelSub, Go
    <3> QED
      BY <1>1, <2>1, <3>1, PtrsDistinct
  <2>5. ASSUME NEW p \in Ptrs, CountStep(p)
        PROVE  FALSE
    BY <1>1, <2>1, <2>5, CountFrame
  <2>6. cur[r] <= 0
    BY <2>2, <2>3, <2>4, <2>5 DEF Next, AttFail
  <2>7. strong = 0
    BY <1>1, <2>1, <2>6 DEF TriedOK
  <2>8. Counted = {}
    BY <2>1, <2>7, StrongNat
  <2> QED
    BY <2>7, <2>8 DEF Counted, HeldSptrs, Held
<1>2. CounterInv /\ [Next]_vars =>
        [\A r \in Sptrs : pc[r] = "attSwap" /\ pc'[r] = "weakLoad"
                             => HeldSptrs = {} /\ strong = 0]_vars
  BY <1>1
<1> QED
  BY <1>2, CounterHolds, PTL DEF Spec, PromoteFailsOnlyWhenGone
=============================================================================
