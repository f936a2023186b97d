------------------------ MODULE RSConnectionsProofs ------------------------
(***************************************************************************)
(* Proofs about the render service's clients, for any processes, threads   *)
(* and bounds.                                                             *)
(*                                                                         *)
(* A living client whose connection was never replaced is known to the     *)
(* main thread.  Two cleanings could take it away: that of a death         *)
(* recipient, which a living process does not set off, and that of the     *)
(* destructor.  The latter does not run because connections_ keeps a       *)
(* reference from the moment the call that made the connection has stored  *)
(* it, and until then the call itself does: that is what Living keeps.     *)
(* For a process with two connections it is false, as ReplacedIsServed     *)
(* shows.                                                                  *)
(*                                                                         *)
(* No transaction is overtaken while commits take turns, and none is       *)
(* processed twice at all.  A proxy's count is then the number of parcels, *)
(* so that numbers are identities (Counted, InRange), and each commit goes *)
(* on after what was sent (SentOrder).  A connection's parcels keep their  *)
(* order up to the IPC thread; small ones and large ones then part, and    *)
(* meet in the frame that waits for its barrier: what the frame will find  *)
(* comes before what is too late for it (FrameOrder).  What the loop over  *)
(* the sorted transactions takes is shown by induction, over a set of      *)
(* numbers in the place of a predicate (UpTo).                             *)
(*                                                                         *)
(* The loop waits only for what was lost: WaitOrder, which the order of    *)
(* the transactions keeps, needs to know which numbers were given.         *)
(***************************************************************************)
EXTENDS RSConnectionsCorrect, TLAPS, FiniteSetTheorems, SequenceTheorems

CallLabels  == {"none", "sent", "store", "add", "release", "reply", "received"}
PhaseLabels == {"none", "live", "posted", "cleared", "done"}

ConnTypes ==
    /\ alive \subseteq Pids
    /\ hub \in [Pids -> Conns \cup {None}] /\ table \in [Pids -> Conns \cup {None}]
    /\ call \in [Conns -> CallLabels] /\ phase \in [Conns -> PhaseLabels]

(* A connection was made by the call that is past its construction, and    *)
(* the hub of a living client has one of its own that was.                 *)
Made ==
    /\ \A c \in Conns : call[c] \notin {"none", "sent"} => phase[c] # "none"
    /\ \A c \in Conns : PidOf(c) \in alive =>
          /\ call[c] = "sent" => phase[c] = "none"
          /\ call[c] = "none" /\ phase[c] # "none" => hub[PidOf(c)] # None
    /\ \A p \in Pids : hub[p] # None =>
          PidOf(hub[p]) = p /\ phase[hub[p]] # "none" /\ (p \in alive => call[hub[p]] = "none")

(* Single without counting: the process has had one connection at most.    *)
Unreplaced(p) ==
    \A c, d \in Conns :
        PidOf(c) = p /\ PidOf(d) = p /\ phase[c] # "none" /\ phase[d] # "none" => c = d

(* The one connection of a living client is not cleaned: its call or       *)
(* connections_ holds it; when the call has told the main thread of the    *)
(* client, the main thread knows it.                                       *)
Living ==
    \A c \in Conns : PidOf(c) \in alive /\ Unreplaced(PidOf(c)) /\ phase[c] # "none" =>
        /\ phase[c] = "live"
        /\ call[c] # "store" => table[PidOf(c)] = c
        /\ call[c] \notin {"store", "add"} => PidOf(c) \in Known

ServeInv == ConnTypes /\ Made /\ Living

----------------------------------------------------------------------------
LEMMA PidOfConn ==
    ASSUME NEW c \in Conns
    PROVE  PidOf(c) \in Pids /\ c # None
BY NoneIsNoConnection DEF PidOf, Conns

(* Counting to one.                                                        *)
LEMMA SingleUnreplaced ==
    ASSUME NEW p \in Pids, Single(p)
    PROVE  Unreplaced(p)
<1> DEFINE mine == {c \in Conns : PidOf(c) = p /\ phase[c] # "none"}
<1>1. IsFiniteSet(Conns)
    BY HubThreadsType, FS_Product DEF Conns
<1>2. IsFiniteSet(mine)
    BY <1>1, FS_Subset
<1>3. Cardinality(mine) <= 1 /\ Cardinality(mine) \in Nat
    BY <1>2, FS_CardinalityType DEF Single
<1>. SUFFICES ASSUME NEW c \in mine, NEW d \in mine PROVE c = d
    BY DEF Unreplaced
<1>4. Cardinality(mine) # 0
    BY <1>2, FS_EmptySet
<1>5. Cardinality(mine) = 1
    BY <1>3, <1>4
<1>. HIDE DEF mine
<1>6. PICK x : mine = {x}
    BY <1>2, <1>5, FS_Singleton
<1>. QED BY <1>6

(* A commit is the client's affair.                                        *)
LEMMA CommitKeeps ==
    ASSUME NEW c, NEW m, CommitTransaction(c, m) \/ CommitStep(c, m)
    PROVE  UNCHANGED <<threadVars, mainVars>>
BY DEF CommitTransaction, CommitStep, StoreIndex, FillParcel, LoadIndex, SendParcel, CommitFails

(* Which transactions are sent, parsed or processed does not change whom   *)
(* the main thread knows.                                                  *)
LEMMA DataStep ==
    ASSUME \/ \E c \in Conns : StubStep(c)
           \/ \E c \in Conns, m \in Mutexes : CommitTransaction(c, m) \/ CommitStep(c, m)
           \/ UnmarshalStep \/ RequestNextVSync \/ OnVsync \/ ForceRefreshForUni \/ ProcessCommand
    PROVE  Known' = Known
<1>0. CASE \E c \in Conns, m \in Mutexes : CommitTransaction(c, m) \/ CommitStep(c, m)
    BY <1>0, CommitKeeps DEF mainVars, Known
<1>1. CASE (\E c \in Conns : StubStep(c)) \/ RequestNextVSync
    BY <1>1 DEF StubStep, StubReceives, StubStores, StubRequestsVSync, StubDrops,
                RequestNextVSync, mainVars, Known
<1>2. CASE UnmarshalStep
    BY <1>2 DEF UnmarshalStep, UnmarshalParcel, UnmarshalFails, UnmarshalBarrier, mainVars, Known
<1>3. CASE OnVsync \/ ForceRefreshForUni
    BY <1>3 DEF OnVsync, ForceRefreshForUni, StartFrame, Known
<1>4. CASE ProcessCommand
    <2>1. PICK walks : last' = [p \in Known |-> walks[p].last]
        BY <1>4 DEF ProcessCommand
    <2>. QED BY <2>1 DEF Known
<1>. QED BY <1>0, <1>1, <1>2, <1>3, <1>4

----------------------------------------------------------------------------
(* The invariant                                                           *)

LEMMA InitInv == Init => ServeInv
BY PidOfConn DEF Init, ServeInv, ConnTypes, Made, Living, CallLabels, PhaseLabels

LEMMA QuietInv ==
    ASSUME ServeInv, UNCHANGED connVars, Known' = Known
    PROVE  ServeInv'
BY DEF ServeInv, ConnTypes, Made, Living, Unreplaced, connVars

(* The client's steps.                                                     *)
LEMMA ClientInv ==
    ASSUME ServeInv, NEW c \in Conns,
           GetRenderServiceConnection(c) \/ SetConn(c)
    PROVE  ServeInv'
<1>. USE PidOfConn DEF ServeInv, CallLabels, PhaseLabels, GoCall
<1>1. CASE GetRenderServiceConnection(c)
    <2>. USE <1>1 DEF GetRenderServiceConnection
    <2>0. Known' = Known
        BY DEF dataVars, mainVars, Known
    <2>1. ConnTypes'
        BY DEF ConnTypes
    <2>2. Made'
        BY DEF ConnTypes, Made
    <2>3. Living'
        BY <2>0 DEF ConnTypes, Made, Living, Unreplaced
    <2>. QED BY <2>1, <2>2, <2>3
<1>2. CASE SetConn(c)
    <2>. USE <1>2 DEF SetConn
    <2>0. Known' = Known
        BY DEF dataVars, mainVars, Known
    <2>1. ConnTypes'
        BY DEF ConnTypes
    <2>2. Made'
        BY DEF ConnTypes, Made
    <2>3. Living'
        BY <2>0 DEF ConnTypes, Living, Unreplaced
    <2>. QED BY <2>1, <2>2, <2>3
<1>. QED BY <1>1, <1>2

(* What a dying process had called is served or lost.                      *)
LEMMA DieInv ==
    ASSUME ServeInv, NEW p \in Pids, Die(p)
    PROVE  ServeInv'
<1>. USE PidOfConn DEF ServeInv
<1>0. Known' = Known /\ UNCHANGED <<hub, table, phase>> /\ alive' = alive \ {p}
    BY DEF Die, mainVars, Known
<1>1. PICK lost \in SUBSET {d \in Conns : PidOf(d) = p /\ call[d] = "sent"} :
        call' = [d \in Conns |->
            IF d \in lost \/ (PidOf(d) = p /\ call[d] = "received") THEN "none" ELSE call[d]]
    BY DEF Die
<1>2. /\ \A d \in Conns : call'[d] = call[d] \/ (PidOf(d) = p /\ call'[d] = "none")
      /\ call' \in [Conns -> CallLabels]
    BY <1>1 DEF ConnTypes, CallLabels
<1>3. ConnTypes'
    BY <1>0, <1>2 DEF ConnTypes
<1>4. Made'
    BY <1>0, <1>2 DEF ConnTypes, Made
<1>5. Living'
    BY <1>0, <1>2 DEF ConnTypes, Living, Unreplaced
<1>. QED BY <1>3, <1>4, <1>5 DEF ServeInv

(* CreateConnection.                                                       *)
LEMMA CallInv ==
    ASSUME ServeInv, NEW c \in Conns, CallStep(c)
    PROVE  ServeInv'
<1>. USE PidOfConn DEF ServeInv, CallLabels, PhaseLabels, GoCall
<1>1. CASE Construct(c)
    <2>. USE <1>1 DEF Construct
    <2>0. Known' = Known
        BY DEF dataVars, mainVars, Known
    <2>1. ConnTypes'
        BY DEF ConnTypes
    <2>2. Made'
        BY DEF ConnTypes, Made
    <2>3. Living'
        <3>. SUFFICES ASSUME NEW d \in Conns, PidOf(d) \in alive, Unreplaced(PidOf(d))',
                             phase'[d] # "none"
                      PROVE  /\ phase'[d] = "live"
                             /\ call'[d] # "store" => table[PidOf(d)] = d
                             /\ call'[d] \notin {"store", "add"} => PidOf(d) \in Known
            BY <2>0 DEF Living
        <3>1. CASE d = c
            BY <3>1 DEF ConnTypes
        <3>2. CASE d # c
            <4>1. phase'[c] # "none" /\ phase'[d] = phase[d] /\ call'[d] = call[d]
                BY <3>2 DEF ConnTypes
            <4>2. PidOf(c) # PidOf(d)
                BY <4>1, <3>2 DEF Unreplaced
            <4>3. Unreplaced(PidOf(d))
                BY <4>2 DEF Unreplaced, ConnTypes
            <4>. QED BY <4>1, <4>3 DEF Living
        <3>. QED BY <3>1, <3>2
    <2>. QED BY <2>1, <2>2, <2>3
<1>2. CASE Store(c)
    <2>. USE <1>2 DEF Store
    <2>0. Known' = Known
        BY DEF dataVars, mainVars, Known
    <2>1. ConnTypes'
        BY DEF ConnTypes
    <2>2. Made'
        BY DEF ConnTypes, Made
    <2>3. Living'
        BY <2>0 DEF ConnTypes, Made, Living, Unreplaced
    <2>. QED BY <2>1, <2>2, <2>3
<1>3. CASE AddPid(c)
    <2>. USE <1>3 DEF AddPid
    <2>0. Known' = Known \cup {PidOf(c)}
        BY DEF AddTransactionDataPidInfo, Known
    <2>1. ConnTypes'
        BY DEF ConnTypes
    <2>2. Made'
        BY DEF ConnTypes, Made
    <2>3. Living'
        BY <2>0 DEF ConnTypes, Made, Living, Unreplaced
    <2>. QED BY <2>1, <2>2, <2>3
<1>4. CASE Release(c) \/ Reply(c)
    <2>0. /\ Known' = Known /\ UNCHANGED <<alive, hub, table, phase>>
          /\ \/ call[c] = "release" /\ call' = [call EXCEPT ![c] = "reply"]
             \/ call[c] = "reply" /\ PidOf(c) \in alive /\ call' = [call EXCEPT ![c] = "received"]
             \/ call[c] = "reply" /\ PidOf(c) \notin alive /\ call' = [call EXCEPT ![c] = "none"]
        BY <1>4 DEF Release, Reply, dataVars, mainVars, Known
    <2>1. ConnTypes'
        BY <2>0 DEF ConnTypes
    <2>2. Made'
        BY <2>0 DEF ConnTypes, Made
    <2>3. Living'
        BY <2>0 DEF ConnTypes, Made, Living, Unreplaced
    <2>. QED BY <2>1, <2>2, <2>3
<1>. QED BY <1>1, <1>2, <1>3, <1>4 DEF CallStep

(* A connection that is cleaned is not the one of a living client: it is   *)
(* not live or nothing refers to it.                                       *)
LEMMA CleanedInv ==
    ASSUME ServeInv, NEW c \in Conns, UNCHANGED <<alive, hub, call>>,
           phase[c] # "none", NEW to \in PhaseLabels \ {"none"},
           phase' = [phase EXCEPT ![c] = to],
           table' = table \/ table' = [table EXCEPT ![PidOf(c)] = None],
           Known \ {PidOf(c)} \subseteq Known',
           PidOf(c) \notin alive \/ ~Unreplaced(PidOf(c))
    PROVE  ServeInv'
<1>. USE PidOfConn DEF ServeInv
<1>1. ConnTypes'
    BY DEF ConnTypes
<1>2. \A d \in Conns : phase'[d] # "none" <=> phase[d] # "none"
    BY DEF ConnTypes
<1>3. Made'
    BY <1>2 DEF Made, ConnTypes
<1>4. Living'
    <2>. SUFFICES ASSUME NEW d \in Conns, PidOf(d) \in alive, Unreplaced(PidOf(d))',
                         phase'[d] # "none"
                  PROVE  /\ phase'[d] = "live"
                         /\ call[d] # "store" => table'[PidOf(d)] = d
                         /\ call[d] \notin {"store", "add"} => PidOf(d) \in Known'
        BY DEF Living
    <2>1. Unreplaced(PidOf(d))
        BY <1>2 DEF Unreplaced
    <2>2. PidOf(c) # PidOf(d)
        BY <2>1
    <2>3. phase'[d] = phase[d] /\ table'[PidOf(d)] = table[PidOf(d)]
        BY <2>2 DEF ConnTypes
    <2>. QED BY <1>2, <2>1, <2>2, <2>3 DEF Living
<1>. QED BY <1>1, <1>3, <1>4

LEMMA CleanInv ==
    ASSUME ServeInv, NEW c \in Conns,
           OnRemoteDied(c) \/ Destroy(c) \/ CleanTask(c) \/ CleanRest(c)
    PROVE  ServeInv'
<1>1. CASE OnRemoteDied(c)
    <2>1. Known' = Known
        BY <1>1 DEF OnRemoteDied, dataVars, mainVars, Known
    <2>. QED BY <1>1, <2>1, CleanedInv DEF OnRemoteDied, PhaseLabels
<1>2. CASE Destroy(c)
    <2>1. Known' = Known
        BY <1>2 DEF Destroy, dataVars, mainVars, Known
    <2>2. PidOf(c) \notin alive \/ ~Unreplaced(PidOf(c))
        <3>. SUFFICES ASSUME PidOf(c) \in alive, Unreplaced(PidOf(c)) PROVE FALSE
            OBVIOUS
        <3>1. call[c] = "none" /\ table[PidOf(c)] # c /\ phase[c] = "live"
            BY <1>2 DEF Destroy, Referenced
        <3>. QED BY <3>1 DEF ServeInv, Living
    <2>. QED BY <1>2, <2>1, <2>2, CleanedInv DEF Destroy, PhaseLabels
<1>3. CASE CleanTask(c)
    <2>1. Known' = Known \ {PidOf(c)}
        BY <1>3 DEF CleanTask, ClearTransactionDataPidInfo, Known
    <2>2. PidOf(c) \notin alive \/ ~Unreplaced(PidOf(c))
        BY <1>3 DEF CleanTask, ServeInv, Living
    <2>. QED BY <1>3, <2>1, <2>2, CleanedInv DEF CleanTask, PhaseLabels
<1>4. CASE CleanRest(c)
    <2>1. Known' = Known
        BY <1>4 DEF CleanRest, dataVars, mainVars, Known
    <2>2. PidOf(c) \notin alive \/ ~Unreplaced(PidOf(c))
        BY <1>4 DEF CleanRest, ServeInv, Living
    <2>. QED BY <1>4, <2>1, <2>2, CleanedInv DEF CleanRest, PhaseLabels
<1>. QED BY <1>1, <1>2, <1>3, <1>4

LEMMA StepInv == ServeInv /\ [Next]_vars => ServeInv'
<1>. SUFFICES ASSUME ServeInv, [Next]_vars PROVE ServeInv'
    OBVIOUS
<1>1. ASSUME NEW p \in Pids, Die(p) PROVE ServeInv'
    BY <1>1, DieInv
<1>2. ASSUME NEW c \in Conns, GetRenderServiceConnection(c) \/ SetConn(c)
      PROVE  ServeInv'
    BY <1>2, ClientInv
<1>3. ASSUME NEW c \in Conns, CallStep(c) PROVE ServeInv'
    BY <1>3, CallInv
<1>4. ASSUME NEW c \in Conns, OnRemoteDied(c) \/ Destroy(c) \/ CleanTask(c) \/ CleanRest(c)
      PROVE  ServeInv'
    BY <1>4, CleanInv
<1>5. ASSUME NEW c \in Conns,
             (\E m \in Mutexes : Commit(c, m)) \/ (StubStep(c) /\ UNCHANGED connVars)
      PROVE  ServeInv'
    BY <1>5, DataStep, QuietInv DEF Commit
<1>6. ASSUME \/ UnmarshalStep \/ RequestNextVSync \/ OnVsync
             \/ ForceRefreshForUni \/ ProcessCommand,
             UNCHANGED connVars
      PROVE  ServeInv'
    BY <1>6, DataStep, QuietInv
<1>7. CASE UNCHANGED vars
    BY <1>7, QuietInv DEF vars, dataVars, mainVars, Known
<1>. QED BY <1>1, <1>2, <1>3, <1>4, <1>5, <1>6, <1>7 DEF Next

----------------------------------------------------------------------------
(* CreateConnection, CleanAll: the main thread knows every living client   *)
(* whose hub has its connection, unless the connection was replaced.       *)
THEOREM ServedCorrect == Spec => []ServedWhileConnected
<1>1. Init => ServeInv
    BY InitInv
<1>2. ServeInv /\ [Next]_vars => ServeInv'
    BY StepInv
<1>3. ServeInv => ServedWhileConnected
    <2>. SUFFICES ASSUME ServeInv, NEW p \in Pids, Single(p), p \in alive, hub[p] # None
                  PROVE  p \in Known
        BY DEF ServedWhileConnected, Served
    <2>1. /\ hub[p] \in Conns /\ PidOf(hub[p]) = p
          /\ phase[hub[p]] # "none" /\ call[hub[p]] = "none"
        BY DEF ServeInv, ConnTypes, Made
    <2>2. Unreplaced(p)
        BY SingleUnreplaced
    <2>. QED BY <2>1, <2>2 DEF ServeInv, Living
<1>. QED BY <1>1, <1>2, <1>3, PTL DEF Spec
----------------------------------------------------------------------------
(* The loop of ProcessCommandForUniRender over a client's transactions     *)

Numbered == [conn : Conns, index : Nat, id : Nat]

(* Any set of natural numbers has a least one.                             *)
LEMMA Smallest ==
    ASSUME NEW S \in SUBSET Nat, S # {}
    PROVE  \E n \in S : \A m \in S : n <= m
<1>1. PICK n \in S : \A m \in S : ~(<<m, n>> \in OpToRel(<, Nat))
    BY NatLessThanWellFounded, WFMin
<1>2. \A m \in S : ~(m < n)
    BY <1>1 DEF OpToRel
<1>. QED BY <1>2

(* Induction up to n, over a set in the place of a predicate.              *)
LEMMA UpTo ==
    ASSUME NEW n \in Nat, NEW S, 0 \in S, \A i \in 1..n : i - 1 \in S => i \in S
    PROVE  \A i \in 0..n : i \in S
<1>. DEFINE bad == {i \in 0..n : i \notin S}
<1>. SUFFICES ASSUME bad # {} PROVE FALSE
    OBVIOUS
<1>1. bad \in SUBSET Nat
    OBVIOUS
<1>2. PICK m \in bad : \A i \in bad : m <= i
    <2>. HIDE DEF bad
    <2>. QED BY <1>1, Smallest
<1>3. m \in 1..n /\ m - 1 \notin bad
    <2>1. m \in 0..n /\ m # 0
        OBVIOUS
    <2>. HIDE DEF bad
    <2>. QED BY <2>1, <1>1, <1>2
<1>. QED BY <1>3

(* The loop over a client's sorted transactions, as a function of how many *)
(* it has looked at.                                                       *)
WalkStart(p) == [last |-> last[p], elapsed |-> elapsed[p], taken |-> <<>>, stopped |-> FALSE]
WalkOver(p, s, n, f) ==
    [i \in 0..n |-> IF i = 0 THEN WalkStart(p) ELSE Walk(f[i - 1], s[i])]

LEMMA WalkExists ==
    ASSUME NEW p, NEW s, NEW n \in Nat
    PROVE  \E f : f = WalkOver(p, s, n, f)
<1>. DEFINE S == {k \in 0..n : \E f : f = WalkOver(p, s, k, f)}
<1>1. 0 \in S
    <2>. DEFINE g == [i \in 0..0 |-> WalkStart(p)]
    <2>1. g = WalkOver(p, s, 0, g)
        BY DEF WalkOver
    <2>. QED BY <2>1
<1>2. ASSUME NEW k \in 1..n, k - 1 \in S
      PROVE  k \in S
    <2>1. PICK f : f = WalkOver(p, s, k - 1, f)
        BY <1>2
    <2>. DEFINE g == [i \in 0..k |-> IF i = k THEN Walk(f[k - 1], s[k]) ELSE f[i]]
    <2>2. \A i \in 0..k - 1 : f[i] = IF i = 0 THEN WalkStart(p) ELSE Walk(f[i - 1], s[i])
        BY <2>1 DEF WalkOver
    <2>3. \A i \in 0..k : g[i] = IF i = 0 THEN WalkStart(p) ELSE Walk(g[i - 1], s[i])
        BY <2>2
    <2>4. g = WalkOver(p, s, k, g)
        BY <2>3 DEF WalkOver
    <2>. QED BY <2>4
<1>3. \A i \in 0..n : i \in S
    <2>. HIDE DEF S
    <2>. QED BY <1>1, <1>2, UpTo
<1>. QED BY <1>3

LEMMA WalkedSteps ==
    ASSUME NEW p, NEW s, Len(s) \in Nat
    PROVE  \E f : /\ f[0] = WalkStart(p)
                  /\ \A i \in 1..Len(s) : f[i] = Walk(f[i - 1], s[i])
                  /\ Walked(p, s) = f[Len(s)]
<1>. DEFINE f == CHOOSE f : f = WalkOver(p, s, Len(s), f)
<1>1. f = WalkOver(p, s, Len(s), f)
    BY WalkExists
<1>2. Walked(p, s) = f[Len(s)]
    BY DEF Walked, WalkOver, WalkStart
<1>. HIDE DEF f
<1>3. \A i \in 0..Len(s) : f[i] = IF i = 0 THEN WalkStart(p) ELSE Walk(f[i - 1], s[i])
    BY <1>1 DEF WalkOver
<1>. QED BY <1>2, <1>3

(* What the loop leaves: it has taken the first k transactions, and either *)
(* that is all or it waits, because the next number is missing.            *)
WalkResult(p, s, w, i) ==
    /\ w \in [last : Nat, elapsed : Nat \cup {Unset}, taken : Seq(Numbered), stopped : BOOLEAN]
    /\ Len(w.taken) <= i
    /\ \A j \in 1..Len(w.taken) : w.taken[j] = s[j]
    /\ w.last = IF Len(w.taken) = 0 THEN last[p] ELSE s[Len(w.taken)].index
    /\ w.stopped => /\ Len(w.taken) < i /\ w.elapsed # Unset
                    /\ s[Len(w.taken) + 1].index # w.last + 1
    /\ ~w.stopped => /\ Len(w.taken) = i /\ w.elapsed \in {elapsed[p], Unset}
                     /\ i > 0 /\ s[1].index # last[p] + 1 => w.elapsed = Unset

LEMMA WalkStep ==
    ASSUME NEW p, NEW s \in Seq(Numbered), NEW w, NEW i \in 1..Len(s),
           last[p] \in Nat, elapsed[p] \in Nat \cup {Unset}, WalkResult(p, s, w, i - 1)
    PROVE  WalkResult(p, s, Walk(w, s[i]), i)
<1>. DEFINE v == Walk(w, s[i])
            waited == IF w.elapsed = Unset THEN 0 ELSE w.elapsed
<1>. DEFINE Typed(x) ==
                x \in [last : Nat, elapsed : Nat \cup {Unset}, taken : Seq(Numbered), stopped : BOOLEAN]
<1>0. s[i] \in Numbered /\ s[i].index \in Nat
    <2>1. s[i] \in Numbered
        OBVIOUS
    <2>. QED BY <2>1 DEF Numbered
<1>a. Typed(w) /\ w.taken \in Seq(Numbered) /\ w.stopped \in BOOLEAN
    BY DEF WalkResult
<1>1. CASE w.stopped
    BY <1>1 DEF WalkResult, Walk
<1>2. CASE ~w.stopped /\ (s[i].index = w.last + 1 \/ waited > SkipLimit)
    <2>1. /\ v.last = s[i].index /\ v.taken = Append(w.taken, s[i]) /\ v.stopped = w.stopped
          /\ Typed(v)
          /\ v.elapsed = w.elapsed \/ v.elapsed = Unset
          /\ s[i].index # w.last + 1 => v.elapsed = Unset
        <3>0. Append(w.taken, s[i]) \in Seq(Numbered)
            BY <1>a, <1>0
        <3>1. CASE s[i].index = w.last + 1
            <4>1. v = [w EXCEPT !.last = s[i].index, !.taken = Append(@, s[i])]
                BY <1>2, <3>1 DEF Walk
            <4>. QED BY <4>1, <1>a, <1>0, <3>0, <3>1
        <3>2. CASE s[i].index # w.last + 1
            <4>1. v = [w EXCEPT !.last = s[i].index, !.taken = Append(@, s[i]), !.elapsed = Unset]
                BY <1>2, <3>2 DEF Walk
            <4>. QED BY <4>1, <1>a, <1>0, <3>0, <3>2
        <3>. QED BY <3>1, <3>2
    <2>2. /\ Len(w.taken) = i - 1 /\ \A j \in 1..i - 1 : w.taken[j] = s[j]
          /\ w.elapsed \in {elapsed[p], Unset}
          /\ w.last = IF i - 1 = 0 THEN last[p] ELSE s[i - 1].index
          /\ i - 1 > 0 /\ s[1].index # last[p] + 1 => w.elapsed = Unset
        BY <1>2 DEF WalkResult
    <2>. SUFFICES WalkResult(p, s, v, i)
        OBVIOUS
    <2>. HIDE DEF v
    <2>3. Len(v.taken) = i /\ \A j \in 1..i : v.taken[j] = s[j]
        BY <2>1, <2>2, <1>a, <1>0
    <2>4. s[1].index # last[p] + 1 => v.elapsed = Unset
        <3>1. CASE i = 1
            BY <2>1, <2>2, <3>1
        <3>2. CASE i # 1
            BY <2>1, <2>2, <3>2
        <3>. QED BY <3>1, <3>2
    <2>. QED BY <2>1, <2>2, <2>3, <2>4, <1>2, <1>0 DEF WalkResult
<1>3. CASE ~w.stopped /\ s[i].index # w.last + 1 /\ ~(waited > SkipLimit)
    <2>1. v = [w EXCEPT !.elapsed = waited, !.stopped = TRUE]
        BY <1>3 DEF Walk
    <2>2. waited \in Nat /\ waited # Unset
        BY <1>a DEF Unset
    <2>3. /\ Typed(v) /\ v.last = w.last /\ v.taken = w.taken /\ v.stopped
          /\ v.elapsed = waited
        BY <2>1, <2>2, <1>a
    <2>4. /\ Len(w.taken) = i - 1 /\ \A j \in 1..i - 1 : w.taken[j] = s[j]
          /\ w.last = IF i - 1 = 0 THEN last[p] ELSE s[i - 1].index
        BY <1>3 DEF WalkResult
    <2>. SUFFICES WalkResult(p, s, v, i)
        OBVIOUS
    <2>. HIDE DEF v, waited
    <2>. QED BY <2>2, <2>3, <2>4, <1>3, <1>0 DEF WalkResult
<1>. QED BY <1>1, <1>2, <1>3

LEMMA WalkedIsPrefix ==
    ASSUME NEW p, NEW s \in Seq(Numbered), last[p] \in Nat, elapsed[p] \in Nat \cup {Unset}
    PROVE  WalkResult(p, s, Walked(p, s), Len(s))
<1>1. PICK f : /\ f[0] = WalkStart(p)
               /\ \A i \in 1..Len(s) : f[i] = Walk(f[i - 1], s[i])
               /\ Walked(p, s) = f[Len(s)]
    BY WalkedSteps
<1>. DEFINE S == {i \in 0..Len(s) : WalkResult(p, s, f[i], i)}
<1>2. 0 \in S
    <2>1. f[0] = [last |-> last[p], elapsed |-> elapsed[p], taken |-> <<>>, stopped |-> FALSE]
        BY <1>1 DEF WalkStart
    <2>2. Len(f[0].taken) = 0 /\ ~f[0].stopped /\ f[0].last = last[p] /\ f[0].elapsed = elapsed[p]
          /\ f[0] \in [last : Nat, elapsed : Nat \cup {Unset}, taken : Seq(Numbered), stopped : BOOLEAN]
        BY <2>1
    <2>3. WalkResult(p, s, f[0], 0)
        BY <2>2 DEF WalkResult
    <2>. QED BY <2>3
<1>3. \A i \in 1..Len(s) : i - 1 \in S => i \in S
    <2>. SUFFICES ASSUME NEW i \in 1..Len(s), i - 1 \in S PROVE i \in S
        OBVIOUS
    <2>1. WalkResult(p, s, f[i - 1], i - 1) /\ f[i] = Walk(f[i - 1], s[i])
        BY <1>1
    <2>2. WalkResult(p, s, Walk(f[i - 1], s[i]), i)
        BY <2>1, WalkStep
    <2>3. WalkResult(p, s, f[i], i) /\ i \in 0..Len(s)
        BY <2>1, <2>2
    <2>. QED BY <2>3
<1>4. \A i \in 0..Len(s) : i \in S
    <2>1. Len(s) \in Nat
        OBVIOUS
    <2>. HIDE DEF S
    <2>. QED BY <1>2, <1>3, <2>1, UpTo
<1>. QED BY <1>1, <1>4

(* std::sort keeps all the transactions, once each.                        *)
LEMMA SortedAll ==
    ASSUME NEW T \in SUBSET Numbered, IsFiniteSet(T), NEW s \in SortedByIndex(T)
    PROVE  /\ s \in Seq(Numbered) /\ DOMAIN s = 1..Len(s)
           /\ \A i, j \in DOMAIN s : i < j => s[i].index <= s[j].index /\ s[i] # s[j]
           /\ \A i \in DOMAIN s : s[i] \in T
           /\ \A t \in T : \E i \in DOMAIN s : s[i] = t
<1>. DEFINE n == Cardinality(T)
<1>1. n \in Nat
    BY FS_CardinalityType
<1>2. /\ s \in [1..n -> T] /\ \A i, j \in 1..n : i # j => s[i] # s[j]
      /\ \A i, j \in DOMAIN s : i < j => s[i].index <= s[j].index
    BY DEF SortedByIndex, SetToSeqs
<1>3. IsFiniteSet(1..n) /\ Cardinality(1..n) = n
    BY <1>1, FS_Interval
<1>4. s \in Injection(1..n, T)
    BY <1>2 DEF Injection, IsInjective
<1>5. s \in Surjection(1..n, T)
    BY <1>3, <1>4, FS_Injection
<1>6. \A t \in T : \E i \in 1..n : s[i] = t
    BY <1>5 DEF Surjection
<1>7. s \in Seq(Numbered) /\ Len(s) = n
    BY <1>1, <1>2
<1>. QED BY <1>2, <1>6, <1>7
----------------------------------------------------------------------------
(* The order of the transactions                                           *)

(* A proxy numbers its parcels in turn while no two commits run on it.     *)
InRange(t) ==
    /\ 0 < t.id /\ t.id <= made[t.conn]
    /\ t.conn \notin overlapped => t.index = t.id

StubTypes ==
    \A c \in Conns :
        stub[c] \in {<<"idle">>, <<"request">>} \/ \E t \in Numbered : stub[c] = <<"store", t>>
TaskTypes == tasks \in Seq({<<t>> : t \in Numbered} \cup {Barrier})
MainTypes ==
    /\ Known \subseteq Pids /\ last \in [Known -> Nat]
    /\ elapsed \in [Pids -> Nat \cup {Unset}]
    /\ pending \in [Pids -> SUBSET Numbered]
    /\ \A p \in Pids : IsFiniteSet(pending[p]) /\ \A t \in pending[p] : PidOf(t.conn) = p
    /\ processed \in [Pids -> Seq(Numbered)]
    /\ finished \in Nat
DataTypes ==
    /\ made \in [Conns -> Nat] /\ wire \in [Conns -> Seq([big : BOOLEAN, data : Numbered])]
    /\ DOMAIN stub = Conns
    /\ StubTypes /\ TaskTypes
    /\ cached \in SUBSET Numbered /\ IsFiniteSet(cached)
    /\ unmarshalled \in SUBSET Numbered /\ IsFiniteSet(unmarshalled)
    /\ MainTypes

(* Where a transaction is: sent, handled by the IPC thread, arrived, or    *)
(* processed.                                                              *)
OnWire(t) == \E i \in DOMAIN wire[t.conn] : wire[t.conn][i].data = t
AtStub(t) == stub[t.conn] = <<"store", t>>
InTasks(t) == \E j \in DOMAIN tasks : tasks[j] = <<t>>
InPending(t) == \E p \in Pids : t \in pending[p]
Arrived(t) == t \in cached \/ t \in unmarshalled \/ InTasks(t) \/ InPending(t)
InProcessed(t) == \E p \in Pids : \E j \in DOMAIN processed[p] : t = processed[p][j]

(* A transaction on its way is not processed yet.                         *)
OnItsWay(t) == OnWire(t) \/ AtStub(t) \/ Arrived(t)
NoneAdded ==
    \A t \in Numbered : /\ OnItsWay(t)' => OnItsWay(t)
                        /\ InProcessed(t)' => InProcessed(t) \/ OnItsWay(t)

(* A connection's transactions come in order.                              *)
WireOrder ==
    \A c \in Conns :
        /\ \A i \in DOMAIN wire[c] : wire[c][i].data.conn = c /\ InRange(wire[c][i].data)
        /\ \A i, j \in DOMAIN wire[c] : i < j => Before(wire[c][i].data, wire[c][j].data)
        /\ \A t \in Numbered : stub[c] = <<"store", t>> => t.conn = c /\ InRange(t)
ArrivalOrder ==
    /\ \A t, u \in Numbered : AtStub(t) /\ OnWire(u) => Before(t, u)
    /\ \A t \in Numbered : Arrived(t) \/ InProcessed(t) =>
          /\ InRange(t)
          /\ \A u \in Numbered : AtStub(u) \/ OnWire(u) => Before(t, u)

(* The unmarshalling thread keeps the order of its tasks.                  *)
TaskOrder ==
    /\ \A i, j \in DOMAIN tasks : i < j =>
          \A t, u \in Numbered : tasks[i] = <<t>> /\ tasks[j] = <<u>> => Before(t, u)
    /\ \A t \in unmarshalled : \A u \in Numbered : InTasks(u) => Before(t, u)

(* A frame waits for the one barrier that it posted.                       *)
NoBarrier == \A j \in DOMAIN tasks : tasks[j] # Barrier
BarrierOnce ==
    /\ mainPc \in {"idle", "frame"}
    /\ \A i, j \in DOMAIN tasks : tasks[i] = Barrier /\ tasks[j] = Barrier => i = j
    /\ finished = 0 \/ (finished = 1 /\ mainPc = "frame" /\ NoBarrier)
    /\ mainPc = "idle" => NoBarrier

(* What the frame under way will find, and what comes too late for it.     *)
Old(t) ==
    \/ InPending(t)
    \/ t \in unmarshalled /\ ~NoBarrier
    \/ \E j, k \in DOMAIN tasks : j < k /\ tasks[j] = <<t>> /\ tasks[k] = Barrier
New(t) ==
    \/ t \in cached
    \/ t \in unmarshalled /\ NoBarrier
    \/ \E j \in DOMAIN tasks :
          tasks[j] = <<t>> /\ \A k \in DOMAIN tasks : tasks[k] = Barrier => k < j
FrameOrder == \A t, u \in Numbered : Old(t) /\ New(u) => Before(t, u)

ProcessedOrder ==
    /\ \A p \in Pids : \A i, j \in DOMAIN processed[p] :
          i < j => Before(processed[p][i], processed[p][j])
    /\ \A t, u \in Numbered : InProcessed(t) /\ Arrived(u) => Before(t, u)

OrderInv ==
    /\ DataTypes /\ WireOrder /\ ArrivalOrder /\ TaskOrder /\ BarrierOnce /\ FrameOrder
    /\ ProcessedOrder

(* What a commit has numbered and not sent yet.                            *)
Filled(c, m) == commit[c][m].parcels
InUnsent(t) == \E m \in Mutexes : \E i \in DOMAIN Filled(t.conn, m) : Filled(t.conn, m)[i] = t
Coming(t) == InUnsent(t) \/ OnItsWay(t)

CommitLabels == {"none", "load", "store", "fill", "send"}
Running == [pc : CommitLabels, loaded : Nat, parcels : Seq(Numbered)]
CommitTypes ==
    /\ index \in [Conns -> Nat] /\ made \in [Conns -> Nat]
    /\ commit \in [Conns -> [Mutexes -> Running]]

(* It comes after what was sent, and what another commit has is not it.    *)
UnsentOrder ==
    \A c \in Conns, m \in Mutexes :
        /\ \A i \in DOMAIN Filled(c, m) : Filled(c, m)[i].conn = c /\ InRange(Filled(c, m)[i])
        /\ \A i, j \in DOMAIN Filled(c, m) : i < j => Before(Filled(c, m)[i], Filled(c, m)[j])
        /\ \A o \in Mutexes : m # o =>
              \A i \in DOMAIN Filled(c, m) : \A j \in DOMAIN Filled(c, o) :
                 Filled(c, m)[i] # Filled(c, o)[j]
SentOrder ==
    \A t, u \in Numbered : (OnItsWay(t) \/ InProcessed(t)) /\ InUnsent(u) => Before(t, u)

(* While no two commits run at a time, transactionDataIndex_ is the number *)
(* of parcels, up to the one that a commit is at.                          *)
Counted(c) ==
    /\ \A m \in Mutexes :
         /\ PidOf(c) \notin alive => At(c, m, "none")
         /\ At(c, m, "none") => Filled(c, m) = <<>>
         /\ At(c, m, "send") => Filled(c, m) # <<>>
         /\ c \notin overlapped =>
              /\ At(c, m, "store") => commit[c][m].loaded = made[c]
              /\ At(c, m, "fill") => commit[c][m].loaded = made[c] /\ index[c] = made[c] + 1
              /\ \A o \in Mutexes : ~At(c, m, "none") /\ ~At(c, o, "none") => m = o
    /\ c \notin overlapped /\ PidOf(c) \in alive /\ (\A m \in Mutexes : ~At(c, m, "fill")) =>
         index[c] = made[c]

SendInv == CommitTypes /\ UnsentOrder /\ SentOrder /\ \A c \in Conns : Counted(c)

LEMMA InitOrder == Init => OrderInv
<1>. SUFFICES ASSUME Init PROVE OrderInv
    OBVIOUS
<1>. USE DEF Init, DataInit
<1>1. DataTypes
    BY FS_EmptySet DEF DataTypes, StubTypes, TaskTypes, MainTypes, Known, Unset
<1>2. \A t \in Numbered : ~OnWire(t) /\ ~AtStub(t) /\ ~Arrived(t) /\ ~InProcessed(t)
    <2>. TAKE t \in Numbered
    <2>1. t.conn \in Conns
        BY DEF Numbered
    <2>. QED BY <2>1 DEF OnWire, AtStub, Arrived, InTasks, InPending, InProcessed
<1>3. WireOrder /\ BarrierOnce
    BY DEF WireOrder, BarrierOnce, NoBarrier
<1>4. \A t \in Numbered : ~Old(t)
    BY <1>2 DEF Old, Arrived
<1>5. ArrivalOrder
    BY <1>2 DEF ArrivalOrder
<1>6. FrameOrder
    BY <1>4 DEF FrameOrder
<1>7. TaskOrder /\ ProcessedOrder
    BY <1>2 DEF TaskOrder, ProcessedOrder
<1>. QED BY <1>1, <1>3, <1>5, <1>6, <1>7 DEF OrderInv

LEMMA WireTypes ==
    ASSUME DataTypes, NEW c \in Conns, NEW i \in DOMAIN wire[c]
    PROVE  wire[c][i].data \in Numbered
<1>. DEFINE Parcels == [big : BOOLEAN, data : Numbered]
<1>1. wire[c] \in Seq(Parcels)
    BY DEF DataTypes
<1>. HIDE DEF Parcels
<1>2. wire[c][i] \in Parcels
    BY <1>1
<1>. QED BY <1>2 DEF Parcels

(* The order of two is given up only when commits overlap on their proxy.  *)
LEMMA Grows ==
    ASSUME made \in [Conns -> Nat], made' \in [Conns -> Nat], \A c \in Conns : made[c] <= made'[c],
           overlapped \subseteq overlapped'
    PROVE  /\ \A t, u : Before(t, u) => Before(t, u)'
           /\ \A t \in Numbered : InRange(t) => InRange(t)'
<1>1. \A t, u : Before(t, u) => Before(t, u)'
    BY DEF Before
<1>2. ASSUME NEW t \in Numbered, InRange(t)
      PROVE  InRange(t)'
    <2>1. t.conn \in Conns /\ t.id \in Nat
        BY DEF Numbered
    <2>2. made[t.conn] \in Nat /\ made'[t.conn] \in Nat /\ made[t.conn] <= made'[t.conn]
        BY <2>1
    <2>. QED BY <1>2, <2>1, <2>2 DEF InRange
<1>. QED BY <1>1, <1>2

LEMMA SameOrder ==
    ASSUME UNCHANGED <<made, overlapped>>
    PROVE  /\ \A t, u : Before(t, u)' <=> Before(t, u)
           /\ \A t : InRange(t)' <=> InRange(t)
BY DEF Before, InRange

(* Steps that leave the pipeline alone: a client may number parcels.       *)
LEMMA GrowOrder ==
    ASSUME OrderInv, made' \in [Conns -> Nat], \A c \in Conns : made[c] <= made'[c],
           overlapped \subseteq overlapped',
           UNCHANGED <<wire, stub, cached, tasks, unmarshalled, mainVars>>
    PROVE  OrderInv' /\ NoneAdded
<1>0. /\ \A t, u : Before(t, u) => Before(t, u)'
      /\ \A t \in Numbered : InRange(t) => InRange(t)'
    BY Grows DEF OrderInv, DataTypes
<1>. USE DEF mainVars
<1>1. \A t : /\ OnWire(t)' <=> OnWire(t)
             /\ AtStub(t)' <=> AtStub(t)
             /\ Arrived(t)' <=> Arrived(t)
             /\ InProcessed(t)' <=> InProcessed(t)
             /\ Old(t)' <=> Old(t)
             /\ New(t)' <=> New(t)
             /\ InTasks(t)' <=> InTasks(t)
    BY DEF OnWire, AtStub, Arrived, InTasks, InPending, InProcessed, Old, New, NoBarrier
<1>2. DataTypes'
    BY DEF OrderInv, DataTypes, StubTypes, TaskTypes, MainTypes, Known
<1>3. WireOrder' /\ BarrierOnce'
    <2>1. \A c \in Conns : \A i \in DOMAIN wire[c] : wire[c][i].data \in Numbered
        BY WireTypes DEF OrderInv
    <2>2. WireOrder'
        BY <1>0, <2>1 DEF OrderInv, WireOrder
    <2>. QED BY <2>2 DEF OrderInv, BarrierOnce, NoBarrier
<1>4. ArrivalOrder' /\ FrameOrder'
    BY <1>0, <1>1 DEF OrderInv, ArrivalOrder, FrameOrder
<1>5. TaskOrder'
    BY <1>0, <1>1 DEF OrderInv, TaskOrder
<1>6. ProcessedOrder'
    BY <1>0, <1>1 DEF OrderInv, ProcessedOrder
<1>. QED BY <1>1, <1>2, <1>3, <1>4, <1>5, <1>6 DEF OrderInv, NoneAdded, OnItsWay

LEMMA QuietOrder ==
    ASSUME OrderInv, UNCHANGED <<made, overlapped, wire, stub, cached, tasks, unmarshalled, mainVars>>
    PROVE  OrderInv' /\ NoneAdded
<1>1. \A c \in Conns : made[c] \in Nat /\ made[c] <= made'[c]
    BY DEF OrderInv, DataTypes
<1>2. made' \in [Conns -> Nat]
    BY DEF OrderInv, DataTypes
<1>. QED BY <1>1, <1>2, GrowOrder

(* The IPC thread ends a call.                                             *)
LEMMA StubRequestsOrder ==
    ASSUME OrderInv, NEW c \in Conns, StubRequestsVSync(c)
    PROVE  OrderInv' /\ NoneAdded
<1>. USE DEF StubRequestsVSync, clientVars, commitVars, mainVars
<1>s. /\ \A t, u : Before(t, u)' <=> Before(t, u)
      /\ \A t : InRange(t)' <=> InRange(t)
    BY SameOrder
<1>. USE <1>s
<1>0. DOMAIN stub = Conns
    BY DEF OrderInv, DataTypes
<1>1. \A t \in Numbered : 
             /\ OnWire(t)' <=> OnWire(t)
             /\ AtStub(t)' => AtStub(t)
             /\ Arrived(t)' <=> Arrived(t)
             /\ InProcessed(t)' <=> InProcessed(t)
             /\ Old(t)' <=> Old(t)
             /\ New(t)' <=> New(t)
             /\ InTasks(t)' <=> InTasks(t)
    BY <1>0 DEF OnWire, AtStub, Arrived, InTasks, InPending, InProcessed, Old, New, NoBarrier, Numbered
<1>2. DataTypes'
    BY <1>0 DEF OrderInv, DataTypes, StubTypes, TaskTypes, MainTypes, Known
<1>3. WireOrder' /\ BarrierOnce'
    BY <1>0 DEF OrderInv, WireOrder, BarrierOnce, NoBarrier
<1>4. ArrivalOrder' /\ FrameOrder'
    BY <1>1 DEF OrderInv, ArrivalOrder, FrameOrder
<1>5. TaskOrder' /\ ProcessedOrder'
    BY <1>1 DEF OrderInv, TaskOrder, ProcessedOrder
<1>. QED BY <1>1, <1>2, <1>3, <1>4, <1>5 DEF OrderInv, NoneAdded, OnItsWay

(* What the IPC thread stores is later than all that has arrived.          *)
LEMMA StubStoresOrder ==
    ASSUME OrderInv, NEW c \in Conns, StubStores(c)
    PROVE  OrderInv' /\ NoneAdded
<1>. USE DEF StubStores, clientVars, commitVars, mainVars
<1>s. /\ \A t, u : Before(t, u)' <=> Before(t, u)
      /\ \A t : InRange(t)' <=> InRange(t)
    BY SameOrder
<1>. USE <1>s
<1>0. DOMAIN stub = Conns
    BY DEF OrderInv, DataTypes
<1>1. PICK s \in Numbered : stub[c] = <<"store", s>>
    BY DEF OrderInv, DataTypes, StubTypes
<1>2. s.conn = c /\ stub[c][2] = s
    BY <1>1 DEF OrderInv, WireOrder
<1>3. \A t \in Numbered :
             /\ OnWire(t)' <=> OnWire(t)
             /\ AtStub(t)' => AtStub(t)
             /\ InProcessed(t)' <=> InProcessed(t)
             /\ Old(t)' <=> Old(t)
             /\ InTasks(t)' <=> InTasks(t)
    BY <1>0 DEF OnWire, AtStub, InTasks, InPending, InProcessed, Old, NoBarrier, Numbered
<1>4. \A t : /\ Arrived(t)' => Arrived(t) \/ t = s
             /\ New(t)' => New(t) \/ t = s
    BY <1>2 DEF Arrived, InTasks, InPending, New, NoBarrier
<1>5. AtStub(s) /\ ~AtStub(s)'
    BY <1>0, <1>1, <1>2 DEF AtStub
<1>6. \A t \in Numbered : AtStub(t)' => t.conn # c
    BY <1>0 DEF AtStub
<1>7. InRange(s)
    BY <1>1, <1>2 DEF OrderInv, WireOrder
<1>8. \A t \in Numbered : Old(t) => Arrived(t)
    BY DEF Old, Arrived, InTasks
<1>9. DataTypes'
    <2>0. cached' = cached \cup {s} /\ IsFiniteSet(cached)
        BY <1>2 DEF OrderInv, DataTypes
    <2>1. IsFiniteSet(cached')
        BY <2>0, FS_AddElement
    <2>. QED BY <1>0, <1>2, <2>1 DEF OrderInv, DataTypes, StubTypes, TaskTypes, MainTypes, Known
<1>10. WireOrder' /\ BarrierOnce'
    BY <1>0 DEF OrderInv, WireOrder, BarrierOnce, NoBarrier
<1>11. ArrivalOrder'
    <2>1. \A u \in Numbered : AtStub(u)' \/ OnWire(u)' => Before(s, u)
        BY <1>2, <1>3, <1>5, <1>6 DEF OrderInv, ArrivalOrder, Before
    <2>. QED BY <1>3, <1>4, <1>7, <2>1 DEF OrderInv, ArrivalOrder
<1>12. FrameOrder'
    BY <1>3, <1>4, <1>5, <1>8 DEF OrderInv, FrameOrder, ArrivalOrder
<1>13. TaskOrder'
    BY <1>3 DEF OrderInv, TaskOrder
<1>14. ProcessedOrder'
    BY <1>3, <1>4, <1>5 DEF OrderInv, ProcessedOrder, ArrivalOrder
<1>. QED BY <1>3, <1>4, <1>5, <1>9, <1>10, <1>11, <1>12, <1>13, <1>14 DEF OrderInv, NoneAdded, OnItsWay

(* The IPC thread takes the first parcel off the wire.                     *)
LEMMA WireTaken ==
    ASSUME OrderInv, NEW c \in Conns, wire[c] # <<>>, wire' = [wire EXCEPT ![c] = Tail(@)]
    PROVE  /\ Head(wire[c]).data \in Numbered /\ OnWire(Head(wire[c]).data)
           /\ Head(wire[c]).data.conn = c
           /\ wire' \in [Conns -> Seq([big : BOOLEAN, data : Numbered])]
           /\ \A t \in Numbered : OnWire(t)' => OnWire(t)
           /\ \A t \in Numbered : OnWire(t)' => Before(Head(wire[c]).data, t)
           /\ \A d \in Conns :
                /\ \A i \in DOMAIN wire'[d] : wire'[d][i].data.conn = d /\ InRange(wire'[d][i].data)
                /\ \A i, j \in DOMAIN wire'[d] : i < j => Before(wire'[d][i].data, wire'[d][j].data)
<1>. DEFINE Parcels == [big : BOOLEAN, data : Numbered]
<1>0. wire \in [Conns -> Seq(Parcels)]
    BY DEF OrderInv, DataTypes
<1>a. wire[c] \in Seq(Parcels)
    BY <1>0
<1>1. /\ wire[c] \in Seq(Parcels) /\ Head(wire[c]) = wire[c][1] /\ 1 \in DOMAIN wire[c]
      /\ wire[c][1] \in Parcels
    <2>. HIDE DEF Parcels
    <2>. QED BY <1>a
<1>2. /\ wire'[c] = Tail(wire[c]) /\ Tail(wire[c]) \in Seq(Parcels)
      /\ \A d \in Conns \ {c} : wire'[d] = wire[d]
      /\ wire' \in [Conns -> Seq(Parcels)]
    <2>. HIDE DEF Parcels
    <2>1. Tail(wire[c]) \in Seq(Parcels)
        BY <1>1
    <2>. QED BY <1>0, <2>1
<1>3. \A i \in DOMAIN wire'[c] :
        i + 1 \in DOMAIN wire[c] /\ 1 < i + 1 /\ i \in Nat /\ wire'[c][i] = wire[c][i + 1]
    BY <1>1, <1>2
<1>4. Head(wire[c]).data \in Numbered /\ Head(wire[c]).data.conn = c
    BY <1>1 DEF OrderInv, WireOrder
<1>5. OnWire(Head(wire[c]).data)
    BY <1>1, <1>4 DEF OnWire
<1>6. \A t \in Numbered : OnWire(t)' => OnWire(t) /\ (t.conn = c => \E i \in DOMAIN wire[c] :
                                                  1 < i /\ wire[c][i].data = t)
    <2>. TAKE t \in Numbered
    <2>1. t.conn \in Conns
        BY DEF Numbered
    <2>2. CASE t.conn = c
        BY <1>3, <2>2 DEF OnWire
    <2>3. CASE t.conn # c
        BY <1>2, <2>1, <2>3 DEF OnWire
    <2>. QED BY <2>2, <2>3
<1>7. \A t \in Numbered : OnWire(t)' => Before(Head(wire[c]).data, t)
    BY <1>1, <1>4, <1>6 DEF OrderInv, WireOrder, Before
<1>8. \A d \in Conns : \A i \in DOMAIN wire'[d] :
        wire'[d][i].data.conn = d /\ InRange(wire'[d][i].data)
    <2>. TAKE d \in Conns
    <2>1. CASE d = c
        BY <1>3, <2>1 DEF OrderInv, WireOrder
    <2>2. CASE d # c
        BY <1>2, <2>2 DEF OrderInv, WireOrder
    <2>. QED BY <2>1, <2>2
<1>9. \A d \in Conns : \A i, j \in DOMAIN wire'[d] :
        i < j => Before(wire'[d][i].data, wire'[d][j].data)
    <2>. TAKE d \in Conns
    <2>1. CASE d = c
        <3>. SUFFICES ASSUME NEW i \in DOMAIN wire'[c], NEW j \in DOMAIN wire'[c], i < j
                      PROVE  Before(wire'[c][i].data, wire'[c][j].data)
            BY <2>1
        <3>1. i + 1 \in DOMAIN wire[c] /\ j + 1 \in DOMAIN wire[c] /\ i + 1 < j + 1
            BY <1>3
        <3>2. Before(wire[c][i + 1].data, wire[c][j + 1].data)
            BY <3>1 DEF OrderInv, WireOrder
        <3>. QED BY <1>3, <3>2
    <2>2. CASE d # c
        BY <1>2, <2>2 DEF OrderInv, WireOrder
    <2>. QED BY <2>1, <2>2
<1>. QED BY <1>2, <1>4, <1>5, <1>6, <1>7, <1>8, <1>9

LEMMA StubReceivesOrder ==
    ASSUME OrderInv, NEW c \in Conns, StubReceives(c)
    PROVE  OrderInv' /\ NoneAdded
<1>. DEFINE s == Head(wire[c]).data
<1>0. DOMAIN stub = Conns /\ stub[c] = <<"idle">> /\ wire[c] # <<>>
      /\ wire' = [wire EXCEPT ![c] = Tail(@)]
    BY DEF OrderInv, DataTypes, StubReceives
<1>1. /\ s \in Numbered /\ OnWire(s) /\ s.conn = c
      /\ wire' \in [Conns -> Seq([big : BOOLEAN, data : Numbered])]
      /\ \A t \in Numbered : OnWire(t)' => OnWire(t)
      /\ \A t \in Numbered : OnWire(t)' => Before(s, t)
      /\ \A d \in Conns :
            /\ \A i \in DOMAIN wire'[d] : wire'[d][i].data.conn = d /\ InRange(wire'[d][i].data)
            /\ \A i, j \in DOMAIN wire'[d] : i < j => Before(wire'[d][i].data, wire'[d][j].data)
    BY <1>0, WireTaken
<1>2. InRange(s)
    BY <1>1 DEF OrderInv, WireOrder, OnWire
<1>3. /\ UNCHANGED <<made, overlapped, cached, unmarshalled, mainVars>>
      /\ \/ /\ tasks' = Append(tasks, <<s>>)
            /\ stub' = [stub EXCEPT ![c] = <<"request">>]
         \/ /\ tasks' = tasks
            /\ stub' = [stub EXCEPT ![c] = <<"store", s>>]
    BY DEF StubReceives, commitVars
<1>. HIDE DEF s
<1>s. /\ \A t, u : Before(t, u)' <=> Before(t, u)
      /\ \A t : InRange(t)' <=> InRange(t)
    BY SameOrder, <1>3
<1>. USE <1>s
<1>. USE DEF mainVars
<1>4. ~Arrived(s) /\ ~InProcessed(s) /\ ~Old(s)
      /\ \A t \in Numbered : Arrived(t) \/ InProcessed(t) => Before(t, s)
    BY <1>1 DEF OrderInv, ArrivalOrder, Arrived, Old, InTasks, Before, Numbered
<1>5. CASE tasks' = tasks /\ stub' = [stub EXCEPT ![c] = <<"store", s>>]
    <2>1. \A t \in Numbered :
             /\ AtStub(t)' => AtStub(t) \/ t = s
             /\ InProcessed(t)' <=> InProcessed(t)
             /\ Old(t)' <=> Old(t) 
             /\ New(t)' <=> New(t) 
             /\ Arrived(t)' <=> Arrived(t) 
             /\ InTasks(t)' <=> InTasks(t)
        BY <1>0, <1>1, <1>3, <1>5
           DEF AtStub, Arrived, InTasks, InPending, InProcessed, Old, New, NoBarrier, Numbered
    <2>2. \A d \in Conns : \A t \in Numbered :
            stub'[d] = <<"store", t>> => stub[d] = <<"store", t>> \/ (d = c /\ t = s)
        BY <1>0, <1>5
    <2>3. DataTypes'
        <3>1. StubTypes'
            BY <1>0, <1>1, <1>5 DEF OrderInv, DataTypes, StubTypes
        <3>. QED BY <1>0, <1>1, <1>3, <1>5, <3>1 DEF OrderInv, DataTypes, TaskTypes, MainTypes, Known
    <2>4. WireOrder'
        BY <1>1, <1>2, <1>3, <2>2 DEF OrderInv, WireOrder
    <2>5. BarrierOnce'
        BY <1>3, <1>5 DEF OrderInv, BarrierOnce, NoBarrier
    <2>6. ArrivalOrder'
        BY <1>1, <1>3, <1>4, <2>1 DEF OrderInv, ArrivalOrder
    <2>7. FrameOrder' /\ TaskOrder' /\ ProcessedOrder'
        BY <1>3, <1>5, <2>1 DEF OrderInv, FrameOrder, TaskOrder, ProcessedOrder
    <2>. QED BY <1>1, <2>1, <2>3, <2>4, <2>5, <2>6, <2>7 DEF OrderInv, NoneAdded, OnItsWay
<1>6. CASE tasks' = Append(tasks, <<s>>) /\ stub' = [stub EXCEPT ![c] = <<"request">>]
    <2>. DEFINE n == Len(tasks) + 1
    <2>0. /\ tasks \in Seq({<<t>> : t \in Numbered} \cup {Barrier}) /\ n \in Nat
          /\ tasks' \in Seq({<<t>> : t \in Numbered} \cup {Barrier})
        BY <1>1, <1>6 DEF OrderInv, DataTypes, TaskTypes
    <2>1. /\ DOMAIN tasks = 1..n - 1 /\ DOMAIN tasks' = 1..n
          /\ \A j \in 1..n - 1 : tasks'[j] = tasks[j]
          /\ tasks'[n] = <<s>> /\ <<s>> # Barrier
        BY <1>6, <2>0 DEF Barrier
    <2>a. /\ \A j \in DOMAIN tasks : j \in DOMAIN tasks' /\ tasks'[j] = tasks[j] /\ j < n /\ j \in Nat
          /\ \A j \in DOMAIN tasks' : j \in Nat /\ (j \in DOMAIN tasks \/ j = n)
          /\ n \in DOMAIN tasks'
        BY <2>0, <2>1
    <2>. HIDE DEF n
    <2>2. NoBarrier' <=> NoBarrier
        BY <2>1, <2>a DEF NoBarrier
    <2>3. \A t \in Numbered :
             /\ AtStub(t)' => AtStub(t) /\ t.conn # c
             /\ InProcessed(t)' <=> InProcessed(t)
             /\ InTasks(t)' => InTasks(t) \/ t = s
             /\ Arrived(t)' => Arrived(t) \/ t = s
        <3>. TAKE t \in Numbered
        <3>1. AtStub(t)' => AtStub(t) /\ t.conn # c
            BY <1>0, <1>6 DEF AtStub, Numbered
        <3>2. InProcessed(t)' <=> InProcessed(t)
            BY <1>3 DEF InProcessed
        <3>3. InTasks(t)' => InTasks(t) \/ t = s
            BY <2>1, <2>a DEF InTasks
        <3>. QED BY <1>3, <3>1, <3>2, <3>3 DEF Arrived, InPending
    <2>4. \A t \in Numbered : Old(t)' => Old(t)
        <3>1. ASSUME NEW j \in DOMAIN tasks', NEW k \in DOMAIN tasks', tasks'[k] = Barrier, j < k
              PROVE  k \in DOMAIN tasks /\ j \in DOMAIN tasks
            <4>1. k # n
                BY <2>1, <3>1
            <4>2. k \in DOMAIN tasks /\ k < n /\ k \in Nat /\ j \in Nat
                BY <2>a, <4>1
            <4>3. j # n
                BY <2>0, <3>1, <4>2
            <4>. QED BY <2>a, <4>2, <4>3
        <3>. QED BY <1>3, <2>1, <2>2, <3>1 DEF Old, InPending
    <2>5. \A t \in Numbered : New(t)' => New(t) \/ t = s
        <3>1. \A t \in Numbered : \A j \in DOMAIN tasks' : tasks'[j] = <<t>> => j \in DOMAIN tasks \/ t = s
            BY <2>1, <2>a
        <3>2. DOMAIN tasks \subseteq DOMAIN tasks'
            BY <2>1, <2>a
        <3>. QED BY <1>3, <2>1, <2>2, <3>1, <3>2 DEF New
    <2>6. DataTypes'
        <3>1. StubTypes'
            BY <1>0, <1>1, <1>6 DEF OrderInv, DataTypes, StubTypes
        <3>. QED BY <1>0, <1>1, <1>3, <1>6, <2>0, <3>1
                 DEF OrderInv, DataTypes, TaskTypes, MainTypes, Known
    <2>7. WireOrder'
        <3>1. \A d \in Conns : \A t \in Numbered : stub'[d] = <<"store", t>> => stub[d] = <<"store", t>>
            BY <1>0, <1>6
        <3>. QED BY <1>1, <1>3, <3>1 DEF OrderInv, WireOrder
    <2>8. BarrierOnce'
        <3>1. \A i \in DOMAIN tasks' : tasks'[i] = Barrier => i \in DOMAIN tasks /\ tasks[i] = Barrier
            BY <2>1, <2>a
        <3>. QED BY <1>3, <2>2, <3>1 DEF OrderInv, BarrierOnce
    <2>9. ArrivalOrder'
        <3>1. \A u \in Numbered : AtStub(u)' \/ OnWire(u)' => Before(s, u)
            BY <1>1, <2>3 DEF Before
        <3>. QED BY <1>1, <1>2, <1>3, <2>3, <3>1 DEF OrderInv, ArrivalOrder
    <2>10. FrameOrder'
        <3>1. \A t \in Numbered : Old(t) => Arrived(t)
            BY DEF Old, Arrived, InTasks
        <3>. QED BY <1>4, <2>4, <2>5, <3>1 DEF OrderInv, FrameOrder
    <2>11. TaskOrder'
        <3>1. ASSUME NEW i \in DOMAIN tasks', NEW j \in DOMAIN tasks', i < j,
                     NEW t \in Numbered, NEW u \in Numbered, tasks'[i] = <<t>>, tasks'[j] = <<u>>
              PROVE  Before(t, u)
            <4>1. i \in DOMAIN tasks /\ tasks[i] = <<t>>
                BY <2>1, <2>a, <3>1
            <4>2. CASE j \in DOMAIN tasks
                BY <2>1, <3>1, <4>1, <4>2 DEF OrderInv, TaskOrder
            <4>3. CASE j \notin DOMAIN tasks
                <5>1. u = s
                    BY <2>1, <2>a, <3>1, <4>3
                <5>2. Arrived(t)
                    BY <4>1 DEF Arrived, InTasks
                <5>. QED BY <5>1, <5>2, <1>4
            <4>. QED BY <4>2, <4>3
        <3>2. \A t \in unmarshalled : \A u \in Numbered : InTasks(u)' => Before(t, u)
            <4>1. \A t \in unmarshalled : t \in Numbered /\ Arrived(t)
                BY DEF OrderInv, DataTypes, Arrived
            <4>. QED BY <4>1, <1>4, <2>3 DEF OrderInv, TaskOrder
        <3>. QED BY <1>3, <3>1, <3>2 DEF TaskOrder
    <2>12. ProcessedOrder'
        BY <1>3, <1>4, <2>3 DEF OrderInv, ProcessedOrder
    <2>. QED BY <1>1, <2>3, <2>6, <2>7, <2>8, <2>9, <2>10, <2>11, <2>12
             DEF OrderInv, NoneAdded, OnItsWay
<1>. QED BY <1>3, <1>5, <1>6

LEMMA Joined ==
    ASSUME NEW S, NEW a \in Seq(S), NEW b \in Seq(S)
    PROVE  /\ Len(a \o b) = Len(a) + Len(b) /\ Len(a) \in Nat /\ Len(b) \in Nat
           /\ DOMAIN (a \o b) = 1..Len(a \o b) /\ DOMAIN a = 1..Len(a)
           /\ \A i \in 1..Len(a) + Len(b) : (a \o b)[i] = IF i <= Len(a) THEN a[i] ELSE b[i - Len(a)]
BY ConcatProperties

(* A parcel that cannot be parsed is dropped.                              *)
LEMMA StubDropsOrder ==
    ASSUME OrderInv, NEW c \in Conns, StubDrops(c)
    PROVE  OrderInv' /\ NoneAdded
<1>0. /\ DOMAIN stub = Conns /\ stub' = [stub EXCEPT ![c] = <<"idle">>]
      /\ UNCHANGED <<made, overlapped, cached, tasks, unmarshalled, mainVars>>
      /\ \/ wire' = wire
         \/ wire[c] # <<>> /\ wire' = [wire EXCEPT ![c] = Tail(@)]
    BY DEF OrderInv, DataTypes, StubDrops, commitVars
<1>s. /\ \A t, u : Before(t, u)' <=> Before(t, u)
      /\ \A t : InRange(t)' <=> InRange(t)
    BY SameOrder, <1>0
<1>. USE <1>s
<1>1. /\ wire' \in [Conns -> Seq([big : BOOLEAN, data : Numbered])]
      /\ \A t \in Numbered : OnWire(t)' => OnWire(t)
      /\ \A d \in Conns :
            /\ \A i \in DOMAIN wire'[d] : wire'[d][i].data.conn = d /\ InRange(wire'[d][i].data)
            /\ \A i, j \in DOMAIN wire'[d] : i < j => Before(wire'[d][i].data, wire'[d][j].data)
    <2>1. CASE wire' = wire
        BY <2>1 DEF OrderInv, DataTypes, WireOrder, OnWire
    <2>2. CASE wire[c] # <<>> /\ wire' = [wire EXCEPT ![c] = Tail(@)]
        BY <2>2, WireTaken
    <2>. QED BY <1>0, <2>1, <2>2
<1>. USE DEF mainVars
<1>2. \A t \in Numbered :
         /\ AtStub(t)' => AtStub(t)
         /\ InProcessed(t)' <=> InProcessed(t)
         /\ Old(t)' <=> Old(t)
         /\ New(t)' <=> New(t)
         /\ Arrived(t)' <=> Arrived(t)
         /\ InTasks(t)' <=> InTasks(t)
    BY <1>0 DEF AtStub, Arrived, InTasks, InPending, InProcessed, Old, New, NoBarrier, Numbered
<1>3. DataTypes'
    <2>1. StubTypes'
        BY <1>0 DEF OrderInv, DataTypes, StubTypes
    <2>. QED BY <1>0, <1>1, <2>1 DEF OrderInv, DataTypes, TaskTypes, MainTypes, Known
<1>4. WireOrder'
    <2>1. \A d \in Conns : \A t \in Numbered : stub'[d] = <<"store", t>> => stub[d] = <<"store", t>>
        BY <1>0
    <2>. QED BY <1>0, <1>1, <2>1 DEF OrderInv, WireOrder
<1>5. BarrierOnce'
    BY <1>0 DEF OrderInv, BarrierOnce, NoBarrier
<1>6. ArrivalOrder'
    BY <1>0, <1>1, <1>2 DEF OrderInv, ArrivalOrder
<1>7. FrameOrder' /\ TaskOrder' /\ ProcessedOrder'
    BY <1>0, <1>2 DEF OrderInv, FrameOrder, TaskOrder, ProcessedOrder
<1>. QED BY <1>1, <1>2, <1>3, <1>4, <1>5, <1>6, <1>7 DEF OrderInv, NoneAdded, OnItsWay

(* A commit sends its first parcel, which comes after all that was sent.   *)
LEMMA SendOrder ==
    ASSUME OrderInv, SendInv, NEW c \in Conns, NEW m \in Mutexes, SendParcel(c, m)
    PROVE  /\ OrderInv'
           /\ Filled(c, m)[1] \in Numbered /\ Filled(c, m)[1].conn = c
           /\ 1 \in DOMAIN Filled(c, m) /\ InUnsent(Filled(c, m)[1])
           /\ \A t \in Numbered : /\ OnItsWay(t)' => OnItsWay(t) \/ t = Filled(c, m)[1]
                                  /\ InProcessed(t)' => InProcessed(t)
<1>. DEFINE Parcels == [big : BOOLEAN, data : Numbered]
            s == Filled(c, m)[1]
            n == Len(wire[c]) + 1
<1>1. /\ UNCHANGED <<made, overlapped, stub, cached, tasks, unmarshalled, mainVars>>
      /\ \E big \in BOOLEAN :
            wire' = [wire EXCEPT ![c] = Append(@, [big |-> big, data |-> Head(Filled(c, m))])]
      /\ Filled(c, m) # <<>>
    BY DEF SendParcel, threadVars, Filled, SendInv, Counted
<1>2. Filled(c, m) \in Seq(Numbered)
    BY DEF SendInv, CommitTypes, Running, Filled
<1>3. 1 \in DOMAIN Filled(c, m) /\ s \in Numbered /\ Head(Filled(c, m)) = s
    BY <1>1, <1>2
<1>. HIDE DEF s
<1>4. s.conn = c /\ InRange(s) /\ InUnsent(s)
    BY <1>3 DEF s, SendInv, UnsentOrder, InUnsent
<1>5. \A t \in Numbered : OnItsWay(t) \/ InProcessed(t) => Before(t, s)
    BY <1>3, <1>4 DEF SendInv, SentOrder
<1>6. PICK big \in BOOLEAN : wire' = [wire EXCEPT ![c] = Append(@, [big |-> big, data |-> s])]
    BY <1>1, <1>3
<1>7. /\ wire' \in [Conns -> Seq(Parcels)] /\ n \in Nat
      /\ \A d \in Conns \ {c} : wire'[d] = wire[d]
      /\ DOMAIN wire[c] = 1..n - 1 /\ DOMAIN wire'[c] = 1..n
      /\ \A i \in 1..n - 1 : wire'[c][i] = wire[c][i]
      /\ wire'[c][n] = [big |-> big, data |-> s]
    <2>1. wire \in [Conns -> Seq(Parcels)]
        BY DEF OrderInv, DataTypes
    <2>2. [big |-> big, data |-> s] \in Parcels
        BY <1>3
    <2>. HIDE DEF Parcels
    <2>3. wire[c] \in Seq(Parcels)
        BY <2>1
    <2>4. wire'[c] = Append(wire[c], [big |-> big, data |-> s])
        BY <1>6, <2>1
    <2>5. Append(wire[c], [big |-> big, data |-> s]) \in Seq(Parcels)
        BY <2>2, <2>3
    <2>. QED BY <1>6, <2>1, <2>2, <2>3, <2>4, <2>5
<1>8. wire'[c][n].data = s /\ n \in DOMAIN wire'[c]
    <2>1. n \in 1..n
        <3>1. Len(wire[c]) \in Nat
            BY DEF OrderInv, DataTypes
        <3>. QED BY <3>1
    <2>. QED BY <1>7, <2>1
<1>9. \A i \in DOMAIN wire'[c] :
        i \in Nat /\ (i = n \/ (i < n /\ i \in DOMAIN wire[c] /\ wire'[c][i] = wire[c][i]))
    <2>. HIDE DEF n
    <2>. QED BY <1>7
<1>. HIDE DEF Parcels, n
<1>s. /\ \A t, u : Before(t, u)' <=> Before(t, u)
      /\ \A t : InRange(t)' <=> InRange(t)
    BY SameOrder, <1>1
<1>. USE <1>s DEF mainVars
<1>10. \A t \in Numbered :
         /\ OnWire(t)' => OnWire(t) \/ t = s
         /\ AtStub(t)' <=> AtStub(t)
         /\ InProcessed(t)' <=> InProcessed(t)
         /\ Old(t)' <=> Old(t)
         /\ New(t)' <=> New(t)
         /\ Arrived(t)' <=> Arrived(t)
         /\ InTasks(t)' <=> InTasks(t)
    <2>. TAKE t \in Numbered
    <2>1. t.conn \in Conns
        BY DEF Numbered
    <2>2. OnWire(t)' => OnWire(t) \/ t = s
        <3>1. CASE t.conn = c
            BY <1>8, <1>9, <3>1 DEF OnWire
        <3>2. CASE t.conn # c
            BY <1>7, <2>1, <3>2 DEF OnWire
        <3>. QED BY <3>1, <3>2
    <2>. QED BY <1>1, <2>2 DEF AtStub, Arrived, InTasks, InPending, InProcessed, Old, New, NoBarrier
<1>11. DataTypes'
    BY <1>1, <1>7 DEF OrderInv, DataTypes, StubTypes, TaskTypes, MainTypes, Known, Parcels
<1>12. WireOrder'
    <2>1. ASSUME NEW d \in Conns, NEW i \in DOMAIN wire'[d]
          PROVE  wire'[d][i].data.conn = d /\ InRange(wire'[d][i].data)
        <3>1. CASE d = c
            BY <1>4, <1>8, <1>9, <2>1, <3>1 DEF OrderInv, WireOrder
        <3>2. CASE d # c
            BY <1>7, <2>1, <3>2 DEF OrderInv, WireOrder
        <3>. QED BY <3>1, <3>2
    <2>2. ASSUME NEW d \in Conns, NEW i \in DOMAIN wire'[d], NEW j \in DOMAIN wire'[d], i < j
          PROVE  Before(wire'[d][i].data, wire'[d][j].data)
        <3>1. CASE d = c
            <4>1. i # n
                BY <1>9, <2>2, <3>1
            <4>2. i \in DOMAIN wire[c] /\ wire'[c][i] = wire[c][i]
                BY <1>9, <3>1, <4>1
            <4>3. CASE j = n
                <5>1. wire[c][i].data \in Numbered /\ wire[c][i].data.conn = c
                    BY <4>2, WireTypes DEF OrderInv, WireOrder
                <5>2. OnItsWay(wire[c][i].data)
                    BY <4>2, <5>1 DEF OnItsWay, OnWire
                <5>. QED BY <1>5, <1>8, <3>1, <4>2, <4>3, <5>1, <5>2
            <4>4. CASE j # n
                BY <1>9, <2>2, <3>1, <4>2, <4>4 DEF OrderInv, WireOrder
            <4>. QED BY <4>3, <4>4
        <3>2. CASE d # c
            BY <1>7, <2>2, <3>2 DEF OrderInv, WireOrder
        <3>. QED BY <3>1, <3>2
    <2>. QED BY <1>1, <2>1, <2>2 DEF OrderInv, WireOrder
<1>13. BarrierOnce'
    BY <1>1 DEF OrderInv, BarrierOnce, NoBarrier
<1>14. ArrivalOrder'
    BY <1>5, <1>10 DEF OrderInv, ArrivalOrder, OnItsWay
<1>15. FrameOrder' /\ TaskOrder' /\ ProcessedOrder'
    BY <1>1, <1>10 DEF OrderInv, FrameOrder, TaskOrder, ProcessedOrder
<1>16. OrderInv'
    BY <1>11, <1>12, <1>13, <1>14, <1>15 DEF OrderInv
<1>. QED BY <1>3, <1>4, <1>10, <1>16 DEF OnItsWay, s

Tasks == {<<t>> : t \in Numbered} \cup {Barrier}

(* The unmarshalling thread takes its next task.                           *)
LEMMA TaskTaken ==
    ASSUME TaskTypes, tasks # <<>>, tasks' = Tail(tasks)
    PROVE  /\ TaskTypes' /\ 1 \in DOMAIN tasks /\ Head(tasks) = tasks[1]
           /\ Head(tasks) = Barrier \/ \E s \in Numbered : Head(tasks) = <<s>>
           /\ \A j \in DOMAIN tasks : j \in Nat /\ (j = 1 \/ (j > 1 /\ j - 1 \in DOMAIN tasks'))
           /\ \A j \in DOMAIN tasks' : /\ j \in Nat /\ j > 0 /\ j + 1 \in DOMAIN tasks
                                       /\ tasks'[j] = tasks[j + 1]
<1>1. tasks \in Seq(Tasks)
    BY DEF TaskTypes, Tasks
<1>2. Head(tasks) \in Tasks /\ Tail(tasks) \in Seq(Tasks) /\ Head(tasks) = tasks[1]
    BY <1>1
<1>3. /\ DOMAIN tasks = 1..Len(tasks) /\ Len(tasks) \in Nat /\ Len(tasks) > 0
      /\ DOMAIN tasks' = 1..Len(tasks) - 1
      /\ \A j \in 1..Len(tasks) - 1 : tasks'[j] = tasks[j + 1]
    BY <1>1
<1>. QED BY <1>2, <1>3 DEF Tasks, TaskTypes

(* A task goes without being done, or is a parcel that is stored.          *)
LEMMA UnmarshalOrder ==
    ASSUME OrderInv, UnmarshalParcel \/ UnmarshalFails
    PROVE  OrderInv' /\ NoneAdded
<1>0. /\ tasks # <<>> /\ Head(tasks) # Barrier /\ tasks' = Tail(tasks)
      /\ UNCHANGED <<clientVars, stub, cached, mainVars>>
      /\ unmarshalled' = unmarshalled \/ unmarshalled' = unmarshalled \cup ToSet(Head(tasks))
    BY DEF UnmarshalParcel, UnmarshalFails
<1>1. TaskTypes
    BY DEF OrderInv, DataTypes
<1>2. /\ TaskTypes' /\ 1 \in DOMAIN tasks /\ Head(tasks) = tasks[1]
      /\ \A j \in DOMAIN tasks : j \in Nat /\ (j = 1 \/ (j > 1 /\ j - 1 \in DOMAIN tasks'))
      /\ \A j \in DOMAIN tasks' : /\ j \in Nat /\ j > 0 /\ j + 1 \in DOMAIN tasks
                                  /\ tasks'[j] = tasks[j + 1]
    BY <1>0, <1>1, TaskTaken
<1>3. PICK s \in Numbered : tasks[1] = <<s>>
    BY <1>0, <1>1, TaskTaken
<1>4. unmarshalled' = unmarshalled \/ unmarshalled' = unmarshalled \cup {s}
    BY <1>0, <1>2, <1>3 DEF ToSet
<1>. USE DEF clientVars, commitVars, mainVars
<1>s. /\ \A t, u : Before(t, u)' <=> Before(t, u)
      /\ \A t : InRange(t)' <=> InRange(t)
    BY SameOrder, <1>0
<1>. USE <1>s
<1>5. \A j \in DOMAIN tasks : j # 1 => j - 1 \in DOMAIN tasks' /\ tasks'[j - 1] = tasks[j]
    BY <1>2
<1>6. NoBarrier' <=> NoBarrier
    <2>1. NoBarrier => NoBarrier'
        BY <1>2 DEF NoBarrier
    <2>2. NoBarrier' => NoBarrier
        BY <1>0, <1>2, <1>5 DEF NoBarrier
    <2>. QED BY <2>1, <2>2
<1>7. \A t \in Numbered :
         /\ OnWire(t)' <=> OnWire(t)
         /\ AtStub(t)' <=> AtStub(t)
         /\ InProcessed(t)' <=> InProcessed(t)
         /\ InTasks(t)' => InTasks(t)
         /\ Arrived(t)' => Arrived(t)
    <2>1. \A t : InTasks(t)' => InTasks(t)
        BY <1>2 DEF InTasks
    <2>2. InTasks(s)
        BY <1>2, <1>3 DEF InTasks
    <2>. QED BY <1>0, <1>4, <2>1, <2>2 DEF OnWire, AtStub, Arrived, InPending, InProcessed
<1>8. \A t \in Numbered : Old(t)' => Old(t)
    <2>. SUFFICES ASSUME NEW t \in Numbered, Old(t)' PROVE Old(t)
        OBVIOUS
    <2>1. CASE InPending(t)'
        BY <1>0, <2>1 DEF Old, InPending
    <2>2. CASE t \in unmarshalled' /\ ~NoBarrier'
        <3>1. CASE t \in unmarshalled
            BY <1>6, <2>2, <3>1 DEF Old
        <3>2. CASE t = s
            <4>1. PICK k \in DOMAIN tasks : tasks[k] = Barrier
                BY <1>6, <2>2 DEF NoBarrier
            <4>2. 1 < k
                BY <1>0, <1>2, <4>1
            <4>. QED BY <1>2, <1>3, <3>2, <4>1, <4>2 DEF Old
        <3>. QED BY <1>4, <2>2, <3>1, <3>2
    <2>3. CASE \E j, k \in DOMAIN tasks' : j < k /\ tasks'[j] = <<t>> /\ tasks'[k] = Barrier
        <3>1. PICK j \in DOMAIN tasks', k \in DOMAIN tasks' :
                j < k /\ tasks'[j] = <<t>> /\ tasks'[k] = Barrier
            BY <2>3
        <3>2. /\ j + 1 \in DOMAIN tasks /\ k + 1 \in DOMAIN tasks /\ j + 1 < k + 1
              /\ tasks[j + 1] = <<t>> /\ tasks[k + 1] = Barrier
            BY <1>2, <3>1
        <3>. QED BY <3>2 DEF Old
    <2>. QED BY <2>1, <2>2, <2>3 DEF Old
<1>9. \A t \in Numbered : New(t)' => New(t)
    <2>. SUFFICES ASSUME NEW t \in Numbered, New(t)' PROVE New(t)
        OBVIOUS
    <2>1. CASE t \in cached'
        BY <1>0, <2>1 DEF New
    <2>2. CASE t \in unmarshalled' /\ NoBarrier'
        <3>1. CASE t \in unmarshalled
            BY <1>6, <2>2, <3>1 DEF New
        <3>2. CASE t = s
            BY <1>2, <1>3, <1>6, <2>2, <3>2 DEF New, NoBarrier
        <3>. QED BY <1>4, <2>2, <3>1, <3>2
    <2>3. CASE \E j \in DOMAIN tasks' :
                tasks'[j] = <<t>> /\ \A k \in DOMAIN tasks' : tasks'[k] = Barrier => k < j
        <3>1. PICK j \in DOMAIN tasks' :
                tasks'[j] = <<t>> /\ \A k \in DOMAIN tasks' : tasks'[k] = Barrier => k < j
            BY <2>3
        <3>2. j + 1 \in DOMAIN tasks /\ tasks[j + 1] = <<t>>
            BY <1>2, <3>1
        <3>3. ASSUME NEW k \in DOMAIN tasks, tasks[k] = Barrier
              PROVE  k < j + 1
            <4>1. k # 1
                BY <1>0, <1>2, <3>3
            <4>2. k - 1 < j
                BY <1>5, <3>1, <3>3, <4>1
            <4>. QED BY <1>2, <4>2
        <3>. QED BY <3>2, <3>3 DEF New
    <2>. QED BY <2>1, <2>2, <2>3 DEF New
<1>10. DataTypes'
    <2>1. unmarshalled' \in SUBSET Numbered /\ IsFiniteSet(unmarshalled')
        <3>1. unmarshalled \in SUBSET Numbered /\ IsFiniteSet(unmarshalled)
            BY DEF OrderInv, DataTypes
        <3>2. IsFiniteSet(unmarshalled \cup {s})
            BY <3>1, FS_AddElement
        <3>. QED BY <1>4, <3>1, <3>2
    <2>. QED BY <1>0, <1>2, <2>1 DEF OrderInv, DataTypes, StubTypes, MainTypes, Known
<1>11. WireOrder'
    BY <1>0 DEF OrderInv, WireOrder
<1>12. BarrierOnce'
    <2>1. ASSUME NEW i \in DOMAIN tasks', NEW j \in DOMAIN tasks',
                 tasks'[i] = Barrier, tasks'[j] = Barrier
          PROVE  i = j
        <3>1. i + 1 = j + 1
            BY <1>2, <2>1 DEF OrderInv, BarrierOnce
        <3>. QED BY <1>2, <3>1
    <2>. QED BY <1>0, <1>6, <2>1 DEF OrderInv, BarrierOnce
<1>13. ArrivalOrder'
    BY <1>0, <1>7 DEF OrderInv, ArrivalOrder
<1>14. FrameOrder'
    BY <1>8, <1>9 DEF OrderInv, FrameOrder
<1>15. TaskOrder'
    <2>1. ASSUME NEW i \in DOMAIN tasks', NEW j \in DOMAIN tasks', i < j,
                 NEW t \in Numbered, NEW u \in Numbered, tasks'[i] = <<t>>, tasks'[j] = <<u>>
          PROVE  Before(t, u)
        <3>1. i + 1 < j + 1 /\ tasks[i + 1] = <<t>> /\ tasks[j + 1] = <<u>>
              /\ i + 1 \in DOMAIN tasks /\ j + 1 \in DOMAIN tasks
            BY <1>2, <2>1
        <3>. QED BY <3>1 DEF OrderInv, TaskOrder
    <2>2. ASSUME NEW u \in Numbered, InTasks(u)'
          PROVE  Before(s, u)
        <3>1. PICK j \in DOMAIN tasks' : tasks'[j] = <<u>>
            BY <2>2 DEF InTasks
        <3>2. 1 < j + 1 /\ j + 1 \in DOMAIN tasks /\ tasks[j + 1] = <<u>>
            BY <1>2, <3>1
        <3>. QED BY <1>2, <1>3, <3>2 DEF OrderInv, TaskOrder
    <2>. QED BY <1>4, <1>7, <2>1, <2>2 DEF OrderInv, TaskOrder
<1>16. ProcessedOrder'
    BY <1>0, <1>7 DEF OrderInv, ProcessedOrder
<1>. QED BY <1>7, <1>10, <1>11, <1>12, <1>13, <1>14, <1>15, <1>16 DEF OrderInv, NoneAdded, OnItsWay

(* Merging adds transactions to those of the known processes.              *)
LEMMA Merged ==
    ASSUME MainTypes, NEW T \in SUBSET Numbered, IsFiniteSet(T), Merge(T)
    PROVE  /\ pending' \in [Pids -> SUBSET Numbered]
           /\ \A p \in Pids : IsFiniteSet(pending'[p]) /\ \A t \in pending'[p] : PidOf(t.conn) = p
           /\ \A t : InPending(t)' => InPending(t) \/ t \in T
           /\ \A p \in Pids : pending[p] \subseteq pending'[p]
<1>1. \A p \in Pids :
        LET more == IF p \in Known THEN OfPid(T, p) ELSE {}
        IN  pending'[p] = pending[p] \cup more /\ more \subseteq T /\ \A t \in more : PidOf(t.conn) = p
    BY DEF Merge, OfPid
<1>2. DOMAIN pending' = Pids
    BY DEF Merge
<1>3. \A p \in Pids : IsFiniteSet(pending'[p])
    <2>. TAKE p \in Pids
    <2>1. PICK more \in SUBSET T : pending'[p] = pending[p] \cup more
        BY <1>1
    <2>2. IsFiniteSet(more) /\ IsFiniteSet(pending[p])
        BY FS_Subset DEF MainTypes
    <2>. QED BY <2>1, <2>2, FS_Union
<1>4. \A p \in Pids : /\ pending[p] \subseteq pending'[p] /\ pending'[p] \subseteq pending[p] \cup T
                      /\ \A t \in pending'[p] : PidOf(t.conn) = p
    BY <1>1 DEF MainTypes
<1>5. \A p \in Pids : pending'[p] \in SUBSET Numbered
    BY <1>4 DEF MainTypes
<1>6. pending' \in [Pids -> SUBSET Numbered]
    BY <1>2, <1>5 DEF Merge
<1>. QED BY <1>3, <1>4, <1>6 DEF InPending

(* The barrier hands over all that was posted before it.                   *)
LEMMA BarrierOrder ==
    ASSUME OrderInv, UnmarshalBarrier
    PROVE  OrderInv' /\ NoneAdded
<1>0. /\ tasks # <<>> /\ Head(tasks) = Barrier /\ tasks' = Tail(tasks)
      /\ Merge(unmarshalled) /\ unmarshalled' = {} /\ finished' = finished + 1
      /\ UNCHANGED <<clientVars, stub, cached, last, elapsed, mainPc, processed>>
    BY DEF UnmarshalBarrier
<1>1. TaskTypes /\ MainTypes /\ unmarshalled \in SUBSET Numbered /\ IsFiniteSet(unmarshalled)
    BY DEF OrderInv, DataTypes
<1>2. /\ TaskTypes' /\ 1 \in DOMAIN tasks /\ Head(tasks) = tasks[1]
      /\ \A j \in DOMAIN tasks : j \in Nat /\ (j = 1 \/ (j > 1 /\ j - 1 \in DOMAIN tasks'))
      /\ \A j \in DOMAIN tasks' : /\ j \in Nat /\ j > 0 /\ j + 1 \in DOMAIN tasks
                                  /\ tasks'[j] = tasks[j + 1]
    BY <1>0, <1>1, TaskTaken
<1>3. /\ pending' \in [Pids -> SUBSET Numbered]
      /\ \A p \in Pids : IsFiniteSet(pending'[p]) /\ \A t \in pending'[p] : PidOf(t.conn) = p
      /\ \A t : InPending(t)' => InPending(t) \/ t \in unmarshalled
    BY <1>0, <1>1, Merged
<1>4. ~NoBarrier /\ mainPc = "frame" /\ finished = 0
    BY <1>0, <1>2 DEF NoBarrier, OrderInv, BarrierOnce
<1>5. \A j \in DOMAIN tasks : tasks[j] = Barrier => j = 1
    BY <1>0, <1>2 DEF OrderInv, BarrierOnce
<1>6. NoBarrier'
    <2>1. ASSUME NEW j \in DOMAIN tasks', tasks'[j] = Barrier PROVE FALSE
        <3>1. j + 1 = 1 /\ j \in Nat /\ j > 0
            BY <1>2, <1>5, <2>1
        <3>. QED BY <3>1
    <2>. QED BY <2>1 DEF NoBarrier
<1>. USE DEF clientVars, commitVars
<1>s. /\ \A t, u : Before(t, u)' <=> Before(t, u)
      /\ \A t : InRange(t)' <=> InRange(t)
    BY SameOrder, <1>0
<1>. USE <1>s
<1>7. \A t \in Numbered :
         /\ OnWire(t)' <=> OnWire(t)
         /\ AtStub(t)' <=> AtStub(t)
         /\ InProcessed(t)' <=> InProcessed(t)
         /\ InTasks(t)' => InTasks(t)
         /\ Arrived(t)' => Arrived(t)
    <2>1. \A t : InTasks(t)' => InTasks(t)
        BY <1>2 DEF InTasks
    <2>. QED BY <1>0, <1>3, <2>1 DEF OnWire, AtStub, Arrived, InProcessed
<1>8. \A t \in Numbered : Old(t)' => Old(t)
    <2>1. \A t \in Numbered : Old(t)' => InPending(t)'
        BY <1>6 DEF Old, NoBarrier
    <2>. QED BY <1>3, <1>4, <2>1 DEF Old
<1>9. \A t \in Numbered : New(t)' => New(t)
    <2>. SUFFICES ASSUME NEW t \in Numbered, New(t)' PROVE New(t)
        OBVIOUS
    <2>1. CASE t \in cached'
        BY <1>0, <2>1 DEF New
    <2>2. CASE t \in unmarshalled'
        BY <1>0, <2>2
    <2>3. CASE \E j \in DOMAIN tasks' : tasks'[j] = <<t>>
        <3>1. PICK j \in DOMAIN tasks' : tasks'[j] = <<t>>
            BY <2>3
        <3>2. j + 1 \in DOMAIN tasks /\ tasks[j + 1] = <<t>> /\ 1 < j + 1
            BY <1>2, <3>1
        <3>. QED BY <1>5, <3>2 DEF New
    <2>. QED BY <2>1, <2>2, <2>3 DEF New
<1>10. DataTypes'
    <2>1. MainTypes'
        BY <1>0, <1>1, <1>3 DEF MainTypes, Known
    <2>2. StubTypes'
        BY <1>0 DEF OrderInv, DataTypes, StubTypes
    <2>. QED BY <1>0, <1>2, <2>1, <2>2, FS_EmptySet DEF OrderInv, DataTypes
<1>11. WireOrder'
    BY <1>0 DEF OrderInv, WireOrder
<1>12. BarrierOnce'
    BY <1>0, <1>4, <1>6 DEF BarrierOnce, NoBarrier
<1>13. ArrivalOrder'
    BY <1>0, <1>7 DEF OrderInv, ArrivalOrder
<1>14. FrameOrder'
    BY <1>8, <1>9 DEF OrderInv, FrameOrder
<1>15. TaskOrder'
    <2>1. ASSUME NEW i \in DOMAIN tasks', NEW j \in DOMAIN tasks', i < j,
                 NEW t \in Numbered, NEW u \in Numbered, tasks'[i] = <<t>>, tasks'[j] = <<u>>
          PROVE  Before(t, u)
        <3>1. i + 1 < j + 1 /\ tasks[i + 1] = <<t>> /\ tasks[j + 1] = <<u>>
              /\ i + 1 \in DOMAIN tasks /\ j + 1 \in DOMAIN tasks
            BY <1>2, <2>1
        <3>. QED BY <3>1 DEF OrderInv, TaskOrder
    <2>. QED BY <1>0, <2>1 DEF TaskOrder
<1>16. ProcessedOrder'
    BY <1>0, <1>7 DEF OrderInv, ProcessedOrder
<1>. QED BY <1>7, <1>10, <1>11, <1>12, <1>13, <1>14, <1>15, <1>16 DEF OrderInv, NoneAdded, OnItsWay

(* A frame begins: it finds what has arrived, and nothing comes too late   *)
(* for it yet.                                                             *)
LEMMA StartFrameOrder ==
    ASSUME OrderInv, StartFrame, elapsed' \in [Pids -> Nat \cup {Unset}]
    PROVE  OrderInv' /\ NoneAdded
<1>0. /\ mainPc = "idle" /\ mainPc' = "frame" /\ Merge(cached) /\ cached' = {}
      /\ tasks' = Append(tasks, Barrier)
      /\ UNCHANGED <<clientVars, stub, unmarshalled, last, finished, processed>>
    BY DEF StartFrame
<1>1. TaskTypes /\ MainTypes /\ cached \in SUBSET Numbered /\ IsFiniteSet(cached)
    BY DEF OrderInv, DataTypes
<1>2. NoBarrier /\ finished = 0
    BY <1>0 DEF OrderInv, BarrierOnce
<1>3. /\ pending' \in [Pids -> SUBSET Numbered]
      /\ \A p \in Pids : IsFiniteSet(pending'[p]) /\ \A t \in pending'[p] : PidOf(t.conn) = p
      /\ \A t : InPending(t)' => InPending(t) \/ t \in cached
    BY <1>0, <1>1, Merged
<1>. DEFINE n == Len(tasks) + 1
<1>4. /\ \A j \in DOMAIN tasks : j \in DOMAIN tasks' /\ tasks'[j] = tasks[j] /\ j < n /\ j \in Nat
      /\ \A j \in DOMAIN tasks' : j \in Nat /\ (j \in DOMAIN tasks \/ j = n)
      /\ n \in DOMAIN tasks' /\ tasks'[n] = Barrier /\ n \in Nat
      /\ TaskTypes'
    <2>1. tasks \in Seq(Tasks) /\ Barrier \in Tasks
        BY <1>1 DEF TaskTypes, Tasks
    <2>2. /\ tasks' \in Seq(Tasks) /\ Len(tasks') = n /\ n \in Nat
          /\ DOMAIN tasks = 1..n - 1 /\ DOMAIN tasks' = 1..n
          /\ \A j \in 1..n - 1 : tasks'[j] = tasks[j]
          /\ tasks'[n] = Barrier
        BY <1>0, <2>1
    <2>. HIDE DEF n
    <2>3. /\ \A j \in DOMAIN tasks : j \in DOMAIN tasks' /\ tasks'[j] = tasks[j] /\ j < n /\ j \in Nat
          /\ \A j \in DOMAIN tasks' : j \in Nat /\ (j \in DOMAIN tasks \/ j = n)
        BY <2>2
    <2>4. n \in DOMAIN tasks'
        <3>1. n > 0
            BY <1>1 DEF n, TaskTypes
        <3>. QED BY <2>2, <3>1
    <2>5. TaskTypes'
        BY <2>2 DEF TaskTypes, Tasks
    <2>. QED BY <2>2, <2>3, <2>4, <2>5
<1>. HIDE DEF n
<1>. USE DEF clientVars, commitVars
<1>s. /\ \A t, u : Before(t, u)' <=> Before(t, u)
      /\ \A t : InRange(t)' <=> InRange(t)
    BY SameOrder, <1>0
<1>. USE <1>s
<1>5. \A t \in Numbered : <<t>> # Barrier
    BY DEF Barrier
<1>6. \A t \in Numbered :
         /\ OnWire(t)' <=> OnWire(t)
         /\ AtStub(t)' <=> AtStub(t)
         /\ InProcessed(t)' <=> InProcessed(t)
         /\ InTasks(t)' => InTasks(t)
         /\ Arrived(t)' => Arrived(t)
    <2>1. \A t \in Numbered : InTasks(t)' => InTasks(t)
        BY <1>4, <1>5 DEF InTasks
    <2>. QED BY <1>0, <1>3, <2>1 DEF OnWire, AtStub, Arrived, InProcessed
<1>7. \A t \in Numbered : ~New(t)'
    <2>. SUFFICES ASSUME NEW t \in Numbered, New(t)' PROVE FALSE
        OBVIOUS
    <2>1. ~NoBarrier' /\ t \notin cached'
        BY <1>0, <1>4 DEF NoBarrier
    <2>2. PICK j \in DOMAIN tasks' :
            tasks'[j] = <<t>> /\ \A k \in DOMAIN tasks' : tasks'[k] = Barrier => k < j
        BY <2>1 DEF New
    <2>3. n < j
        BY <1>4, <2>2
    <2>. QED BY <1>4, <2>3
<1>8. DataTypes'
    <2>1. MainTypes'
        BY <1>0, <1>1, <1>3 DEF MainTypes, Known
    <2>2. StubTypes'
        BY <1>0 DEF OrderInv, DataTypes, StubTypes
    <2>. QED BY <1>0, <1>4, <2>1, <2>2, FS_EmptySet DEF OrderInv, DataTypes
<1>9. WireOrder'
    BY <1>0 DEF OrderInv, WireOrder
<1>10. BarrierOnce'
    <2>1. \A j \in DOMAIN tasks' : tasks'[j] = Barrier => j = n
        BY <1>2, <1>4 DEF NoBarrier
    <2>. QED BY <1>0, <1>2, <2>1 DEF BarrierOnce
<1>11. ArrivalOrder'
    BY <1>0, <1>6 DEF OrderInv, ArrivalOrder
<1>12. FrameOrder'
    BY <1>7 DEF FrameOrder
<1>13. TaskOrder'
    <2>1. ASSUME NEW i \in DOMAIN tasks', NEW j \in DOMAIN tasks', i < j,
                 NEW t \in Numbered, NEW u \in Numbered, tasks'[i] = <<t>>, tasks'[j] = <<u>>
          PROVE  Before(t, u)
        <3>1. i \in DOMAIN tasks /\ j \in DOMAIN tasks
            BY <1>4, <1>5, <2>1
        <3>. QED BY <1>4, <2>1, <3>1 DEF OrderInv, TaskOrder
    <2>. QED BY <1>0, <1>6, <2>1 DEF OrderInv, TaskOrder
<1>14. ProcessedOrder'
    BY <1>0, <1>6 DEF OrderInv, ProcessedOrder
<1>. QED BY <1>6, <1>8, <1>9, <1>10, <1>11, <1>12, <1>13, <1>14 DEF OrderInv, NoneAdded, OnItsWay

(* Two of a connection on which no commits overlapped differ in number.    *)
LEMMA SameNumber ==
    ASSUME NEW t \in Numbered, NEW u \in Numbered, InRange(t), InRange(u),
           t.conn = u.conn, t.conn \notin overlapped, t.index = u.index
    PROVE  t = u
BY DEF InRange, Numbered

(* What the loop takes comes before what it leaves.                        *)
LEMMA WalksTaken ==
    ASSUME MainTypes, NEW p \in Known, NEW w \in Walks(p), \A t \in pending[p] : InRange(t)
    PROVE  /\ w.last \in Nat /\ w.elapsed \in Nat \cup {Unset} /\ w.taken \in Seq(Numbered)
           /\ \A i \in DOMAIN w.taken : w.taken[i] \in pending[p]
           /\ \A i, j \in DOMAIN w.taken : i < j => Before(w.taken[i], w.taken[j])
           /\ \A i \in DOMAIN w.taken : \A t \in pending[p] \ ToSet(w.taken) : Before(w.taken[i], t)
<1>0. /\ p \in Pids /\ last[p] \in Nat /\ elapsed[p] \in Nat \cup {Unset}
      /\ pending[p] \in SUBSET Numbered /\ IsFiniteSet(pending[p])
    BY DEF MainTypes
<1>1. PICK s \in SortedByIndex(pending[p]) : w = Walked(p, s)
    BY DEF Walks
<1>2. /\ s \in Seq(Numbered) /\ DOMAIN s = 1..Len(s)
      /\ \A i, j \in DOMAIN s : i < j => s[i].index <= s[j].index /\ s[i] # s[j]
      /\ \A i \in DOMAIN s : s[i] \in pending[p]
      /\ \A t \in pending[p] : \E i \in DOMAIN s : s[i] = t
    BY <1>0, SortedAll
<1>3. WalkResult(p, s, w, Len(s))
    BY <1>0, <1>1, <1>2, WalkedIsPrefix
<1>. DEFINE k == Len(w.taken)
<1>4. /\ w.last \in Nat /\ w.elapsed \in Nat \cup {Unset} /\ w.taken \in Seq(Numbered)
      /\ k <= Len(s) /\ \A j \in 1..k : w.taken[j] = s[j]
    BY <1>3 DEF WalkResult
<1>5. k \in Nat /\ DOMAIN w.taken = 1..k /\ Len(s) \in Nat
    BY <1>2, <1>4
<1>. HIDE DEF k
<1>6. \A i \in DOMAIN w.taken : i \in DOMAIN s /\ w.taken[i] = s[i]
    BY <1>2, <1>4, <1>5
<1>7. \A i, j \in DOMAIN s : i < j => Before(s[i], s[j])
    <2>. SUFFICES ASSUME NEW i \in DOMAIN s, NEW j \in DOMAIN s, i < j
                  PROVE  Before(s[i], s[j])
        OBVIOUS
    <2>1. s[i] # s[j] /\ s[i].index <= s[j].index
        BY <1>2
    <2>. QED BY <1>0, <1>2, <2>1, SameNumber DEF Before, Numbered
<1>8. ASSUME NEW i \in DOMAIN w.taken, NEW t \in pending[p] \ ToSet(w.taken)
      PROVE  Before(w.taken[i], t)
    <2>1. PICK j \in DOMAIN s : s[j] = t
        BY <1>2
    <2>2. j \notin 1..k
        BY <1>4, <1>5, <2>1 DEF ToSet
    <2>3. i < j
        BY <1>2, <1>5, <2>2
    <2>. QED BY <1>6, <1>7, <2>1, <2>3
<1>. QED BY <1>2, <1>4, <1>6, <1>7, <1>8

(* The main thread takes the first of what it has, and all that comes      *)
(* later comes after that.                                                 *)
LEMMA ProcessOrder ==
    ASSUME OrderInv, ProcessCommand
    PROVE  OrderInv' /\ NoneAdded
<1>1. PICK walks \in [Known -> UNION {Walks(p) : p \in Known}] :
        /\ \A p \in Known : walks[p] \in Walks(p)
        /\ last' = [p \in Known |-> walks[p].last]
        /\ elapsed' = [p \in Pids |-> IF p \in Known THEN walks[p].elapsed ELSE elapsed[p]]
        /\ pending' = [p \in Pids |->
                         IF p \in Known THEN pending[p] \ ToSet(walks[p].taken) ELSE {}]
        /\ processed' = [p \in Pids |->
                           processed[p] \o IF p \in Known THEN walks[p].taken ELSE <<>>]
    BY DEF ProcessCommand
<1>2. /\ mainPc = "frame" /\ mainPc' = "idle" /\ finished > 0 /\ finished' = finished - 1
      /\ UNCHANGED <<clientVars, threadVars>>
    BY DEF ProcessCommand, WaitUntilUnmarshallingTaskFinished
<1>3. MainTypes /\ Known \subseteq Pids
    BY DEF OrderInv, DataTypes, MainTypes
<1>4. NoBarrier /\ finished = 1
    BY <1>2 DEF OrderInv, BarrierOnce
<1>5. \A p \in Known :
        LET w == walks[p]
        IN  /\ w.last \in Nat /\ w.elapsed \in Nat \cup {Unset} /\ w.taken \in Seq(Numbered)
            /\ \A i \in DOMAIN w.taken : w.taken[i] \in pending[p]
            /\ \A i, j \in DOMAIN w.taken : i < j => Before(w.taken[i], w.taken[j])
            /\ \A i \in DOMAIN w.taken : \A t \in pending[p] \ ToSet(w.taken) : Before(w.taken[i], t)
    <2>1. \A p \in Known : \A t \in pending[p] : InRange(t)
        BY <1>3 DEF OrderInv, ArrivalOrder, Arrived, InPending, MainTypes
    <2>. QED BY <1>1, <1>3, <2>1, WalksTaken
<1>. DEFINE taken(p) == IF p \in Known THEN walks[p].taken ELSE <<>>
<1>6. \A p \in Pids :
        /\ taken(p) \in Seq(Numbered) /\ processed[p] \in Seq(Numbered)
        /\ processed'[p] = processed[p] \o taken(p)
        /\ \A i \in DOMAIN taken(p) : taken(p)[i] \in pending[p]
        /\ \A i, j \in DOMAIN taken(p) : i < j => Before(taken(p)[i], taken(p)[j])
        /\ \A i \in DOMAIN taken(p) : \A t \in pending'[p] : Before(taken(p)[i], t)
        /\ pending'[p] \subseteq pending[p]
    <2>. TAKE p \in Pids
    <2>1. processed[p] \in Seq(Numbered) /\ processed'[p] = processed[p] \o taken(p)
        BY <1>1, <1>3 DEF MainTypes
    <2>2. CASE p \in Known
        <3>1. taken(p) = walks[p].taken /\ pending'[p] = pending[p] \ ToSet(walks[p].taken)
            BY <1>1, <2>2
        <3>. HIDE DEF taken
        <3>. QED BY <1>5, <2>1, <2>2, <3>1
    <2>3. CASE p \notin Known
        <3>1. taken(p) = <<>> /\ pending'[p] = {}
            BY <1>1, <2>3
        <3>. HIDE DEF taken
        <3>. QED BY <2>1, <3>1
    <2>. QED BY <2>2, <2>3
<1>. HIDE DEF taken
<1>7. \A p \in Pids :
        /\ processed'[p] \in Seq(Numbered)
        /\ DOMAIN processed[p] = 1..Len(processed[p]) /\ Len(processed[p]) \in Nat
        /\ \A i \in DOMAIN processed'[p] :
             /\ i \in Nat
             /\ \/ i \in DOMAIN processed[p] /\ processed'[p][i] = processed[p][i]
                \/ /\ i > Len(processed[p]) /\ i - Len(processed[p]) \in DOMAIN taken(p)
                   /\ processed'[p][i] = taken(p)[i - Len(processed[p])]
    <2>. TAKE p \in Pids
    <2>1. taken(p) \in Seq(Numbered) /\ processed[p] \in Seq(Numbered)
          /\ processed'[p] = processed[p] \o taken(p)
        BY <1>6
    <2>2. /\ processed'[p] \in Seq(Numbered)
          /\ Len(processed'[p]) = Len(processed[p]) + Len(taken(p))
          /\ \A i \in 1..Len(processed[p]) + Len(taken(p)) : processed'[p][i] =
               IF i <= Len(processed[p]) THEN processed[p][i] ELSE taken(p)[i - Len(processed[p])]
        BY <2>1, ConcatProperties
    <2>. DEFINE m == Len(processed[p])
                n == Len(taken(p))
    <2>3. m \in Nat /\ n \in Nat /\ DOMAIN processed[p] = 1..m /\ DOMAIN taken(p) = 1..n
          /\ DOMAIN processed'[p] = 1..m + n
        BY <2>1, <2>2
    <2>. HIDE DEF m, n
    <2>4. \A i \in 1..m + n : processed'[p][i] = IF i <= m THEN processed[p][i] ELSE taken(p)[i - m]
        BY <2>2 DEF m, n
    <2>5. \A i \in DOMAIN processed'[p] :
             /\ i \in Nat
             /\ \/ i \in DOMAIN processed[p] /\ processed'[p][i] = processed[p][i]
                \/ i > m /\ i - m \in DOMAIN taken(p) /\ processed'[p][i] = taken(p)[i - m]
        BY <2>3, <2>4
    <2>. QED BY <2>2, <2>3, <2>5 DEF m
<1>. USE DEF clientVars, commitVars, threadVars
<1>s. /\ \A t, u : Before(t, u)' <=> Before(t, u)
      /\ \A t : InRange(t)' <=> InRange(t)
    BY SameOrder, <1>2
<1>. USE <1>s
<1>8. \A t \in Numbered :
         /\ OnWire(t)' <=> OnWire(t)
         /\ AtStub(t)' <=> AtStub(t)
         /\ InTasks(t)' <=> InTasks(t)
         /\ InPending(t)' => InPending(t)
         /\ Arrived(t)' => Arrived(t)
         /\ InProcessed(t)' => InProcessed(t) \/ InPending(t)
    <2>. TAKE t \in Numbered
    <2>1. InPending(t)' => InPending(t)
        BY <1>6 DEF InPending
    <2>2. InProcessed(t)' => InProcessed(t) \/ InPending(t)
        <3>. SUFFICES ASSUME InProcessed(t)', ~InProcessed(t) PROVE InPending(t)
            OBVIOUS
        <3>1. PICK p \in Pids : \E i \in DOMAIN processed'[p] : t = processed'[p][i]
            BY DEF InProcessed
        <3>2. PICK i \in DOMAIN processed'[p] : t = processed'[p][i]
            BY <3>1
        <3>3. \E j \in DOMAIN taken(p) : t = taken(p)[j]
            BY <1>7, <3>2 DEF InProcessed
        <3>. QED BY <1>6, <3>3 DEF InPending
    <2>. QED BY <1>2, <2>1, <2>2 DEF OnWire, AtStub, Arrived, InTasks
<1>9. \A t \in Numbered : (Old(t)' => Old(t)) /\ (New(t)' => New(t))
    BY <1>2, <1>4, <1>8 DEF Old, New, NoBarrier
<1>10. DataTypes'
    <2>1. \A p \in Pids : IsFiniteSet(pending'[p])
        BY <1>6, FS_Subset DEF OrderInv, DataTypes, MainTypes
    <2>2. \A p \in Pids : \A t \in pending'[p] : PidOf(t.conn) = p
        BY <1>6 DEF OrderInv, DataTypes, MainTypes
    <2>3. Known' = Known /\ last' \in [Known -> Nat]
        BY <1>1, <1>5 DEF Known
    <2>4. elapsed' \in [Pids -> Nat \cup {Unset}]
        BY <1>1, <1>3, <1>5 DEF MainTypes
    <2>5. pending' \in [Pids -> SUBSET Numbered]
        <3>1. \A p \in Pids : pending'[p] \in SUBSET Numbered
            BY <1>3, <1>6 DEF MainTypes
        <3>. QED BY <1>1, <3>1
    <2>6. processed' \in [Pids -> Seq(Numbered)]
        BY <1>1, <1>7
    <2>7. MainTypes'
        BY <1>2, <1>3, <1>4, <2>1, <2>2, <2>3, <2>4, <2>5, <2>6 DEF MainTypes
    <2>. QED BY <1>2, <2>7 DEF OrderInv, DataTypes, StubTypes, TaskTypes
<1>11. WireOrder'
    BY <1>2 DEF OrderInv, WireOrder
<1>12. BarrierOnce'
    BY <1>2, <1>4 DEF OrderInv, BarrierOnce, NoBarrier
<1>13. ArrivalOrder'
    <2>1. \A t \in Numbered : InPending(t) => Arrived(t)
        BY DEF Arrived
    <2>. QED BY <1>2, <1>8, <2>1 DEF OrderInv, ArrivalOrder
<1>14. FrameOrder' /\ TaskOrder'
    BY <1>2, <1>8, <1>9 DEF OrderInv, FrameOrder, TaskOrder
<1>15. ProcessedOrder'
    <2>1. ASSUME NEW p \in Pids, NEW i \in DOMAIN processed'[p], NEW j \in DOMAIN processed'[p], i < j
          PROVE  Before(processed'[p][i], processed'[p][j])
        <3>. DEFINE m == Len(processed[p])
        <3>0. m \in Nat /\ i \in Nat /\ j \in Nat /\ DOMAIN processed[p] = 1..m
            BY <1>7
        <3>1. CASE j \in DOMAIN processed[p]
            <4>1. i \in DOMAIN processed[p]
                BY <1>7, <2>1, <3>0, <3>1
            <4>2. processed'[p][i] = processed[p][i] /\ processed'[p][j] = processed[p][j]
                BY <1>7, <3>0, <3>1, <4>1
            <4>. QED BY <2>1, <3>1, <4>1, <4>2 DEF OrderInv, ProcessedOrder
        <3>2. CASE j \notin DOMAIN processed[p] /\ i \in DOMAIN processed[p]
            <4>1. /\ j - m \in DOMAIN taken(p) /\ processed'[p][j] = taken(p)[j - m]
                  /\ processed'[p][i] = processed[p][i]
                BY <1>7, <3>0, <3>2
            <4>2. /\ taken(p)[j - m] \in Numbered /\ Arrived(taken(p)[j - m])
                  /\ processed[p][i] \in Numbered /\ InProcessed(processed[p][i])
                BY <1>3, <1>6, <3>2, <4>1 DEF MainTypes, Arrived, InPending, InProcessed
            <4>. QED BY <4>1, <4>2 DEF OrderInv, ProcessedOrder
        <3>3. CASE j \notin DOMAIN processed[p] /\ i \notin DOMAIN processed[p]
            <4>1. /\ j - m \in DOMAIN taken(p) /\ processed'[p][j] = taken(p)[j - m]
                  /\ i - m \in DOMAIN taken(p) /\ processed'[p][i] = taken(p)[i - m]
                BY <1>7, <3>3
            <4>2. i - m < j - m
                BY <2>1, <3>0
            <4>. HIDE DEF m
            <4>. QED BY <1>6, <4>1, <4>2
        <3>. QED BY <3>1, <3>2, <3>3
    <2>2. ASSUME NEW t \in Numbered, NEW u \in Numbered, InProcessed(t)', Arrived(u)'
          PROVE  Before(t, u)
        <3>1. CASE InProcessed(t)
            BY <1>8, <2>2, <3>1 DEF OrderInv, ProcessedOrder
        <3>2. CASE ~InProcessed(t)
            <4>0. PICK p \in Pids : \E i \in DOMAIN taken(p) : t = taken(p)[i]
                <5>1. PICK p \in Pids : \E i \in DOMAIN processed'[p] : t = processed'[p][i]
                    BY <2>2 DEF InProcessed
                <5>2. PICK i \in DOMAIN processed'[p] : t = processed'[p][i]
                    BY <5>1
                <5>. QED BY <1>7, <3>2, <5>2 DEF InProcessed
            <4>1. PICK i \in DOMAIN taken(p) : t = taken(p)[i]
                BY <4>0
            <4>2. t \in pending[p] /\ Old(t)
                BY <1>6, <4>1 DEF Old, InPending
            <4>3. CASE InPending(u)'
                <5>1. PICK q \in Pids : u \in pending'[q]
                    BY <4>3 DEF InPending
                <5>2. CASE q = p
                    BY <1>6, <4>1, <5>1, <5>2
                <5>3. CASE q # p
                    <6>1. PidOf(u.conn) = q /\ PidOf(t.conn) = p
                        BY <1>3, <1>6, <4>2, <5>1 DEF MainTypes
                    <6>. QED BY <5>3, <6>1, <4>2 DEF Before
                <5>. QED BY <5>2, <5>3
            <4>4. CASE u \in cached' \/ u \in unmarshalled' \/ InTasks(u)'
                <5>1. New(u)
                    BY <1>2, <1>4, <4>4 DEF New, InTasks, NoBarrier
                <5>. QED BY <4>2, <5>1 DEF OrderInv, FrameOrder
            <4>. QED BY <2>2, <4>3, <4>4 DEF Arrived
        <3>. QED BY <3>1, <3>2
    <2>. QED BY <2>1, <2>2 DEF ProcessedOrder
<1>16. NoneAdded
    BY <1>8 DEF NoneAdded, OnItsWay, Arrived
<1>. QED BY <1>10, <1>11, <1>12, <1>13, <1>14, <1>15, <1>16 DEF OrderInv

(* Making a client known, or forgetting it, adds no transaction.           *)
LEMMA PidInfoOrder ==
    ASSUME OrderInv, NEW p \in Pids,
           AddTransactionDataPidInfo(p) \/ ClearTransactionDataPidInfo(p),
           UNCHANGED <<clientVars, threadVars, mainPc, finished, processed>>
    PROVE  OrderInv' /\ NoneAdded
<1>1. /\ pending' \in [Pids -> SUBSET Numbered]
      /\ elapsed' \in [Pids -> Nat \cup {Unset}]
      /\ last' \in [Known' -> Nat] /\ Known' \subseteq Pids
      /\ \A q \in Pids : pending'[q] \subseteq pending[q]
    <2>0. MainTypes
        BY DEF OrderInv, DataTypes
    <2>1. CASE AddTransactionDataPidInfo(p)
        BY <2>0, <2>1 DEF AddTransactionDataPidInfo, MainTypes, Known
    <2>2. CASE ClearTransactionDataPidInfo(p)
        BY <2>0, <2>2 DEF ClearTransactionDataPidInfo, MainTypes, Known
    <2>. QED BY <2>1, <2>2
<1>. USE DEF clientVars, commitVars, threadVars
<1>s. /\ \A t, u : Before(t, u)' <=> Before(t, u)
      /\ \A t : InRange(t)' <=> InRange(t)
    BY SameOrder
<1>. USE <1>s
<1>2. \A t \in Numbered :
         /\ OnWire(t)' <=> OnWire(t)
         /\ AtStub(t)' <=> AtStub(t)
         /\ InTasks(t)' <=> InTasks(t)
         /\ InProcessed(t)' <=> InProcessed(t)
         /\ Arrived(t)' => Arrived(t)
         /\ Old(t)' => Old(t)
         /\ New(t)' => New(t)
    <2>. TAKE t \in Numbered
    <2>1. InPending(t)' => InPending(t)
        BY <1>1 DEF InPending
    <2>. QED BY <2>1 DEF OnWire, AtStub, Arrived, InTasks, InProcessed, Old, New, NoBarrier
<1>3. DataTypes'
    <2>1. \A q \in Pids : IsFiniteSet(pending'[q])
        BY <1>1, FS_Subset DEF OrderInv, DataTypes, MainTypes
    <2>2. MainTypes'
        BY <1>1, <2>1 DEF OrderInv, DataTypes, MainTypes
    <2>. QED BY <2>2 DEF OrderInv, DataTypes, StubTypes, TaskTypes
<1>4. WireOrder' /\ BarrierOnce'
    BY DEF OrderInv, WireOrder, BarrierOnce, NoBarrier
<1>5. ArrivalOrder' /\ FrameOrder'
    BY <1>2 DEF OrderInv, ArrivalOrder, FrameOrder
<1>6. TaskOrder' /\ ProcessedOrder'
    BY <1>2 DEF OrderInv, TaskOrder, ProcessedOrder
<1>. QED BY <1>2, <1>3, <1>4, <1>5, <1>6 DEF OrderInv, NoneAdded, OnItsWay

----------------------------------------------------------------------------
(* The commits that run                                                    *)

LEMMA InitSends == Init => SendInv
<1>. SUFFICES ASSUME Init PROVE SendInv
    OBVIOUS
<1>. USE DEF Init, DataInit
<1>1. CommitTypes
    BY DEF CommitTypes, Running, CommitLabels, NoCommit
<1>2. \A c \in Conns, m \in Mutexes : At(c, m, "none") /\ Filled(c, m) = <<>>
    BY DEF At, Filled, NoCommit
<1>3. \A t \in Numbered : ~InUnsent(t)
    BY <1>2 DEF InUnsent, Numbered
<1>4. \A c \in Conns : Counted(c)
    BY <1>2 DEF Counted, At
<1>. QED BY <1>1, <1>2, <1>3, <1>4 DEF SendInv, UnsentOrder, SentOrder

(* Steps of the service.                                                   *)
LEMMA ServiceSends ==
    ASSUME SendInv, NoneAdded, UNCHANGED <<commitVars, alive>>
    PROVE  SendInv' /\ \A t : InUnsent(t)' <=> InUnsent(t)
<1>. USE DEF commitVars
<1>1. /\ \A t, u : Before(t, u)' <=> Before(t, u)
      /\ \A t : InRange(t)' <=> InRange(t)
    BY SameOrder
<1>2. /\ \A t : InUnsent(t)' <=> InUnsent(t)
      /\ \A c, m : Filled(c, m)' = Filled(c, m)
    BY DEF InUnsent, Filled
<1>3. CommitTypes'
    BY DEF SendInv, CommitTypes
<1>4. UnsentOrder'
    BY <1>1 DEF SendInv, UnsentOrder, Filled
<1>5. SentOrder'
    BY <1>1, <1>2 DEF SendInv, SentOrder, NoneAdded
<1>6. \A c \in Conns : Counted(c)'
    BY DEF SendInv, Counted, At, Filled
<1>. QED BY <1>2, <1>3, <1>4, <1>5, <1>6 DEF SendInv

(* Commits that send, fail or end keep the order of what they have.        *)
LEMMA UnsentKept ==
    ASSUME SendInv, CommitTypes', \A c \in Conns : made[c] <= made'[c], overlapped \subseteq overlapped',
           \A c \in Conns, m \in Mutexes : \E k \in Nat : \A i \in DOMAIN Filled(c, m)' :
              i \in Nat /\ i + k \in DOMAIN Filled(c, m) /\ Filled(c, m)'[i] = Filled(c, m)[i + k]
    PROVE  UnsentOrder' /\ \A t \in Numbered : InUnsent(t)' => InUnsent(t)
<1>1. /\ \A t, u : Before(t, u) => Before(t, u)'
      /\ \A t \in Numbered : InRange(t) => InRange(t)'
    BY Grows DEF SendInv, CommitTypes
<1>2. \A c \in Conns, m \in Mutexes : Filled(c, m) \in Seq(Numbered)
    BY DEF SendInv, CommitTypes, Running, Filled
<1>3. ASSUME NEW c \in Conns, NEW m \in Mutexes
      PROVE  \E k \in Nat : \A i \in DOMAIN Filled(c, m)' :
                /\ i \in Nat /\ i + k \in DOMAIN Filled(c, m) /\ Filled(c, m)'[i] = Filled(c, m)[i + k]
                /\ Filled(c, m)'[i] \in Numbered
    BY <1>2
<1>4. ASSUME NEW c \in Conns, NEW m \in Mutexes, NEW i \in DOMAIN Filled(c, m)'
      PROVE  /\ \E j \in DOMAIN Filled(c, m) : Filled(c, m)'[i] = Filled(c, m)[j]
             /\ Filled(c, m)'[i] \in Numbered
    BY <1>3
<1>5. ASSUME NEW c \in Conns, NEW m \in Mutexes, NEW i \in DOMAIN Filled(c, m)'
      PROVE  Filled(c, m)'[i].conn = c /\ InRange(Filled(c, m)[i])'
    BY <1>1, <1>4 DEF SendInv, UnsentOrder
<1>6. ASSUME NEW c \in Conns, NEW m \in Mutexes,
             NEW i \in DOMAIN Filled(c, m)', NEW j \in DOMAIN Filled(c, m)', i < j
      PROVE  Before(Filled(c, m)[i], Filled(c, m)[j])'
    <2>1. PICK k \in Nat : \A h \in DOMAIN Filled(c, m)' :
                h \in Nat /\ h + k \in DOMAIN Filled(c, m) /\ Filled(c, m)'[h] = Filled(c, m)[h + k]
        BY <1>3
    <2>2. i + k < j + k
        BY <1>6, <2>1
    <2>. QED BY <1>1, <2>1, <2>2 DEF SendInv, UnsentOrder
<1>7. ASSUME NEW c \in Conns, NEW m \in Mutexes, NEW o \in Mutexes, m # o,
             NEW i \in DOMAIN Filled(c, m)', NEW j \in DOMAIN Filled(c, o)'
      PROVE  Filled(c, m)'[i] # Filled(c, o)'[j]
    <2>1. PICK h \in DOMAIN Filled(c, m) : Filled(c, m)'[i] = Filled(c, m)[h]
        BY <1>4
    <2>2. PICK k \in DOMAIN Filled(c, o) : Filled(c, o)'[j] = Filled(c, o)[k]
        BY <1>4
    <2>. QED BY <1>7, <2>1, <2>2 DEF SendInv, UnsentOrder
<1>8. ASSUME NEW t \in Numbered, InUnsent(t)'
      PROVE  InUnsent(t)
    <2>1. PICK m \in Mutexes : \E i \in DOMAIN Filled(t.conn, m)' : Filled(t.conn, m)'[i] = t
        BY <1>8 DEF InUnsent
    <2>2. t.conn \in Conns
        BY DEF Numbered
    <2>. QED BY <1>4, <2>1, <2>2 DEF InUnsent
<1>. QED BY <1>5, <1>6, <1>7, <1>8 DEF UnsentOrder

LEMMA SetCommitted ==
    ASSUME CommitTypes, NEW c \in Conns, NEW m \in Mutexes, NEW r, SetCommit(c, m, r)
    PROVE  /\ commit'[c][m] = r
           /\ \A d \in Conns, o \in Mutexes : d # c \/ o # m => commit'[d][o] = commit[d][o]
           /\ r \in Running => commit' \in [Conns -> [Mutexes -> Running]]
<1>. HIDE DEF CommitTypes
<1>1. commit \in [Conns -> [Mutexes -> Running]] /\ commit[c] \in [Mutexes -> Running]
    BY DEF CommitTypes
<1>2. commit' = [commit EXCEPT ![c] = [commit[c] EXCEPT ![m] = r]]
    BY DEF SetCommit
<1>. QED BY <1>1, <1>2

(* Another proxy's commits are not touched.                                *)
LEMMA OtherCounted ==
    ASSUME NEW d \in Conns, Counted(d), \A o \in Mutexes : commit'[d][o] = commit[d][o],
           index'[d] = index[d], made'[d] = made[d], alive' = alive,
           d \in overlapped' <=> d \in overlapped
    PROVE  Counted(d)'
BY DEF Counted, At, Filled

(* A commit that runs is the only one, or two overlapped.                  *)
LEMMA RunsAlone ==
    ASSUME NEW c \in Conns, Counted(c), NEW m \in Mutexes, ~At(c, m, "none")
    PROVE  /\ PidOf(c) \in alive
           /\ c \notin overlapped => \A o \in Mutexes \ {m} : At(c, o, "none")
BY DEF Counted

LEMMA CommitCounted ==
    ASSUME NEW c \in Conns, Counted(c), NEW m \in Mutexes, UNCHANGED alive, PidOf(c) \in alive,
           \A o \in Mutexes \ {m} : commit'[c][o] = commit[c][o],
           NEW r, commit'[c][m] = r,
           r.pc = "none" => r.parcels = <<>>, r.pc = "send" => r.parcels # <<>>,
           c \notin overlapped' =>
              /\ \A o \in Mutexes \ {m} : At(c, o, "none")
              /\ r.pc = "store" => r.loaded = made'[c]
              /\ IF r.pc = "fill" THEN r.loaded = made'[c] /\ index'[c] = made'[c] + 1
                                  ELSE index'[c] = made'[c]
    PROVE  Counted(c)'
<1>1. \A o \in Mutexes \ {m} : /\ At(c, o, "none")' => Filled(c, o)' = <<>>
                               /\ At(c, o, "send")' => Filled(c, o)' # <<>>
    BY DEF Counted, At, Filled
<1>2. /\ At(c, m, "none")' => Filled(c, m)' = <<>>
      /\ At(c, m, "send")' => Filled(c, m)' # <<>>
    BY DEF At, Filled
<1>3. ASSUME c \notin overlapped'
      PROVE  /\ \A o \in Mutexes \ {m} : At(c, o, "none")'
             /\ At(c, m, "store")' => commit'[c][m].loaded = made'[c]
             /\ At(c, m, "fill")' => commit'[c][m].loaded = made'[c] /\ index'[c] = made'[c] + 1
             /\ ~At(c, m, "fill")' => index'[c] = made'[c]
    BY <1>3 DEF At
<1>4. \A o \in Mutexes : ~(At(c, o, "none")' /\ (At(c, o, "store")' \/ At(c, o, "fill")'))
    BY DEF At
<1>. QED BY <1>1, <1>2, <1>3, <1>4 DEF Counted

(* Steps of a commit that number no parcel.                                *)
LEMMA CommitSends ==
    ASSUME OrderInv, SendInv, NEW c \in Conns, NEW m \in Mutexes, UNCHANGED alive,
           \/ PidOf(c) \in alive /\ CommitTransaction(c, m)
           \/ StoreIndex(c, m) \/ LoadIndex(c, m) \/ CommitFails(c, m)
    PROVE  /\ OrderInv' /\ NoneAdded /\ SendInv'
           /\ \A t \in Numbered : InUnsent(t)' => InUnsent(t)
           /\ \A d \in Conns : made[d] <= made'[d]
           /\ overlapped \subseteq overlapped'
<1>0. CommitTypes /\ \A d \in Conns : Counted(d)
    BY DEF SendInv
<1>1. PICK r \in Running : /\ SetCommit(c, m, r)
                           /\ r.parcels = Filled(c, m) \/ r.parcels = <<>>
    <2>1. commit[c][m] \in Running /\ index[c] \in Nat
        BY <1>0 DEF CommitTypes
    <2>2. CASE CommitTransaction(c, m)
        <3>. DEFINE r == [pc |-> "store", loaded |-> index[c], parcels |-> <<>>]
        <3>1. r \in Running /\ r.parcels = <<>>
            BY <2>1 DEF Running, CommitLabels
        <3>2. SetCommit(c, m, r)
            BY <2>2 DEF CommitTransaction
        <3>. QED BY <3>1, <3>2
    <2>3. CASE StoreIndex(c, m)
        <3>. DEFINE r == [commit[c][m] EXCEPT !.pc = "fill"]
        <3>1. r \in Running /\ r.parcels = Filled(c, m)
            BY <2>1 DEF Running, CommitLabels, Filled
        <3>2. SetCommit(c, m, r)
            BY <2>3 DEF StoreIndex
        <3>. QED BY <3>1, <3>2
    <2>4. CASE LoadIndex(c, m)
        <3>. DEFINE r == [commit[c][m] EXCEPT !.pc = "store", !.loaded = index[c]]
        <3>1. r \in Running /\ r.parcels = Filled(c, m)
            BY <2>1 DEF Running, CommitLabels, Filled
        <3>2. SetCommit(c, m, r)
            BY <2>4 DEF LoadIndex
        <3>. QED BY <3>1, <3>2
    <2>5. CASE CommitFails(c, m)
        <3>1. NoCommit \in Running /\ NoCommit.parcels = <<>>
            BY DEF NoCommit, Running, CommitLabels
        <3>2. SetCommit(c, m, NoCommit)
            BY <2>5 DEF CommitFails
        <3>. QED BY <3>1, <3>2
    <2>. QED BY <2>2, <2>3, <2>4, <2>5
<1>2. /\ commit'[c][m] = r
      /\ \A d \in Conns, o \in Mutexes : d # c \/ o # m => commit'[d][o] = commit[d][o]
      /\ commit' \in [Conns -> [Mutexes -> Running]]
    BY <1>0, <1>1, SetCommitted
<1>3. /\ UNCHANGED <<wire, threadVars, mainVars>>
      /\ index' \in [Conns -> Nat] /\ made' \in [Conns -> Nat]
      /\ \A d \in Conns : made[d] \in Nat /\ made[d] <= made'[d]
      /\ overlapped \subseteq overlapped'
      /\ \A d \in Conns \ {c} : /\ index'[d] = index[d] /\ made'[d] = made[d]
                                /\ d \in overlapped' <=> d \in overlapped
    <2>1. index \in [Conns -> Nat] /\ made \in [Conns -> Nat] /\ commit[c][m].loaded \in Nat
        BY <1>0 DEF CommitTypes, Running
    <2>2. CASE CommitTransaction(c, m) \/ LoadIndex(c, m)
        BY <2>1, <2>2 DEF CommitTransaction, LoadIndex
    <2>3. CASE StoreIndex(c, m)
        BY <2>1, <2>3 DEF StoreIndex
    <2>4. CASE CommitFails(c, m)
        BY <2>1, <2>4 DEF CommitFails
    <2>. QED BY <2>2, <2>3, <2>4
<1>4. CommitTypes'
    BY <1>2, <1>3 DEF CommitTypes
<1>5. OrderInv' /\ NoneAdded
    BY <1>3, GrowOrder DEF threadVars
<1>6. \A d \in Conns, o \in Mutexes : Filled(d, o)' = Filled(d, o) \/ Filled(d, o)' = <<>>
    BY <1>1, <1>2 DEF Filled
<1>7. UnsentOrder' /\ \A t \in Numbered : InUnsent(t)' => InUnsent(t)
    <2>1. ASSUME NEW d \in Conns, NEW o \in Mutexes
          PROVE  \E k \in Nat : \A i \in DOMAIN Filled(d, o)' :
                    i \in Nat /\ i + k \in DOMAIN Filled(d, o) /\ Filled(d, o)'[i] = Filled(d, o)[i + k]
        <3>1. Filled(d, o) \in Seq(Numbered)
            BY <1>0 DEF CommitTypes, Running, Filled
        <3>2. \A i \in DOMAIN Filled(d, o)' : i \in Nat /\ i + 0 = i /\ i \in DOMAIN Filled(d, o)
            BY <1>6, <3>1
        <3>3. \A i \in DOMAIN Filled(d, o)' : Filled(d, o)'[i] = Filled(d, o)[i]
            BY <1>6
        <3>. WITNESS 0 \in Nat
        <3>. QED BY <3>2, <3>3
    <2>. QED BY <1>3, <1>4, <2>1, UnsentKept
<1>8. SentOrder'
    <2>1. \A t, u : Before(t, u) => Before(t, u)'
        BY <1>0, <1>3, Grows DEF CommitTypes
    <2>. QED BY <1>5, <1>7, <2>1 DEF SendInv, SentOrder, NoneAdded
<1>9. \A d \in Conns \ {c} : Counted(d)'
    BY <1>0, <1>2, <1>3, OtherCounted
<1>10. Counted(c)'
    <2>0. /\ Counted(c) /\ made[c] \in Nat /\ index[c] \in Nat /\ commit[c][m].loaded \in Nat
          /\ \A o \in Mutexes \ {m} : commit'[c][o] = commit[c][o]
          /\ made \in [Conns -> Nat] /\ index \in [Conns -> Nat] /\ commit[c][m] \in Running
        BY <1>0, <1>2 DEF CommitTypes, Running
    <2>1. CASE PidOf(c) \in alive /\ CommitTransaction(c, m)
        <3>1. /\ At(c, m, "none") /\ commit'[c][m] = [pc |-> "store", loaded |-> index[c], parcels |-> <<>>]
              /\ UNCHANGED <<index, made>>
              /\ c \notin overlapped' => c \notin overlapped /\ \A o \in Mutexes : At(c, o, "none")
            BY <1>0, <2>1, SetCommitted DEF CommitTransaction
        <3>2. index[c] = made[c] \/ c \in overlapped'
            BY <2>0, <2>1, <3>1 DEF Counted, At
        <3>. QED BY <2>0, <2>1, <3>1, <3>2, CommitCounted
    <2>2. CASE StoreIndex(c, m)
        <3>1. /\ At(c, m, "store") /\ index'[c] = commit[c][m].loaded + 1
              /\ commit'[c][m].pc = "fill" /\ commit'[c][m].loaded = commit[c][m].loaded
              /\ UNCHANGED <<overlapped, made>>
            <4>1. commit'[c][m] = [commit[c][m] EXCEPT !.pc = "fill"]
                BY <1>0, <2>2, SetCommitted DEF StoreIndex
            <4>. QED BY <2>0, <2>2, <4>1 DEF StoreIndex, Running
        <3>. QED BY <2>0, <3>1 DEF Counted, At, Filled
    <2>3. CASE LoadIndex(c, m)
        <3>1. /\ At(c, m, "load") /\ UNCHANGED <<index, made, overlapped>>
              /\ commit'[c][m].pc = "store" /\ commit'[c][m].loaded = index[c]
            <4>1. commit'[c][m] = [commit[c][m] EXCEPT !.pc = "store", !.loaded = index[c]]
                BY <1>0, <2>3, SetCommitted DEF LoadIndex
            <4>. QED BY <2>0, <2>3, <4>1 DEF LoadIndex, Running
        <3>. QED BY <2>0, <3>1 DEF Counted, At, Filled
    <2>4. CASE CommitFails(c, m)
        <3>1. /\ commit'[c][m] = NoCommit /\ UNCHANGED <<index, overlapped>>
              /\ \/ At(c, m, "fill") /\ made'[c] = made[c] + 1
                 \/ At(c, m, "send") /\ made' = made
            BY <1>0, <2>0, <2>4, SetCommitted DEF CommitFails
        <3>2. /\ PidOf(c) \in alive
              /\ c \notin overlapped => \A o \in Mutexes \ {m} : At(c, o, "none")
            BY <2>0, <3>1, RunsAlone DEF At
        <3>3. c \notin overlapped => index'[c] = made'[c]
            <4>1. CASE At(c, m, "fill") /\ made'[c] = made[c] + 1
                BY <2>0, <3>1, <4>1 DEF Counted
            <4>2. CASE At(c, m, "send") /\ made' = made
                <5>1. c \notin overlapped => \A o \in Mutexes : ~At(c, o, "fill")
                    BY <3>2, <4>2 DEF At
                <5>. QED BY <2>0, <3>1, <3>2, <4>2, <5>1 DEF Counted
            <4>. QED BY <3>1, <4>1, <4>2
        <3>. QED BY <2>0, <3>1, <3>2, <3>3, CommitCounted DEF NoCommit
    <2>. QED BY <2>1, <2>2, <2>3, <2>4
<1>11. \A d \in Conns : Counted(d)'
    BY <1>9, <1>10
<1>12. SendInv'
    BY <1>4, <1>7, <1>8, <1>11 DEF SendInv
<1>. QED BY <1>3, <1>5, <1>7, <1>12

(* A parcel is numbered: it comes after all that the proxy had.            *)
LEMMA FillSends ==
    ASSUME OrderInv, SendInv, NEW c \in Conns, NEW m \in Mutexes, UNCHANGED alive, FillParcel(c, m)
    PROVE  /\ OrderInv' /\ NoneAdded /\ SendInv'
           /\ \A t \in Numbered : InUnsent(t)' =>
                 InUnsent(t) \/ (t.conn = c /\ (c \notin overlapped => t.index = made[c] + 1))
           /\ \A d \in Conns : made[d] <= made'[d]
           /\ UNCHANGED overlapped
<1>0. /\ CommitTypes /\ \A d \in Conns : Counted(d)
      /\ At(c, m, "fill") /\ made' = [made EXCEPT ![c] = @ + 1]
      /\ UNCHANGED <<index, overlapped, wire, threadVars, mainVars>>
    BY DEF SendInv, FillParcel
<1>1. /\ index[c] \in Nat /\ made[c] \in Nat /\ commit[c][m] \in Running
      /\ commit[c][m].loaded \in Nat /\ Filled(c, m) \in Seq(Numbered)
      /\ made \in [Conns -> Nat]
    BY <1>0 DEF CommitTypes, Running, Filled
<1>2. PICK number \in {commit[c][m].loaded + 1, index[c]}, next \in {"send", "load"} :
        SetCommit(c, m, [pc |-> next, loaded |-> 0, parcels |->
          Append(Filled(c, m), [conn |-> c, index |-> number, id |-> made[c] + 1])])
    BY DEF FillParcel, Filled
<1>a. PICK new : new = [conn |-> c, index |-> number, id |-> made[c] + 1]
    OBVIOUS
<1>3. new \in Numbered /\ new.conn = c /\ new.index = number /\ new.id = made[c] + 1
    BY <1>1, <1>2, <1>a DEF Numbered
<1>b. PICK r : r = [pc |-> next, loaded |-> 0, parcels |-> Append(Filled(c, m), new)]
    OBVIOUS
<1>4. /\ r \in Running /\ r.pc = next /\ r.loaded = 0 /\ r.parcels = Append(Filled(c, m), new)
      /\ SetCommit(c, m, r)
    <2>1. Append(Filled(c, m), new) \in Seq(Numbered)
        BY <1>1, <1>3
    <2>. QED BY <1>2, <1>a, <1>b, <2>1 DEF Running, CommitLabels
<1>c. PICK n : n = Len(Filled(c, m)) + 1
    OBVIOUS
<1>5. /\ commit'[c][m] = r
      /\ \A d \in Conns, o \in Mutexes : d # c \/ o # m => commit'[d][o] = commit[d][o]
      /\ commit' \in [Conns -> [Mutexes -> Running]]
    BY <1>0, <1>4, SetCommitted
<1>6. /\ made' \in [Conns -> Nat] /\ made'[c] = made[c] + 1
      /\ \A d \in Conns : made[d] \in Nat /\ made[d] <= made'[d]
      /\ \A d \in Conns \ {c} : made'[d] = made[d]
    BY <1>0, <1>1
<1>7. CommitTypes'
    BY <1>0, <1>5, <1>6 DEF CommitTypes
<1>8. OrderInv' /\ NoneAdded
    BY <1>0, <1>6, GrowOrder DEF threadVars
<1>9. c \notin overlapped => /\ number = made[c] + 1 /\ index[c] = made[c] + 1
                             /\ \A o \in Mutexes \ {m} : At(c, o, "none") /\ Filled(c, o) = <<>>
    BY <1>0, <1>1, <1>2 DEF Counted, At
<1>10. /\ \A t, u : Before(t, u) => Before(t, u)'
       /\ \A t \in Numbered : InRange(t) => InRange(t)'
    BY <1>1, <1>0, <1>6, Grows
<1>11. InRange(new)'
    BY <1>0, <1>1, <1>3, <1>6, <1>9 DEF InRange
(* What is in range before the step is not the new parcel.                 *)
<1>12. \A t \in Numbered : t.conn = c /\ InRange(t) => Before(t, new)'
    <2>. SUFFICES ASSUME NEW t \in Numbered, t.conn = c, InRange(t) PROVE Before(t, new)'
        OBVIOUS
    <2>1. t.id <= made[c] /\ t.id \in Nat /\ (c \notin overlapped => t.index = t.id)
        BY DEF InRange, Numbered
    <2>2. t # new /\ (c \notin overlapped => t.index < new.index)
        BY <1>1, <1>3, <1>9, <2>1
    <2>. QED BY <1>0, <1>3, <2>2 DEF Before
<1>13. \A t \in Numbered : t.conn # c => Before(t, new)'
    BY <1>3 DEF Before
<1>14. /\ n \in DOMAIN Filled(c, m)' /\ Filled(c, m)'[n] = new
       /\ \A i \in DOMAIN Filled(c, m)' :
             i \in Nat /\ (i = n \/ (i < n /\ i \in DOMAIN Filled(c, m) /\ Filled(c, m)'[i] = Filled(c, m)[i]))
       /\ \A d \in Conns, o \in Mutexes : d # c \/ o # m => Filled(d, o)' = Filled(d, o)
       /\ \A d \in Conns, o \in Mutexes : Filled(d, o) \in Seq(Numbered)
    <2>1. Filled(c, m)' = Append(Filled(c, m), new)
        BY <1>4, <1>5 DEF Filled
    <2>2. \A d \in Conns, o \in Mutexes : d # c \/ o # m => Filled(d, o)' = Filled(d, o)
        BY <1>5 DEF Filled
    <2>3. \A d \in Conns, o \in Mutexes : Filled(d, o) \in Seq(Numbered)
        BY <1>0 DEF CommitTypes, Running, Filled
    <2>4. /\ DOMAIN Filled(c, m)' = 1..n /\ n \in 1..n /\ DOMAIN Filled(c, m) = 1..n - 1
          /\ Filled(c, m)'[n] = new
          /\ \A i \in 1..n - 1 : Filled(c, m)'[i] = Filled(c, m)[i]
        BY <1>1, <1>3, <1>c, <2>1
    <2>5. n \in Nat
        BY <1>1, <1>c
    <2>. QED BY <2>2, <2>3, <2>4, <2>5
<1>15. \A t \in Numbered : InUnsent(t)' => InUnsent(t) \/ t = new
    <2>. SUFFICES ASSUME NEW t \in Numbered, InUnsent(t)' PROVE InUnsent(t) \/ t = new
        OBVIOUS
    <2>1. PICK o \in Mutexes : \E i \in DOMAIN Filled(t.conn, o)' : Filled(t.conn, o)'[i] = t
        BY DEF InUnsent
    <2>2. t.conn \in Conns
        BY DEF Numbered
    <2>3. CASE t.conn = c /\ o = m
        BY <1>14, <2>1, <2>3 DEF InUnsent
    <2>4. CASE t.conn # c \/ o # m
        BY <1>14, <2>1, <2>2, <2>4 DEF InUnsent
    <2>. QED BY <2>3, <2>4
<1>16. \A d \in Conns, o \in Mutexes : \A i \in DOMAIN Filled(d, o) :
          /\ Filled(d, o)[i] \in Numbered /\ Filled(d, o)[i].conn = d
          /\ InRange(Filled(d, o)[i])
    <2>1. \A d \in Conns, o \in Mutexes : \A i \in DOMAIN Filled(d, o) : Filled(d, o)[i] \in Numbered
        BY <1>14
    <2>. QED BY <2>1 DEF SendInv, UnsentOrder
<1>17. UnsentOrder'
    <2>1. ASSUME NEW d \in Conns, NEW o \in Mutexes, NEW i \in DOMAIN Filled(d, o)'
          PROVE  Filled(d, o)'[i].conn = d /\ InRange(Filled(d, o)[i])'
        <3>1. CASE d = c /\ o = m
            BY <1>3, <1>10, <1>11, <1>14, <1>16, <2>1, <3>1
        <3>2. CASE d # c \/ o # m
            BY <1>10, <1>14, <1>16, <2>1, <3>2
        <3>. QED BY <3>1, <3>2
    <2>2. ASSUME NEW d \in Conns, NEW o \in Mutexes,
                 NEW i \in DOMAIN Filled(d, o)', NEW j \in DOMAIN Filled(d, o)', i < j
          PROVE  Before(Filled(d, o)[i], Filled(d, o)[j])'
        <3>1. CASE d = c /\ o = m
            <4>1. i \in DOMAIN Filled(c, m) /\ Filled(c, m)'[i] = Filled(c, m)[i]
                BY <1>14, <2>2, <3>1
            <4>2. CASE j = n
                BY <1>12, <1>14, <1>16, <3>1, <4>1, <4>2
            <4>3. CASE j # n
                BY <1>10, <1>14, <2>2, <3>1, <4>1, <4>3 DEF SendInv, UnsentOrder
            <4>. QED BY <4>2, <4>3
        <3>2. CASE d # c \/ o # m
            BY <1>10, <1>14, <2>2, <3>2 DEF SendInv, UnsentOrder
        <3>. QED BY <3>1, <3>2
    <2>3. ASSUME NEW d \in Conns, NEW o \in Mutexes, NEW q \in Mutexes, o # q,
                 NEW i \in DOMAIN Filled(d, o)', NEW j \in DOMAIN Filled(d, q)'
          PROVE  Filled(d, o)'[i] # Filled(d, q)'[j]
        <3>1. \A t \in Numbered : t.conn = c /\ InRange(t) => t # new
            BY <1>1, <1>3 DEF InRange
        <3>2. CASE d = c /\ o = m
            <4>1. q # m /\ j \in DOMAIN Filled(c, q) /\ Filled(c, q)'[j] = Filled(c, q)[j]
                BY <1>14, <2>3, <3>2
            <4>. QED BY <1>14, <1>16, <2>3, <3>1, <3>2, <4>1 DEF SendInv, UnsentOrder
        <3>3. CASE d = c /\ q = m
            <4>1. o # m /\ i \in DOMAIN Filled(c, o) /\ Filled(c, o)'[i] = Filled(c, o)[i]
                BY <1>14, <2>3, <3>3
            <4>. QED BY <1>14, <1>16, <2>3, <3>1, <3>3, <4>1 DEF SendInv, UnsentOrder
        <3>4. CASE d # c \/ (o # m /\ q # m)
            BY <1>14, <2>3, <3>4 DEF SendInv, UnsentOrder
        <3>. QED BY <3>2, <3>3, <3>4
    <2>. QED BY <2>1, <2>2, <2>3 DEF UnsentOrder
<1>18. SentOrder'
    <2>1. \A t \in Numbered : OnItsWay(t) \/ InProcessed(t) => InRange(t)
        <3>. TAKE t \in Numbered
        <3>1. t.conn \in Conns
            BY DEF Numbered
        <3>. QED BY <3>1 DEF OnItsWay, OnWire, AtStub, OrderInv, ArrivalOrder, WireOrder
    <2>2. \A t \in Numbered : OnItsWay(t) \/ InProcessed(t) => Before(t, new)'
        BY <1>12, <1>13, <2>1
    <2>3. \A t \in Numbered : (OnItsWay(t) \/ InProcessed(t))' => OnItsWay(t) \/ InProcessed(t)
        BY <1>8 DEF NoneAdded
    <2>. QED BY <1>10, <1>15, <2>2, <2>3 DEF SendInv, SentOrder
<1>19. \A d \in Conns : Counted(d)'
    <2>1. \A d \in Conns \ {c} : Counted(d)'
        BY <1>0, <1>5, <1>6, OtherCounted
    <2>2. Counted(c)'
        <3>1. PidOf(c) \in alive
            BY <1>0, RunsAlone DEF At
        <3>2. r.parcels # <<>>
            BY <1>1, <1>3, <1>4
        <3>3. r.pc \in {"send", "load"}
            BY <1>2, <1>4
        <3>. QED BY <1>0, <1>5, <1>6, <1>9, <3>1, <3>2, <3>3, CommitCounted
    <2>. QED BY <2>1, <2>2
<1>20. SendInv'
    BY <1>7, <1>17, <1>18, <1>19 DEF SendInv
<1>21. \A t \in Numbered : InUnsent(t)' =>
          InUnsent(t) \/ (t.conn = c /\ (c \notin overlapped => t.index = made[c] + 1))
    BY <1>3, <1>9, <1>15
<1>. QED BY <1>0, <1>6, <1>8, <1>20, <1>21

(* The parcel that is sent goes from the commit to the wire.               *)
LEMMA SendSends ==
    ASSUME OrderInv, SendInv, NEW c \in Conns, NEW m \in Mutexes, UNCHANGED alive, SendParcel(c, m)
    PROVE  /\ OrderInv' /\ SendInv'
           /\ \A t \in Numbered : Coming(t)' => Coming(t)
           /\ UNCHANGED <<made, overlapped>>
<1>. DEFINE s == Filled(c, m)[1]
            r == IF Len(Filled(c, m)) = 1 THEN NoCommit
                 ELSE [commit[c][m] EXCEPT !.parcels = Tail(@)]
<1>0. /\ CommitTypes /\ \A d \in Conns : Counted(d)
      /\ At(c, m, "send") /\ SetCommit(c, m, r)
      /\ UNCHANGED <<index, made, overlapped>>
    BY DEF SendInv, SendParcel, Filled
<1>1. /\ OrderInv' /\ s \in Numbered /\ s.conn = c /\ 1 \in DOMAIN Filled(c, m) /\ InUnsent(s)
      /\ \A t \in Numbered : /\ OnItsWay(t)' => OnItsWay(t) \/ t = s
                             /\ InProcessed(t)' => InProcessed(t)
    BY SendOrder
<1>2. \A d \in Conns, o \in Mutexes : Filled(d, o) \in Seq(Numbered) /\ commit[d][o] \in Running
    BY <1>0 DEF CommitTypes, Running, Filled
<1>3. /\ r \in Running /\ r.parcels = Tail(Filled(c, m))
      /\ r.pc \in {"none", "send"} /\ (r.pc = "none" <=> r.parcels = <<>>)
    <2>. DEFINE f == Filled(c, m)
    <2>1. f \in Seq(Numbered) /\ commit[c][m] \in Running /\ f = commit[c][m].parcels
          /\ commit[c][m].pc = "send" /\ Len(f) > 0
        BY <1>0, <1>1, <1>2 DEF Filled, At
    <2>. HIDE DEF f
    <2>t. f # <<>> /\ Tail(f) \in Seq(Numbered) /\ Len(Tail(f)) = Len(f) - 1 /\ Len(f) \in Nat
        BY <2>1, EmptySeq, LenProperties, HeadTailProperties
    <2>2. CASE Len(f) = 1
        <3>1. r = NoCommit
            BY <2>2 DEF f
        <3>a. Tail(f) = <<>>
            <4>1. Tail(f) \in Seq(Numbered) /\ Len(Tail(f)) = 0
                BY <2>1, <2>2, <2>t
            <4>. QED BY <4>1, EmptySeq
        <3>2. NoCommit \in Running /\ NoCommit.pc = "none" /\ NoCommit.parcels = <<>>
            BY DEF NoCommit, Running, CommitLabels
        <3>. HIDE DEF r
        <3>. QED BY <3>1, <3>a, <3>2 DEF f
    <2>3. CASE Len(f) # 1
        <3>1. r = [commit[c][m] EXCEPT !.parcels = Tail(@)]
            BY <2>3 DEF f
        <3>2. Tail(f) \in Seq(Numbered) /\ Tail(f) # <<>>
            <4>1. Tail(f) \in Seq(Numbered) /\ Len(Tail(f)) # 0
                BY <2>1, <2>3, <2>t
            <4>2. Len(<<>>) = 0
                OBVIOUS
            <4>. QED BY <4>1, <4>2
        <3>. HIDE DEF r
        <3>3. r \in Running /\ r.parcels = Tail(f) /\ r.pc = "send"
            BY <2>1, <3>1, <3>2 DEF Running
        <3>. QED BY <3>2, <3>3 DEF f
    <2>. QED BY <2>2, <2>3
<1>. HIDE DEF r
<1>4. /\ commit'[c][m] = r
      /\ \A d \in Conns, o \in Mutexes : d # c \/ o # m => commit'[d][o] = commit[d][o]
      /\ commit' \in [Conns -> [Mutexes -> Running]]
    BY <1>0, <1>3, SetCommitted
<1>5. CommitTypes'
    BY <1>0, <1>4 DEF CommitTypes
<1>6. /\ \A d \in Conns, o \in Mutexes : d # c \/ o # m => Filled(d, o)' = Filled(d, o)
      /\ \A i \in DOMAIN Filled(c, m)' :
            i \in Nat /\ 1 < i + 1 /\ i + 1 \in DOMAIN Filled(c, m) /\ Filled(c, m)'[i] = Filled(c, m)[i + 1]
    <2>1. Filled(c, m)' = Tail(Filled(c, m)) /\ Filled(c, m) \in Seq(Numbered) /\ Len(Filled(c, m)) > 0
        BY <1>1, <1>2, <1>3, <1>4 DEF Filled
    <2>. QED BY <1>4, <2>1 DEF Filled
<1>7. UnsentOrder' /\ \A t \in Numbered : InUnsent(t)' => InUnsent(t)
    <2>1. ASSUME NEW d \in Conns, NEW o \in Mutexes
          PROVE  \E k \in Nat : \A i \in DOMAIN Filled(d, o)' :
                    i \in Nat /\ i + k \in DOMAIN Filled(d, o) /\ Filled(d, o)'[i] = Filled(d, o)[i + k]
        <3>1. CASE d = c /\ o = m
            BY <1>6, <3>1
        <3>2. CASE d # c \/ o # m
            <4>1. \A i \in DOMAIN Filled(d, o)' : i \in Nat /\ i + 0 = i /\ i \in DOMAIN Filled(d, o)
                BY <1>2, <1>6, <3>2
            <4>2. \A i \in DOMAIN Filled(d, o)' : Filled(d, o)'[i] = Filled(d, o)[i]
                BY <1>6, <3>2
            <4>. WITNESS 0 \in Nat
            <4>. QED BY <4>1, <4>2
        <3>. QED BY <3>1, <3>2
    <2>2. \A d \in Conns : made[d] <= made'[d]
        BY <1>0 DEF CommitTypes
    <2>. QED BY <1>0, <1>5, <2>1, <2>2, UnsentKept
(* The rest of the commit, and what another commit has, come after s.      *)
<1>8. \A u \in Numbered : InUnsent(u)' => Before(s, u)
    <2>. SUFFICES ASSUME NEW u \in Numbered, InUnsent(u)' PROVE Before(s, u)
        OBVIOUS
    <2>1. PICK o \in Mutexes : \E i \in DOMAIN Filled(u.conn, o)' : Filled(u.conn, o)'[i] = u
        BY DEF InUnsent
    <2>2. PICK i \in DOMAIN Filled(u.conn, o)' : Filled(u.conn, o)'[i] = u
        BY <2>1
    <2>3. u.conn \in Conns
        BY DEF Numbered
    <2>4. CASE u.conn # c
        BY <1>1, <2>4 DEF Before
    <2>5. CASE u.conn = c /\ o = m
        <3>1. 1 < i + 1 /\ i + 1 \in DOMAIN Filled(c, m) /\ Filled(c, m)[i + 1] = u
            BY <1>6, <2>2, <2>5
        <3>. QED BY <1>1, <3>1 DEF SendInv, UnsentOrder
    <2>6. CASE u.conn = c /\ o # m
        <3>1. i \in DOMAIN Filled(c, o) /\ Filled(c, o)[i] = u
            BY <1>6, <2>2, <2>6
        <3>2. s # u
            BY <1>1, <2>6, <3>1 DEF SendInv, UnsentOrder
        <3>3. c \in overlapped
            <4>1. ~At(c, o, "none")
                BY <1>0, <3>1 DEF Counted
            <4>. QED BY <1>0, <2>6, <4>1 DEF Counted, At
        <3>. QED BY <1>1, <3>2, <3>3 DEF Before
    <2>. QED BY <2>4, <2>5, <2>6
<1>. HIDE DEF s
<1>9. SentOrder'
    <2>1. \A t, u : Before(t, u)' <=> Before(t, u)
        BY <1>0, SameOrder
    <2>. QED BY <1>1, <1>7, <1>8, <2>1 DEF SendInv, SentOrder
<1>10. \A d \in Conns : Counted(d)'
    <2>1. \A d \in Conns \ {c} : Counted(d)'
        BY <1>0, <1>4, OtherCounted
    <2>2. PidOf(c) \in alive /\ (c \notin overlapped => \A o \in Mutexes \ {m} : At(c, o, "none"))
        BY <1>0, RunsAlone DEF At
    <2>3. c \notin overlapped => index[c] = made[c]
        <3>1. c \notin overlapped => \A o \in Mutexes : ~At(c, o, "fill")
            BY <1>0, <2>2 DEF At
        <3>. QED BY <1>0, <2>2, <3>1 DEF Counted
    <2>4. Counted(c)'
        BY <1>0, <1>3, <1>4, <2>2, <2>3, CommitCounted
    <2>. QED BY <2>1, <2>4
<1>11. SendInv'
    BY <1>5, <1>7, <1>9, <1>10 DEF SendInv
<1>12. \A t \in Numbered : Coming(t)' => Coming(t)
    BY <1>1, <1>7 DEF Coming
<1>. QED BY <1>0, <1>1, <1>11, <1>12

(* A process that dies takes what it has not sent with it.                 *)
LEMMA DieSends ==
    ASSUME OrderInv, SendInv, NEW p \in Pids, Die(p)
    PROVE  /\ OrderInv' /\ NoneAdded /\ SendInv'
           /\ \A t \in Numbered : InUnsent(t)' => InUnsent(t)
<1>0. /\ CommitTypes /\ \A d \in Conns : Counted(d)
      /\ alive' = alive \ {p}
      /\ commit' = [c \in Conns |-> IF PidOf(c) = p THEN [m \in Mutexes |-> NoCommit] ELSE commit[c]]
      /\ UNCHANGED <<index, made, overlapped, wire, threadVars, mainVars>>
    BY DEF Die, SendInv
<1>1. OrderInv' /\ NoneAdded
    BY <1>0, QuietOrder DEF threadVars
<1>2. \A d \in Conns, o \in Mutexes :
        \/ PidOf(d) = p /\ commit'[d][o] = NoCommit
        \/ PidOf(d) # p /\ commit'[d][o] = commit[d][o]
    BY <1>0
<1>3. CommitTypes'
    <2>1. NoCommit \in Running
        BY DEF NoCommit, Running, CommitLabels
    <2>2. \A d \in Conns : commit'[d] \in [Mutexes -> Running]
        BY <1>0, <2>1 DEF CommitTypes
    <2>3. commit' \in [Conns -> [Mutexes -> Running]]
        BY <1>0, <2>2
    <2>. QED BY <1>0, <2>3 DEF CommitTypes
<1>4. UnsentOrder' /\ \A t \in Numbered : InUnsent(t)' => InUnsent(t)
    <2>1. ASSUME NEW d \in Conns, NEW o \in Mutexes
          PROVE  \E k \in Nat : \A i \in DOMAIN Filled(d, o)' :
                    i \in Nat /\ i + k \in DOMAIN Filled(d, o) /\ Filled(d, o)'[i] = Filled(d, o)[i + k]
        <3>1. Filled(d, o)' = Filled(d, o) \/ Filled(d, o)' = <<>>
            BY <1>2 DEF Filled, NoCommit
        <3>2. Filled(d, o) \in Seq(Numbered)
            BY <1>0 DEF CommitTypes, Running, Filled
        <3>3. \A i \in DOMAIN Filled(d, o)' : i \in Nat /\ i + 0 = i /\ i \in DOMAIN Filled(d, o)
            BY <3>1, <3>2
        <3>4. \A i \in DOMAIN Filled(d, o)' : Filled(d, o)'[i] = Filled(d, o)[i]
            BY <3>1
        <3>. WITNESS 0 \in Nat
        <3>. QED BY <3>3, <3>4
    <2>2. \A d \in Conns : made[d] <= made'[d]
        BY <1>0 DEF CommitTypes
    <2>. QED BY <1>0, <1>3, <2>1, <2>2, UnsentKept
<1>5. SentOrder'
    <2>1. \A t, u : Before(t, u)' <=> Before(t, u)
        BY <1>0, SameOrder
    <2>. QED BY <1>1, <1>4, <2>1 DEF SendInv, SentOrder, NoneAdded
<1>6. \A d \in Conns : Counted(d)'
    <2>. TAKE d \in Conns
    <2>1. CASE PidOf(d) = p
        <3>1. \A o \in Mutexes : At(d, o, "none")' /\ Filled(d, o)' = <<>> /\ ~At(d, o, "send")'
                                 /\ ~At(d, o, "store")' /\ ~At(d, o, "fill")'
            BY <1>2, <2>1 DEF At, Filled, NoCommit
        <3>2. PidOf(d) \notin alive'
            BY <1>0, <2>1
        <3>. QED BY <3>1, <3>2 DEF Counted
    <2>2. CASE PidOf(d) # p
        BY <1>0, <1>2, <2>2 DEF Counted, At, Filled
    <2>. QED BY <2>1, <2>2
<1>. QED BY <1>1, <1>3, <1>4, <1>5, <1>6 DEF SendInv

LEMMA StepOrder == OrderInv /\ SendInv /\ [Next]_vars => OrderInv' /\ SendInv'
<1>. SUFFICES ASSUME OrderInv, SendInv, [Next]_vars PROVE OrderInv' /\ SendInv'
    OBVIOUS
(* Steps of the service, and of clients that do not commit.                *)
<1>s. ASSUME OrderInv', NoneAdded, UNCHANGED <<commitVars, alive>>
      PROVE  OrderInv' /\ SendInv'
    BY <1>s, ServiceSends
<1>q. ASSUME UNCHANGED <<dataVars, alive>>
      PROVE  OrderInv' /\ SendInv'
    BY <1>q, <1>s, QuietOrder DEF dataVars, threadVars, clientVars, commitVars
<1>1. ASSUME NEW p \in Pids, Die(p) PROVE OrderInv' /\ SendInv'
    BY <1>1, DieSends
<1>2. ASSUME NEW c \in Conns, GetRenderServiceConnection(c) \/ SetConn(c)
      PROVE  OrderInv' /\ SendInv'
    BY <1>2, <1>q DEF GetRenderServiceConnection, SetConn
<1>3. ASSUME NEW c \in Conns, CallStep(c) PROVE OrderInv' /\ SendInv'
    <2>1. CASE AddPid(c)
        BY <1>s, <2>1, PidOfConn, PidInfoOrder DEF AddPid, clientVars
    <2>2. CASE Construct(c) \/ Store(c) \/ Release(c) \/ Reply(c)
        BY <1>q, <2>2 DEF Construct, Store, Release, Reply
    <2>. QED BY <1>3, <2>1, <2>2 DEF CallStep
<1>4. ASSUME NEW c \in Conns, OnRemoteDied(c) \/ Destroy(c) \/ CleanTask(c) \/ CleanRest(c)
      PROVE  OrderInv' /\ SendInv'
    <2>1. CASE CleanTask(c)
        BY <1>s, <2>1, PidOfConn, PidInfoOrder DEF CleanTask, clientVars
    <2>2. CASE OnRemoteDied(c) \/ Destroy(c) \/ CleanRest(c)
        BY <1>q, <2>2 DEF OnRemoteDied, Destroy, CleanRest
    <2>. QED BY <1>4, <2>1, <2>2
<1>5. ASSUME NEW c \in Conns, NEW m \in Mutexes, Commit(c, m)
      PROVE  OrderInv' /\ SendInv'
    BY <1>5, CommitSends, FillSends, SendSends DEF Commit, CommitStep, connVars
<1>6. ASSUME NEW c \in Conns, StubStep(c) /\ UNCHANGED connVars
      PROVE  OrderInv' /\ SendInv'
    <2>1. OrderInv' /\ NoneAdded
        BY <1>6, StubReceivesOrder, StubStoresOrder, StubRequestsOrder, StubDropsOrder DEF StubStep
    <2>2. UNCHANGED <<commitVars, alive>>
        BY <1>6 DEF StubStep, StubReceives, StubStores, StubRequestsVSync, StubDrops,
                    clientVars, connVars
    <2>. QED BY <1>s, <2>1, <2>2
<1>7. CASE (UnmarshalStep \/ RequestNextVSync) /\ UNCHANGED connVars
    <2>1. OrderInv' /\ NoneAdded
        BY <1>7, UnmarshalOrder, BarrierOrder, QuietOrder
           DEF UnmarshalStep, RequestNextVSync, clientVars, commitVars
    <2>2. UNCHANGED <<commitVars, alive>>
        BY <1>7 DEF UnmarshalStep, UnmarshalParcel, UnmarshalFails, UnmarshalBarrier,
                    RequestNextVSync, clientVars, connVars
    <2>. QED BY <1>s, <2>1, <2>2
<1>8. CASE (OnVsync \/ ForceRefreshForUni) /\ UNCHANGED connVars
    <2>0. elapsed \in [Pids -> Nat \cup {Unset}]
        BY DEF OrderInv, DataTypes, MainTypes
    <2>1. StartFrame /\ elapsed' \in [Pids -> Nat \cup {Unset}]
        <3>1. CASE ForceRefreshForUni
            BY <2>0, <3>1 DEF ForceRefreshForUni
        <3>2. CASE OnVsync
            <4>1. PICK frames \in {1, SkipLimit + 1} : elapsed' = [p \in Pids |-> Later(p, frames)]
                BY <3>2 DEF OnVsync
            <4>2. \A p \in Pids : Later(p, frames) \in Nat \cup {Unset}
                BY <2>0, SkipLimitType DEF Later
            <4>. QED BY <3>2, <4>1, <4>2 DEF OnVsync
        <3>. QED BY <1>8, <3>1, <3>2
    <2>2. OrderInv' /\ NoneAdded
        BY <2>1, StartFrameOrder
    <2>3. UNCHANGED <<commitVars, alive>>
        BY <1>8, <2>1 DEF StartFrame, clientVars, connVars
    <2>. QED BY <1>s, <2>2, <2>3
<1>9. CASE ProcessCommand /\ UNCHANGED connVars
    BY <1>9, <1>s, ProcessOrder DEF ProcessCommand, clientVars, connVars
<1>10. CASE UNCHANGED vars
    BY <1>10, <1>q DEF vars, connVars
<1>. QED BY <1>1, <1>2, <1>3, <1>4, <1>5, <1>6, <1>7, <1>8, <1>9, <1>10 DEF Next

(* What waits is numbered, sent, stored by the IPC thread or arrived.      *)
LEMMA WaitingSomewhere ==
    ASSUME OrderInv, SendInv, NEW c \in Conns, NEW t \in Waiting(c)
    PROVE  t \in Numbered /\ t.conn = c /\ (InUnsent(t) \/ OnWire(t) \/ AtStub(t) \/ Arrived(t))
<1>0. DataTypes /\ WireOrder
    BY DEF OrderInv
<1>u. CASE t \in Unsent(c)
    <2>1. PICK m \in Mutexes : t \in ToSet(Filled(c, m))
        BY <1>u DEF Unsent, Filled
    <2>2. PICK i \in DOMAIN Filled(c, m) : t = Filled(c, m)[i]
        BY <2>1 DEF ToSet
    <2>3. Filled(c, m) \in Seq(Numbered)
        BY DEF SendInv, CommitTypes, Running, Filled
    <2>4. t \in Numbered
        BY <2>2, <2>3
    <2>. QED BY <2>2, <2>4 DEF SendInv, UnsentOrder, InUnsent
<1>1. CASE t \in {wire[c][i].data : i \in DOMAIN wire[c]}
    <2>1. PICK i \in DOMAIN wire[c] : t = wire[c][i].data
        BY <1>1
    <2>2. wire[c][i] \in [big : BOOLEAN, data : Numbered]
        <3>. DEFINE Parcels == [big : BOOLEAN, data : Numbered]
        <3>1. wire[c] \in Seq(Parcels)
            BY <1>0 DEF DataTypes
        <3>. HIDE DEF Parcels
        <3>2. wire[c][i] \in Parcels
            BY <3>1
        <3>. QED BY <3>2 DEF Parcels
    <2>3. t.conn = c
        BY <1>0, <2>1 DEF WireOrder
    <2>. QED BY <2>1, <2>2, <2>3 DEF OnWire
<1>2. CASE t \in {stub[c][i] : i \in DOMAIN stub[c] \ {1}}
    <2>1. PICK i \in DOMAIN stub[c] \ {1} : t = stub[c][i]
        BY <1>2
    <2>2. PICK u \in Numbered : stub[c] = <<"store", u>>
        BY <1>0, <2>1 DEF DataTypes, StubTypes
    <2>3. t = u
        BY <2>1, <2>2
    <2>. QED BY <1>0, <2>2, <2>3 DEF WireOrder, AtStub
<1>3. CASE t.conn = c /\ t \in cached \cup unmarshalled \cup pending[PidOf(c)]
    BY <1>0, <1>3, PidOfConn DEF DataTypes, MainTypes, Arrived, InPending
<1>4. CASE t.conn = c /\ t \in UNION {ToSet(k) : k \in ToSet(tasks)}
    <2>1. PICK j \in DOMAIN tasks : t \in ToSet(tasks[j])
        BY <1>4 DEF ToSet
    <2>2. tasks[j] \in {<<u>> : u \in Numbered} \cup {Barrier}
        <3>1. tasks \in Seq({<<u>> : u \in Numbered} \cup {Barrier})
            BY <1>0 DEF DataTypes, TaskTypes
        <3>. QED BY <3>1
    <2>3. PICK u \in Numbered : tasks[j] = <<u>>
        BY <2>1, <2>2 DEF ToSet, Barrier
    <2>4. t = u
        BY <2>1, <2>3 DEF ToSet
    <2>. QED BY <1>4, <2>3, <2>4 DEF Arrived, InTasks
<1>. QED BY <1>u, <1>1, <1>2, <1>3, <1>4 DEF Waiting

(* CommitTransaction to ProcessCommandForUniRender: no transaction is      *)
(* processed twice and, unless two threads of the client committed at a    *)
(* time, none after a later one of its connection, now or ever.            *)
THEOREM NeverOvertaken == Spec => []NoneOvertaken
<1>1. OrderInv /\ SendInv => NoneOvertaken
    <2>. SUFFICES ASSUME OrderInv, SendInv, NEW p \in Pids, NEW j \in DOMAIN processed[p]
                  PROVE  /\ \A i \in 1..j - 1 : Before(processed[p][i], processed[p][j])
                         /\ \A t \in Waiting(processed[p][j].conn) : Before(processed[p][j], t)
        BY DEF NoneOvertaken
    <2>1. processed[p] \in Seq(Numbered)
        BY DEF OrderInv, DataTypes, MainTypes
    <2>2. processed[p][j] \in Numbered /\ InProcessed(processed[p][j])
          /\ processed[p][j].conn \in Conns
        <3>1. processed[p][j] \in Numbered
            BY <2>1
        <3>. QED BY <3>1 DEF InProcessed, Numbered
    <2>3. \A i \in 1..j - 1 : i \in DOMAIN processed[p] /\ i < j
        BY <2>1
    <2>4. \A i \in 1..j - 1 : Before(processed[p][i], processed[p][j])
        BY <2>3 DEF OrderInv, ProcessedOrder
    <2>5. \A t \in Waiting(processed[p][j].conn) : Before(processed[p][j], t)
        BY <2>2, WaitingSomewhere DEF OrderInv, ArrivalOrder, ProcessedOrder, SendInv, SentOrder
    <2>. QED BY <2>4, <2>5
<1>. QED BY <1>1, InitOrder, InitSends, StepOrder, PTL DEF Spec
----------------------------------------------------------------------------
(* What the main thread waits for                                          *)

(* The main thread knows only processes that made a connection, and has    *)
(* only what a connection numbered.                                        *)
Traffic ==
    /\ \A t \in Numbered : Coming(t) => phase[t.conn] # "none"
    /\ \A c \in Conns, m \in Mutexes : ~At(c, m, "none") => phase[c] # "none"
KnownMade == \A p \in Known : \E d \in Conns : PidOf(d) = p /\ phase[d] # "none"

(* The last number processed of a process that had one connection was      *)
(* given on it, and what is coming is later, the commits of the process    *)
(* taking turns; the number that it waits for is not among what is coming. *)
LastSent ==
    \A p \in Known : Unreplaced(p) /\ Alternating(p) =>
      \A c \in Conns : PidOf(c) = p /\ phase[c] # "none" => last[p] <= made[c]
WaitOrder ==
    \A p \in Pids : Unreplaced(p) /\ Alternating(p) =>
      /\ elapsed[p] # Unset => p \in Known /\ pending[p] # {}
      /\ \A t \in Numbered : PidOf(t.conn) = p /\ Coming(t) =>
            /\ p \in Known => last[p] < t.index
            /\ elapsed[p] # Unset => last[p] + 1 < t.index

LossInv == Traffic /\ KnownMade /\ LastSent /\ WaitOrder

LEMMA InitLoss == Init => LossInv
<1>. SUFFICES ASSUME Init PROVE LossInv
    OBVIOUS
<1>1. Known = {} /\ \A p \in Pids : elapsed[p] = Unset
    BY DEF Init, DataInit, Known
<1>2. \A c \in Conns, m \in Mutexes : At(c, m, "none") /\ Filled(c, m) = <<>>
    BY DEF Init, DataInit, At, Filled, NoCommit
<1>3. \A t \in Numbered : ~Coming(t)
    <2>. TAKE t \in Numbered
    <2>1. t.conn \in Conns
        BY DEF Numbered
    <2>2. ~InUnsent(t)
        BY <1>2, <2>1 DEF InUnsent
    <2>. QED BY <2>1, <2>2
             DEF Init, DataInit, Coming, OnItsWay, OnWire, AtStub, Arrived, InTasks, InPending
<1>. QED BY <1>1, <1>2, <1>3 DEF LossInv, Traffic, KnownMade, LastSent, WaitOrder

(* What is coming was numbered by its proxy.                               *)
LEMMA ComingInRange ==
    ASSUME OrderInv, SendInv, NEW t \in Numbered, Coming(t)
    PROVE  InRange(t)
<1>1. t.conn \in Conns
    BY DEF Numbered
<1>2. CASE InUnsent(t)
    BY <1>1, <1>2 DEF InUnsent, SendInv, UnsentOrder
<1>3. CASE OnItsWay(t)
    BY <1>1, <1>3 DEF OnItsWay, OnWire, AtStub, OrderInv, WireOrder, ArrivalOrder
<1>. QED BY <1>2, <1>3 DEF Coming

(* Overlapping commits do not become undone.                               *)
LEMMA StaysAlternating ==
    ASSUME overlapped \subseteq overlapped', NEW p, Alternating(p)'
    PROVE  Alternating(p)
BY DEF Alternating

(* Steps that process and forget nothing; a connection may be made, and    *)
(* parcels numbered, which get the next numbers.                           *)
LEMMA ComingLoss ==
    ASSUME LossInv, OrderInv, SendInv,
           \A t \in Numbered : Coming(t)' =>
              \/ Coming(t)
              \/ /\ phase[t.conn] # "none"
                 /\ t.conn \notin overlapped' => made[t.conn] < t.index,
           \A c \in Conns : made[c] \in Nat /\ made'[c] \in Nat /\ made[c] <= made'[c],
           overlapped \subseteq overlapped',
           UNCHANGED last,
           \A p \in Pids : /\ elapsed'[p] # Unset => elapsed[p] # Unset
                           /\ pending[p] \subseteq pending'[p],
           \A d \in Conns : /\ phase[d] # "none" => phase'[d] # "none"
                            /\ \A m \in Mutexes : ~At(d, m, "none")' =>
                                  ~At(d, m, "none") \/ phase[d] # "none"
    PROVE  LossInv'
<1>0. Known' = Known /\ MainTypes
    BY DEF Known, OrderInv, DataTypes
<1>1. \A p : Unreplaced(p)' => Unreplaced(p)
    BY DEF Unreplaced
<1>2. \A p : Alternating(p)' => Alternating(p)
    BY StaysAlternating
<1>3. Traffic' /\ KnownMade'
    BY <1>0 DEF LossInv, Traffic, KnownMade, Numbered
<1>4. ASSUME NEW p \in Known, Unreplaced(p), NEW c \in Conns, PidOf(c) = p, phase'[c] # "none",
             Unreplaced(p)'
      PROVE  phase[c] # "none"
    <2>1. PICK d \in Conns : PidOf(d) = p /\ phase[d] # "none"
        BY DEF LossInv, KnownMade
    <2>2. d = c
        BY <1>4, <2>1 DEF Unreplaced
    <2>. QED BY <2>1, <2>2
<1>5. LastSent'
    <2>. SUFFICES ASSUME NEW p \in Known, Unreplaced(p)', Alternating(p)', NEW c \in Conns,
                         PidOf(c) = p, phase'[c] # "none"
                  PROVE  last[p] <= made'[c]
        BY <1>0 DEF LastSent
    <2>1. last[p] <= made[c]
        BY <1>1, <1>2, <1>4 DEF LossInv, LastSent
    <2>. QED BY <1>0, <2>1 DEF MainTypes
<1>6. WaitOrder'
    <2>. SUFFICES ASSUME NEW p \in Pids, Unreplaced(p)', Alternating(p)'
                  PROVE  /\ elapsed'[p] # Unset => p \in Known /\ pending'[p] # {}
                         /\ \A t \in Numbered : PidOf(t.conn) = p /\ Coming(t)' =>
                               /\ p \in Known => last[p] < t.index
                               /\ elapsed'[p] # Unset => last[p] + 1 < t.index
        BY <1>0 DEF WaitOrder
    <2>1. Unreplaced(p) /\ Alternating(p)
        BY <1>1, <1>2
    <2>2. elapsed[p] # Unset => pending[p] # {} /\ p \in Known
        BY <2>1 DEF LossInv, WaitOrder
    <2>3. ASSUME NEW t \in Numbered, PidOf(t.conn) = p, Coming(t)'
          PROVE  /\ p \in Known => last[p] < t.index
                 /\ elapsed[p] # Unset => last[p] + 1 < t.index
        <3>1. CASE Coming(t)
            BY <2>1, <2>3, <3>1 DEF LossInv, WaitOrder
        <3>2. CASE ~Coming(t)
            <4>. DEFINE c == t.conn
            <4>1. c \in Conns /\ PidOf(c) = p /\ phase[c] # "none" /\ t.index \in Nat
                BY <2>3, <3>2 DEF Numbered
            <4>2. c \notin overlapped' /\ c \notin overlapped
                BY <4>1, <2>1 DEF Alternating
            <4>3. made[c] < t.index /\ made[c] \in Nat
                BY <2>3, <3>2, <4>1, <4>2
            <4>4. p \in Known => last[p] <= made[c] /\ last[p] \in Nat
                BY <1>0, <2>1, <4>1 DEF LossInv, LastSent, MainTypes
            <4>5. ASSUME elapsed[p] # Unset PROVE last[p] + 1 < t.index
                <5>1. p \in Known
                    BY <2>2, <4>5
                <5>2. PICK u \in pending[p] : TRUE
                    BY <2>2, <4>5
                <5>3. u \in Numbered /\ PidOf(u.conn) = p /\ Coming(u) /\ u.conn \in Conns /\ u.index \in Nat
                    BY <1>0 DEF MainTypes, Coming, OnItsWay, Arrived, InPending, Numbered
                <5>4. u.conn = c
                    BY <2>1, <4>1, <5>3 DEF LossInv, Traffic, Unreplaced
                <5>5. last[p] + 1 < u.index
                    BY <2>1, <4>5, <5>3 DEF LossInv, WaitOrder
                <5>6. u.index <= made[c]
                    BY <4>2, <5>3, <5>4, ComingInRange DEF InRange
                <5>. QED BY <4>1, <4>3, <4>4, <5>1, <5>3, <5>5, <5>6
            <4>. QED BY <4>1, <4>3, <4>4, <4>5
        <3>. QED BY <3>1, <3>2
    <2>. QED BY <2>2, <2>3
<1>. QED BY <1>3, <1>5, <1>6 DEF LossInv

(* Steps of the service.                                                   *)
LEMMA NoneAddedLoss ==
    ASSUME LossInv, OrderInv, SendInv, NoneAdded,
           UNCHANGED <<last, commitVars>>,
           \A p \in Pids : /\ elapsed'[p] # Unset => elapsed[p] # Unset
                           /\ pending[p] \subseteq pending'[p],
           \A d \in Conns : phase[d] # "none" => phase'[d] # "none"
    PROVE  LossInv'
<1>1. \A t \in Numbered : Coming(t)' => Coming(t)
    BY DEF Coming, NoneAdded, InUnsent, Filled, commitVars
<1>2. \A c \in Conns : made[c] \in Nat /\ made'[c] \in Nat /\ made[c] <= made'[c]
    BY DEF OrderInv, DataTypes, commitVars
<1>3. \A d \in Conns, m \in Mutexes : ~At(d, m, "none")' => ~At(d, m, "none")
    BY DEF At, commitVars
<1>. QED BY <1>1, <1>2, <1>3, ComingLoss DEF commitVars

(* What a commit numbers comes after all that its proxy numbered.          *)
LEMMA CommitLoss ==
    ASSUME LossInv, OrderInv, SendInv, ServeInv, NEW c \in Conns, NEW m \in Mutexes, Commit(c, m)
    PROVE  LossInv'
<1>1. UNCHANGED <<alive, phase, mainVars>>
    BY DEF Commit, CommitTransaction, CommitStep, StoreIndex, LoadIndex, FillParcel, SendParcel,
           CommitFails, connVars
<1>2. /\ \A t \in Numbered : Coming(t)' =>
            Coming(t) \/ (t.conn = c /\ (c \notin overlapped => t.index = made[c] + 1))
      /\ \A d \in Conns : made[d] <= made'[d]
      /\ overlapped \subseteq overlapped'
      /\ OrderInv'
    <2>1. CASE FillParcel(c, m)
        BY <1>1, <2>1, FillSends DEF Coming, NoneAdded
    <2>2. CASE SendParcel(c, m)
        <3>1. \A d \in Conns : made[d] \in Nat
            BY DEF OrderInv, DataTypes
        <3>. QED BY <1>1, <2>2, <3>1, SendSends
    <2>3. CASE ~FillParcel(c, m) /\ ~SendParcel(c, m)
        BY <1>1, <2>3, CommitSends DEF Commit, CommitStep, Coming, NoneAdded
    <2>. QED BY <2>1, <2>2, <2>3
<1>3. phase[c] # "none"
    <2>1. CASE hub[PidOf(c)] = c
        BY <2>1, PidOfConn DEF ServeInv, Made
    <2>2. CASE CommitStep(c, m)
        <3>1. ~At(c, m, "none")
            BY <2>2 DEF CommitStep, StoreIndex, LoadIndex, FillParcel, SendParcel, CommitFails, At
        <3>. QED BY <3>1 DEF LossInv, Traffic
    <2>. QED BY <2>1, <2>2 DEF Commit
<1>4. \A d \in Conns : made[d] \in Nat /\ made'[d] \in Nat
    BY <1>2 DEF OrderInv, DataTypes
<1>5. \A d \in Conns, o \in Mutexes : ~At(d, o, "none")' => ~At(d, o, "none") \/ phase[d] # "none"
    <2>. SUFFICES ASSUME NEW d \in Conns, NEW o \in Mutexes, d # c
                  PROVE  commit'[d][o] = commit[d][o]
        BY <1>3 DEF At
    <2>1. \E r : SetCommit(c, m, r)
        BY DEF Commit, CommitTransaction, CommitStep, StoreIndex, LoadIndex, FillParcel,
               SendParcel, CommitFails
    <2>. QED BY <2>1, SetCommitted DEF SendInv
<1>6. \A t \in Numbered : Coming(t)' =>
        \/ Coming(t)
        \/ phase[t.conn] # "none" /\ (t.conn \notin overlapped' => made[t.conn] < t.index)
    BY <1>2, <1>3, <1>4
<1>. QED BY <1>1, <1>2, <1>4, <1>5, <1>6, ComingLoss DEF mainVars

(* A process that becomes known, or known anew, starts at number 0.        *)
LEMMA AddPidLoss ==
    ASSUME LossInv, OrderInv, SendInv, ServeInv, NEW c \in Conns, AddPid(c)
    PROVE  LossInv'
<1>. DEFINE q == PidOf(c)
<1>1. /\ Known' = Known \cup {q} /\ UNCHANGED <<pending, elapsed, commitVars, phase>>
      /\ last'[q] = 0 /\ \A p \in Known : p # q => last'[p] = last[p]
    BY DEF AddPid, AddTransactionDataPidInfo, Known, clientVars
<1>2. \A t \in Numbered : Coming(t)' => Coming(t)
    <2>1. NoneAdded
        BY PidInfoOrder, PidOfConn DEF AddPid
    <2>. QED BY <1>1, <2>1 DEF Coming, NoneAdded, InUnsent, Filled, commitVars
<1>3. phase[c] # "none"
    BY DEF AddPid, GoCall, ServeInv, Made
<1>4. \A p : (Unreplaced(p)' <=> Unreplaced(p)) /\ (Alternating(p)' <=> Alternating(p))
    BY <1>1 DEF Unreplaced, Alternating, commitVars
<1>5. Traffic' /\ KnownMade'
    BY <1>1, <1>2, <1>3 DEF LossInv, Traffic, KnownMade, At, commitVars
<1>6. LastSent'
    <2>1. \A d \in Conns : made[d] \in Nat /\ made'[d] = made[d]
        BY <1>1 DEF OrderInv, DataTypes, commitVars
    <2>. QED BY <1>1, <1>4, <2>1 DEF LossInv, LastSent
<1>7. WaitOrder'
    <2>. SUFFICES ASSUME NEW p \in Pids, Unreplaced(p), Alternating(p)
                  PROVE  /\ elapsed[p] # Unset => p \in Known' /\ pending[p] # {}
                         /\ \A t \in Numbered : PidOf(t.conn) = p /\ Coming(t)' =>
                               /\ p \in Known' => last'[p] < t.index
                               /\ elapsed[p] # Unset => last'[p] + 1 < t.index
        BY <1>1, <1>4 DEF WaitOrder
    <2>1. elapsed[p] # Unset => p \in Known /\ pending[p] # {}
        BY DEF LossInv, WaitOrder
    <2>2. ASSUME NEW t \in Numbered, PidOf(t.conn) = p, Coming(t)'
          PROVE  /\ 0 < t.index /\ t.index \in Nat
                 /\ p \in Known => last[p] < t.index
                 /\ elapsed[p] # Unset => last[p] + 1 < t.index
        <3>1. t.conn \in Conns \ overlapped /\ t.index \in Nat /\ Coming(t)
            BY <1>2, <2>2 DEF Numbered, Alternating
        <3>2. InRange(t)
            BY <3>1, ComingInRange
        <3>. QED BY <2>2, <3>1, <3>2 DEF InRange, LossInv, WaitOrder
    <2>3. CASE p # q
        BY <1>1, <2>1, <2>2, <2>3
    <2>4. CASE p = q
        <3>1. p \in Known => last[p] \in Nat
            BY DEF OrderInv, DataTypes, MainTypes
        <3>2. \A t \in Numbered : PidOf(t.conn) = p /\ Coming(t)' => (elapsed[p] # Unset => 1 < t.index)
            BY <2>1, <2>2, <3>1
        <3>. QED BY <1>1, <2>1, <2>2, <2>4, <3>2
    <2>. QED BY <2>3, <2>4
<1>. QED BY <1>5, <1>6, <1>7 DEF LossInv

(* A process that is forgotten waits for nothing.                          *)
LEMMA CleanTaskLoss ==
    ASSUME LossInv, OrderInv, ServeInv, NEW c \in Conns, CleanTask(c)
    PROVE  LossInv'
<1>. DEFINE q == PidOf(c)
<1>0. q \in Pids /\ elapsed \in [Pids -> Nat \cup {Unset}] /\ pending \in [Pids -> SUBSET Numbered]
    BY PidOfConn DEF OrderInv, DataTypes, MainTypes
<1>1. /\ Known' = Known \ {q} /\ \A p \in Known' : last'[p] = last[p]
      /\ elapsed'[q] = Unset
      /\ \A p \in Pids : p # q => elapsed'[p] = elapsed[p] /\ pending'[p] = pending[p]
      /\ UNCHANGED commitVars
    BY <1>0 DEF CleanTask, ClearTransactionDataPidInfo, Known, clientVars
<1>2. \A t \in Numbered : Coming(t)' => Coming(t)
    <2>1. NoneAdded
        BY PidInfoOrder, PidOfConn DEF CleanTask
    <2>. QED BY <1>1, <2>1 DEF Coming, NoneAdded, InUnsent, Filled, commitVars
<1>3. \A d \in Conns : phase'[d] # "none" <=> phase[d] # "none"
    BY DEF CleanTask, ServeInv, ConnTypes
<1>4. Traffic' /\ KnownMade'
    BY <1>1, <1>2, <1>3 DEF LossInv, Traffic, KnownMade, Numbered, At, commitVars
<1>5. \A p : (Unreplaced(p)' <=> Unreplaced(p)) /\ (Alternating(p)' <=> Alternating(p))
    BY <1>1, <1>3 DEF Unreplaced, Alternating, commitVars
<1>6. LastSent'
    BY <1>1, <1>3, <1>5 DEF LossInv, LastSent, commitVars
<1>7. WaitOrder'
    BY <1>1, <1>2, <1>5 DEF LossInv, WaitOrder
<1>. QED BY <1>4, <1>6, <1>7 DEF LossInv

(* When the loop leaves a client waiting, transactions remain, and the     *)
(* number that it waits for is not among them.                             *)
LEMMA WalksLeave ==
    ASSUME MainTypes, NEW p \in Known, NEW w \in Walks(p),
           \A t, u \in pending[p] : t.conn = u.conn,
           \A t \in pending[p] : InRange(t) /\ t.conn \notin overlapped,
           \A t \in pending[p] : last[p] < t.index,
           elapsed[p] # Unset => pending[p] # {} /\ \A t \in pending[p] : last[p] + 1 < t.index
    PROVE  /\ \/ w.last = last[p]
              \/ \E i \in DOMAIN w.taken : w.last = w.taken[i].index
           /\ \A t \in pending[p] \ ToSet(w.taken) : w.last < t.index
           /\ w.elapsed # Unset => /\ pending[p] \ ToSet(w.taken) # {}
                                   /\ \A t \in pending[p] \ ToSet(w.taken) : w.last + 1 < t.index
<1>0. /\ p \in Pids /\ last[p] \in Nat /\ elapsed[p] \in Nat \cup {Unset}
      /\ pending[p] \in SUBSET Numbered /\ IsFiniteSet(pending[p])
    BY DEF MainTypes
<1>1. PICK s \in SortedByIndex(pending[p]) : w = Walked(p, s)
    BY DEF Walks
<1>2. /\ s \in Seq(Numbered) /\ DOMAIN s = 1..Len(s)
      /\ \A i, j \in DOMAIN s : i < j => s[i].index <= s[j].index /\ s[i] # s[j]
      /\ \A i \in DOMAIN s : s[i] \in pending[p]
      /\ \A t \in pending[p] : \E i \in DOMAIN s : s[i] = t
    BY <1>0, SortedAll
<1>3. WalkResult(p, s, w, Len(s))
    BY <1>0, <1>1, <1>2, WalkedIsPrefix
<1>. DEFINE k == Len(w.taken)
<1>4. /\ w.last \in Nat /\ w.elapsed \in Nat \cup {Unset} /\ w.taken \in Seq(Numbered)
      /\ w.stopped \in BOOLEAN
      /\ k <= Len(s) /\ \A j \in 1..k : w.taken[j] = s[j]
      /\ w.last = IF k = 0 THEN last[p] ELSE s[k].index
      /\ w.stopped => k < Len(s) /\ w.elapsed # Unset /\ s[k + 1].index # w.last + 1
      /\ ~w.stopped => /\ k = Len(s) /\ w.elapsed \in {elapsed[p], Unset}
                       /\ Len(s) > 0 /\ s[1].index # last[p] + 1 => w.elapsed = Unset
    BY <1>3 DEF WalkResult
<1>5. k \in Nat /\ DOMAIN w.taken = 1..k /\ Len(s) \in Nat
    BY <1>2, <1>4
<1>. HIDE DEF k
<1>a. k <= Len(s) /\ DOMAIN s = 1..Len(s)
    BY <1>2, <1>4
<1>b. \A i \in 1..k : i \in DOMAIN s /\ i < k + 1
    BY <1>5, <1>a
<1>6. \A i \in DOMAIN s : s[i] \in Numbered /\ s[i].index \in Nat /\ last[p] < s[i].index
    <2>. TAKE i \in DOMAIN s
    <2>1. s[i] \in pending[p]
        BY <1>2
    <2>. QED BY <1>0, <2>1 DEF Numbered
<1>7. \A i, j \in DOMAIN s : i < j => s[i].index < s[j].index
    <2>. SUFFICES ASSUME NEW i \in DOMAIN s, NEW j \in DOMAIN s, i < j
                  PROVE  s[i].index < s[j].index
        OBVIOUS
    <2>1. s[i] \in Numbered /\ s[j] \in Numbered /\ s[i].conn = s[j].conn
        BY <1>0, <1>2
    <2>2. s[i].index # s[j].index
        BY <1>2, <2>1, SameNumber
    <2>. QED BY <1>2, <2>1, <2>2 DEF Numbered
<1>8. \A i \in DOMAIN s : i > k => w.last < s[i].index
    <2>. TAKE i \in DOMAIN s
    <2>1. CASE k = 0
        BY <1>4, <1>6, <2>1
    <2>2. CASE k # 0
        <3>1. k \in DOMAIN s
            BY <1>5, <1>b, <2>2
        <3>2. w.last = s[k].index
            BY <1>4, <2>2
        <3>. QED BY <1>7, <3>1, <3>2
    <2>. QED BY <2>1, <2>2
<1>9. \A t \in pending[p] \ ToSet(w.taken) : \E i \in DOMAIN s : i > k /\ s[i] = t
    <2>. TAKE t \in pending[p] \ ToSet(w.taken)
    <2>1. PICK i \in DOMAIN s : s[i] = t
        BY <1>2
    <2>2. i \notin 1..k
        BY <1>4, <1>5, <2>1 DEF ToSet
    <2>. QED BY <1>2, <1>5, <2>1, <2>2
<1>10. \A t \in pending[p] \ ToSet(w.taken) : w.last < t.index
    BY <1>8, <1>9
<1>11. w.last = last[p] \/ \E i \in DOMAIN w.taken : w.last = w.taken[i].index
    <2>1. CASE k = 0
        BY <1>4, <2>1
    <2>2. CASE k # 0
        <3>1. k \in 1..k
            BY <1>5, <2>2
        <3>2. k \in DOMAIN w.taken /\ w.taken[k] = s[k] /\ w.last = s[k].index
            BY <1>4, <1>5, <2>2, <3>1
        <3>. QED BY <3>2
    <2>. QED BY <2>1, <2>2
<1>12. ASSUME w.elapsed # Unset
       PROVE  /\ pending[p] \ ToSet(w.taken) # {}
              /\ \A t \in pending[p] \ ToSet(w.taken) : w.last + 1 < t.index
    <2>1. CASE w.stopped
        <3>1. k + 1 \in DOMAIN s /\ s[k + 1].index # w.last + 1 /\ w.last < s[k + 1].index
            BY <1>2, <1>4, <1>5, <1>8, <2>1
        <3>2. s[k + 1] \in pending[p] \ ToSet(w.taken)
            <4>1. \A i \in 1..k : w.taken[i] # s[k + 1]
                <5>. TAKE i \in 1..k
                <5>1. i \in DOMAIN s /\ i < k + 1
                    BY <1>b
                <5>2. s[i] # s[k + 1]
                    BY <1>2, <3>1, <5>1
                <5>. QED BY <1>4, <5>2
            <4>. QED BY <1>2, <1>5, <3>1, <4>1 DEF ToSet
        <3>3. \A i \in DOMAIN s : i > k => w.last + 1 < s[i].index
            <4>. TAKE i \in DOMAIN s
            <4>0. w.last + 1 < s[k + 1].index
                <5>1. s[k + 1].index \in Nat /\ w.last \in Nat
                    BY <1>4, <1>6, <3>1
                <5>. HIDE <1>4
                <5>. QED BY <3>1, <5>1
            <4>1. CASE i = k + 1
                BY <4>0, <4>1
            <4>2. CASE i > k + 1
                <5>1. s[k + 1].index < s[i].index
                    BY <1>5, <1>7, <3>1, <4>2
                <5>. QED BY <1>4, <1>6, <3>1, <4>0, <5>1
            <4>. QED BY <1>2, <1>5, <4>1, <4>2
        <3>. QED BY <1>9, <3>2, <3>3
    <2>2. CASE ~w.stopped
        <3>1. elapsed[p] # Unset
            BY <1>4, <1>12, <2>2
        <3>2. PICK t \in pending[p] : TRUE
            BY <3>1
        <3>3. Len(s) > 0 /\ 1 \in DOMAIN s /\ s[1] \in pending[p]
            BY <1>2, <1>5, <3>2
        <3>4. s[1].index # last[p] + 1
            BY <1>0, <1>6, <3>1, <3>3
        <3>. QED BY <1>4, <1>12, <2>2, <3>3, <3>4
    <2>. QED BY <1>4, <2>1, <2>2
<1>. QED BY <1>10, <1>11, <1>12

(* The main thread goes on to a number that nothing on its way comes       *)
(* before, and waits only when nothing on its way has the next number.     *)
LEMMA ProcessLoss ==
    ASSUME LossInv, OrderInv, SendInv, ProcessCommand, UNCHANGED <<alive, phase>>
    PROVE  LossInv'
<1>1. PICK walks \in [Known -> UNION {Walks(p) : p \in Known}] :
        /\ \A p \in Known : walks[p] \in Walks(p)
        /\ last' = [p \in Known |-> walks[p].last]
        /\ elapsed' = [p \in Pids |-> IF p \in Known THEN walks[p].elapsed ELSE elapsed[p]]
        /\ pending' = [p \in Pids |->
                         IF p \in Known THEN pending[p] \ ToSet(walks[p].taken) ELSE {}]
        /\ processed' = [p \in Pids |->
                           processed[p] \o IF p \in Known THEN walks[p].taken ELSE <<>>]
    BY DEF ProcessCommand
<1>2. OrderInv' /\ NoneAdded
    BY ProcessOrder
<1>3. MainTypes /\ MainTypes' /\ Known \subseteq Pids /\ Known' = Known
    BY <1>1, <1>2 DEF OrderInv, DataTypes, MainTypes, Known
<1>4. /\ UNCHANGED commitVars /\ NoBarrier' /\ SendInv'
      /\ \A t \in Numbered : Coming(t)' => Coming(t)
    <2>1. UNCHANGED commitVars /\ NoBarrier'
        BY <1>2 DEF ProcessCommand, clientVars, OrderInv, BarrierOnce
    <2>. QED BY <1>2, <2>1, ServiceSends DEF Coming, NoneAdded
<1>o. /\ \A t, u : Before(t, u)' <=> Before(t, u)
      /\ \A q : (Alternating(q)' <=> Alternating(q)) /\ (Unreplaced(q)' <=> Unreplaced(q))
    BY <1>4, SameOrder DEF commitVars, Alternating, Unreplaced
<1>5. Traffic' /\ KnownMade'
    BY <1>3, <1>4 DEF LossInv, Traffic, KnownMade, At, commitVars
<1>6. ASSUME NEW p \in Known, Unreplaced(p), Alternating(p)
      PROVE  LET w == walks[p]
             IN  /\ w.last = last[p] \/ \E i \in DOMAIN w.taken : w.last = w.taken[i].index
                 /\ \A t \in pending'[p] : w.last < t.index
                 /\ w.elapsed # Unset => pending'[p] # {} /\ \A t \in pending'[p] : w.last + 1 < t.index
                 /\ w.taken \in Seq(Numbered)
                 /\ \A i \in DOMAIN w.taken : w.taken[i] \in pending[p] /\ InProcessed(w.taken[i])'
    <2>0. p \in Pids /\ walks[p] \in Walks(p) /\ pending'[p] = pending[p] \ ToSet(walks[p].taken)
        BY <1>1, <1>3
    <2>1. \A t \in pending[p] : /\ t \in Numbered /\ PidOf(t.conn) = p /\ t.conn \in Conns
                                /\ phase[t.conn] # "none" /\ Coming(t)
                                /\ InRange(t) /\ t.conn \notin overlapped
        <3>. TAKE t \in pending[p]
        <3>1. t \in Numbered /\ PidOf(t.conn) = p /\ Coming(t)
            BY <1>3, <2>0 DEF MainTypes, Coming, OnItsWay, Arrived, InPending
        <3>2. InRange(t)
            BY <3>1, ComingInRange
        <3>. QED BY <1>6, <3>1, <3>2 DEF LossInv, Traffic, Numbered, Alternating
    <2>2. \A t, u \in pending[p] : t.conn = u.conn
        BY <1>6, <2>1 DEF Unreplaced
    <2>3. /\ \A t \in pending[p] : last[p] < t.index
          /\ elapsed[p] # Unset => pending[p] # {} /\ \A t \in pending[p] : last[p] + 1 < t.index
        BY <1>6, <2>0, <2>1 DEF LossInv, WaitOrder
    <2>4. /\ walks[p].taken \in Seq(Numbered)
          /\ \A i \in DOMAIN walks[p].taken : walks[p].taken[i] \in pending[p]
        BY <1>3, <2>0, <2>1, WalksTaken
    <2>5. \A i \in DOMAIN walks[p].taken : InProcessed(walks[p].taken[i])'
        <3>. DEFINE w == walks[p].taken
        <3>. HIDE DEF w
        <3>. SUFFICES ASSUME NEW i \in DOMAIN w PROVE InProcessed(w[i])'
            BY DEF w
        <3>1. w \in Seq(Numbered) /\ processed[p] \in Seq(Numbered) /\ processed'[p] = processed[p] \o w
            BY <1>1, <1>3, <2>0, <2>4 DEF w, MainTypes
        <3>2. /\ Len(processed[p]) + i \in DOMAIN processed'[p]
              /\ processed'[p][Len(processed[p]) + i] = w[i]
            BY <3>1
        <3>. QED BY <2>0, <3>2 DEF InProcessed
    <2>6. LET w == walks[p]
          IN  /\ w.last = last[p] \/ \E i \in DOMAIN w.taken : w.last = w.taken[i].index
              /\ \A t \in pending[p] \ ToSet(w.taken) : w.last < t.index
              /\ w.elapsed # Unset => /\ pending[p] \ ToSet(w.taken) # {}
                                      /\ \A t \in pending[p] \ ToSet(w.taken) : w.last + 1 < t.index
        BY <1>3, <2>0, <2>1, <2>2, <2>3, WalksLeave
    <2>. QED BY <2>0, <2>4, <2>5, <2>6
<1>7. LastSent'
    <2>. SUFFICES ASSUME NEW p \in Known, Unreplaced(p), Alternating(p), NEW c \in Conns,
                         PidOf(c) = p, phase[c] # "none"
                  PROVE  walks[p].last <= made[c]
        BY <1>1, <1>3, <1>4, <1>o DEF LastSent, commitVars
    <2>1. CASE walks[p].last = last[p]
        BY <2>1 DEF LossInv, LastSent
    <2>2. CASE \E i \in DOMAIN walks[p].taken : walks[p].last = walks[p].taken[i].index
        <3>1. PICK u \in pending[p] : walks[p].last = u.index
            BY <1>6, <2>2
        <3>2. u \in Numbered /\ PidOf(u.conn) = p /\ Coming(u) /\ u.conn \in Conns
            BY <1>3 DEF MainTypes, Coming, OnItsWay, Arrived, InPending, Numbered
        <3>3. u.conn = c /\ c \notin overlapped
            BY <3>2 DEF LossInv, Traffic, Unreplaced, Alternating
        <3>4. InRange(u)
            BY <3>2, ComingInRange
        <3>. QED BY <3>1, <3>3, <3>4 DEF InRange
    <2>. QED BY <1>6, <2>1, <2>2
<1>8. WaitOrder'
    <2>. SUFFICES ASSUME NEW p \in Pids, Unreplaced(p), Alternating(p)
                  PROVE  /\ elapsed'[p] # Unset => p \in Known /\ pending'[p] # {}
                         /\ \A t \in Numbered : PidOf(t.conn) = p /\ Coming(t)' =>
                               /\ p \in Known => last'[p] < t.index
                               /\ elapsed'[p] # Unset => last'[p] + 1 < t.index
        BY <1>3, <1>o DEF WaitOrder
    <2>1. CASE p \notin Known
        BY <1>1, <1>4, <2>1 DEF LossInv, WaitOrder
    <2>2. CASE p \in Known
        <3>. DEFINE w == walks[p]
        <3>1. /\ last'[p] = w.last /\ elapsed'[p] = w.elapsed
              /\ w.last = last[p] \/ \E i \in DOMAIN w.taken : w.last = w.taken[i].index
              /\ \A t \in pending'[p] : w.last < t.index
              /\ w.elapsed # Unset => pending'[p] # {} /\ \A t \in pending'[p] : w.last + 1 < t.index
              /\ w.taken \in Seq(Numbered)
              /\ \A i \in DOMAIN w.taken : w.taken[i] \in pending[p] /\ InProcessed(w.taken[i])'
            BY <1>1, <1>6, <2>2
        <3>. HIDE DEF w
        <3>2. ASSUME NEW t \in Numbered, PidOf(t.conn) = p, Coming(t)'
              PROVE  w.last < t.index /\ (w.elapsed # Unset => w.last + 1 < t.index)
            <4>0. /\ Coming(t) /\ t.index \in Nat /\ t.conn \in Conns \ overlapped
                  /\ phase[t.conn] # "none"
                BY <1>4, <3>2 DEF LossInv, Traffic, Numbered, Alternating
            <4>2. \A u \in pending[p] : /\ u \in Numbered /\ PidOf(u.conn) = p /\ u.conn \in Conns
                                        /\ Coming(u) /\ u.conn = t.conn
                <5>. TAKE u \in pending[p]
                <5>1. u \in Numbered /\ PidOf(u.conn) = p /\ u.conn \in Conns /\ Coming(u)
                    BY <1>3 DEF MainTypes, Coming, OnItsWay, Arrived, InPending, Numbered
                <5>2. phase[u.conn] # "none"
                    BY <5>1 DEF LossInv, Traffic
                <5>. QED BY <3>2, <4>0, <5>1, <5>2 DEF Unreplaced
            <4>3. w.last < t.index
                <5>1. CASE w.last = last[p]
                    BY <2>2, <3>2, <4>0, <5>1 DEF LossInv, WaitOrder
                <5>2. CASE \E i \in DOMAIN w.taken : w.last = w.taken[i].index
                    <6>1. PICK i \in DOMAIN w.taken : w.last = w.taken[i].index
                        BY <5>2
                    <6>2. w.taken[i] \in Numbered /\ w.taken[i].conn = t.conn /\ InProcessed(w.taken[i])'
                        BY <3>1, <4>2
                    <6>3. Before(w.taken[i], t)
                        <7>1. CASE InUnsent(t)'
                            BY <1>4, <1>o, <6>2, <7>1 DEF SendInv, SentOrder
                        <7>2. CASE OnItsWay(t)'
                            BY <1>2, <1>o, <6>2, <7>2 DEF OnItsWay, OrderInv, ArrivalOrder, ProcessedOrder
                        <7>. QED BY <3>2, <7>1, <7>2 DEF Coming
                    <6>. QED BY <4>0, <6>1, <6>2, <6>3 DEF Before
                <5>. QED BY <3>1, <5>1, <5>2
            <4>4. ASSUME w.elapsed # Unset PROVE w.last + 1 < t.index
                <5>1. PICK r \in pending'[p] : w.last + 1 < r.index
                    BY <3>1, <4>4
                <5>2. r \in Numbered /\ r.conn = t.conn /\ Old(r)' /\ Arrived(r)' /\ r.index \in Nat
                    <6>1. r \in pending[p]
                        BY <1>1, <2>2
                    <6>. QED BY <4>2, <6>1 DEF Old, Arrived, InPending, Numbered
                <5>3. CASE InPending(t)'
                    <6>1. t \in pending'[p]
                        BY <1>3, <3>2, <5>3 DEF InPending, MainTypes
                    <6>. QED BY <3>1, <4>4, <6>1
                <5>4. CASE ~InPending(t)'
                    <6>1. InUnsent(t)' \/ AtStub(t)' \/ OnWire(t)' \/ New(t)'
                        BY <1>4, <3>2, <5>4 DEF Coming, OnItsWay, Arrived, New, InTasks, NoBarrier
                    <6>2. Before(r, t)
                        <7>1. CASE InUnsent(t)'
                            BY <1>4, <1>o, <5>2, <7>1 DEF SendInv, SentOrder, OnItsWay
                        <7>2. CASE AtStub(t)' \/ OnWire(t)' \/ New(t)'
                            BY <1>2, <1>o, <5>2, <7>2 DEF OrderInv, ArrivalOrder, FrameOrder
                        <7>. QED BY <6>1, <7>1, <7>2
                    <6>3. w.last \in Nat
                        BY <1>3, <2>2, <3>1 DEF MainTypes
                    <6>. QED BY <4>0, <5>1, <5>2, <6>2, <6>3 DEF Before
                <5>. QED BY <5>3, <5>4
            <4>. QED BY <4>3, <4>4
        <3>. QED BY <2>2, <3>1, <3>2
    <2>. QED BY <2>1, <2>2
<1>. QED BY <1>5, <1>7, <1>8 DEF LossInv

LEMMA StepLoss == LossInv /\ OrderInv /\ SendInv /\ ServeInv /\ [Next]_vars => LossInv'
<1>. SUFFICES ASSUME LossInv, OrderInv, SendInv, ServeInv, [Next]_vars PROVE LossInv'
    OBVIOUS
<1>. USE DEF dataVars, threadVars
<1>0. /\ DOMAIN phase = Conns
      /\ MainTypes
    BY DEF ServeInv, ConnTypes, OrderInv, DataTypes
(* Steps of clients, CreateConnection and CleanAll that leave the data.    *)
<1>1. ASSUME UNCHANGED dataVars, \A d \in Conns : phase[d] # "none" => phase'[d] # "none"
      PROVE  LossInv'
    BY <1>1, QuietOrder, NoneAddedLoss DEF clientVars, commitVars, mainVars
(* Steps that leave connections and take only transactions forward.        *)
<1>2. ASSUME NoneAdded, UNCHANGED <<last, commitVars, phase>>,
             \A p \in Pids : /\ elapsed'[p] # Unset => elapsed[p] # Unset
                             /\ pending[p] \subseteq pending'[p]
      PROVE  LossInv'
    BY <1>2, NoneAddedLoss
<1>3. ASSUME NEW p \in Pids, Die(p) PROVE LossInv'
    <2>1. \A t \in Numbered : Coming(t)' => Coming(t)
        BY <1>3, DieSends DEF Coming, NoneAdded
    <2>2. UNCHANGED <<made, overlapped, last, elapsed, pending, phase>>
        BY <1>3 DEF Die, mainVars
    <2>3. \A c \in Conns : made[c] \in Nat
        BY DEF OrderInv, DataTypes
    <2>4. \A d \in Conns, m \in Mutexes : ~At(d, m, "none")' => ~At(d, m, "none")
        BY <1>3 DEF Die, At, NoCommit
    <2>. QED BY <2>1, <2>2, <2>3, <2>4, ComingLoss
<1>4. ASSUME NEW c \in Conns,
             \/ GetRenderServiceConnection(c) \/ SetConn(c) \/ Construct(c) \/ Store(c)
             \/ Release(c) \/ Reply(c) \/ OnRemoteDied(c) \/ Destroy(c) \/ CleanRest(c)
      PROVE  LossInv'
    <2>1. /\ UNCHANGED dataVars
          /\ phase' = phase \/ \E to \in {"live", "posted", "done"} : phase' = [phase EXCEPT ![c] = to]
        BY <1>4 DEF GetRenderServiceConnection, SetConn, Construct, Store, Release, Reply,
                    OnRemoteDied, Destroy, CleanRest
    <2>2. \A d \in Conns : phase[d] # "none" => phase'[d] # "none"
        BY <1>0, <2>1
    <2>. QED BY <1>1, <2>1, <2>2
<1>5. ASSUME NEW c \in Conns, (\E m \in Mutexes : Commit(c, m)) \/ AddPid(c) \/ CleanTask(c)
      PROVE  LossInv'
    BY <1>5, CommitLoss, AddPidLoss, CleanTaskLoss
<1>6. ASSUME NEW c \in Conns, StubStep(c) /\ UNCHANGED connVars PROVE LossInv'
    <2>1. NoneAdded
        BY <1>6, StubReceivesOrder, StubStoresOrder, StubRequestsOrder, StubDropsOrder DEF StubStep
    <2>2. UNCHANGED <<last, elapsed, pending, commitVars, phase>>
        BY <1>6 DEF StubStep, StubReceives, StubStores, StubRequestsVSync, StubDrops,
                    clientVars, mainVars, connVars
    <2>. QED BY <1>2, <2>1, <2>2
<1>7. CASE (UnmarshalParcel \/ UnmarshalFails \/ RequestNextVSync) /\ UNCHANGED connVars
    <2>1. NoneAdded
        BY <1>7, UnmarshalOrder, QuietOrder DEF RequestNextVSync, clientVars, commitVars
    <2>2. UNCHANGED <<last, elapsed, pending, commitVars, phase>>
        BY <1>7 DEF UnmarshalParcel, UnmarshalFails, RequestNextVSync, clientVars, mainVars, connVars
    <2>. QED BY <1>2, <2>1, <2>2
<1>8. CASE UnmarshalBarrier /\ UNCHANGED connVars
    <2>1. NoneAdded
        BY <1>8, BarrierOrder
    <2>2. UNCHANGED <<last, elapsed, commitVars, phase>>
        BY <1>8 DEF UnmarshalBarrier, clientVars, connVars
    <2>3. \A p \in Pids : pending[p] \subseteq pending'[p]
        BY <1>0, <1>8, Merged DEF UnmarshalBarrier, OrderInv, DataTypes
    <2>. QED BY <1>2, <2>1, <2>2, <2>3
<1>9. CASE (OnVsync \/ ForceRefreshForUni) /\ UNCHANGED connVars
    <2>1. StartFrame /\ UNCHANGED <<last, commitVars, phase>>
        BY <1>9 DEF OnVsync, ForceRefreshForUni, StartFrame, clientVars, connVars
    <2>2. /\ elapsed' \in [Pids -> Nat \cup {Unset}]
          /\ \A p \in Pids : elapsed'[p] # Unset => elapsed[p] # Unset
        <3>1. elapsed \in [Pids -> Nat \cup {Unset}]
            BY <1>0 DEF MainTypes
        <3>2. CASE elapsed' = elapsed
            BY <3>1, <3>2
        <3>3. CASE OnVsync
            <4>1. PICK frames \in {1, SkipLimit + 1} : elapsed' = [p \in Pids |-> Later(p, frames)]
                BY <3>3 DEF OnVsync
            <4>2. \A p \in Pids : /\ Later(p, frames) \in Nat \cup {Unset}
                                  /\ elapsed[p] = Unset => Later(p, frames) = Unset
                BY <3>1, SkipLimitType DEF Later
            <4>. QED BY <4>1, <4>2
        <3>. QED BY <1>9, <3>2, <3>3 DEF ForceRefreshForUni
    <2>3. NoneAdded
        BY <2>1, <2>2, StartFrameOrder
    <2>4. \A p \in Pids : pending[p] \subseteq pending'[p]
        BY <1>0, <2>1, Merged DEF StartFrame, OrderInv, DataTypes
    <2>. QED BY <1>2, <2>1, <2>2, <2>3, <2>4
<1>10. CASE ProcessCommand /\ UNCHANGED connVars
    BY <1>10, ProcessLoss DEF connVars
<1>11. CASE UNCHANGED vars
    BY <1>1, <1>11 DEF vars, connVars
<1>. QED BY <1>3, <1>4, <1>5, <1>6, <1>7, <1>8, <1>9, <1>10, <1>11 DEF Next, CallStep, UnmarshalStep

(* ProcessCommandForUniRender: the main thread waits, and in the end       *)
(* skips, only for numbers that will never come, of a client whose threads *)
(* commit in turn.                                                         *)
THEOREM WaitsForTheLost == Spec => []WaitsOnlyForTheLost
<1>1. OrderInv /\ SendInv /\ LossInv => WaitsOnlyForTheLost
    <2>. SUFFICES ASSUME OrderInv, SendInv, LossInv,
                         NEW p \in Pids, elapsed[p] # Unset, Single(p), Alternating(p)
                  PROVE  /\ p \in Known /\ pending[p] # {}
                         /\ \A c \in Conns : PidOf(c) = p => \A t \in Waiting(c) : t.index > last[p] + 1
        BY DEF WaitsOnlyForTheLost
    <2>1. Unreplaced(p)
        BY SingleUnreplaced
    <2>2. p \in Known /\ pending[p] # {} /\ last[p] \in Nat
        BY <2>1 DEF LossInv, WaitOrder, OrderInv, DataTypes, MainTypes
    <2>3. ASSUME NEW c \in Conns, PidOf(c) = p, NEW t \in Waiting(c)
          PROVE  t.index > last[p] + 1
        <3>1. t \in Numbered /\ PidOf(t.conn) = p /\ Coming(t)
            BY <2>3, WaitingSomewhere DEF Coming, OnItsWay
        <3>2. last[p] + 1 < t.index /\ t.index \in Nat
            BY <2>1, <3>1 DEF LossInv, WaitOrder, Numbered
        <3>. QED BY <2>2, <3>2
    <2>. QED BY <2>2, <2>3
<1>. QED BY <1>1, InitInv, StepInv, InitOrder, InitSends, StepOrder, InitLoss, StepLoss, PTL DEF Spec
=============================================================================
