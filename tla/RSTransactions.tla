--------------------------- MODULE RSTransactions ---------------------------
(***************************************************************************)
(* How a client's transactions reach the render service's main thread in   *)
(* unified rendering: RSRenderServiceConnectionProxy numbers and sends     *)
(* them, the connection's stub stores small parcels for the main thread    *)
(* and posts large ones to RSUnmarshalThread, and RSMainThread merges      *)
(* both at a vsync and processes them in the order of their numbers.       *)
(*                                                                         *)
(* RSTransactionProxy commits under one of two mutexes, mutex_ for the     *)
(* application's thread and mutexForRT_ for RSRenderThread, so two commits *)
(* may run on one proxy, whose count is a plain uint32_t: each of its      *)
(* reads and writes is a step here, and so is each parcel's sending.       *)
(*                                                                         *)
(* Binder, which is external, delivers the one-way calls on one object one *)
(* at a time and in order.  What a transaction's commands do is left out.  *)
(***************************************************************************)
EXTENDS Integers, Sequences, FiniteSets, FiniteSetsExt, SequencesExt

CONSTANTS
    Pids,       \* client processes
    HubThreads, \* threads of a client that ask for the connection
    Mutexes,    \* of RSTransactionProxy: mutex_ and mutexForRT_
    SkipLimit,  \* SKIP_COMMAND_FREQ_LIMIT, in frames
    MaxIndex,   \* bound on the transactions that are numbered, by all proxies
    MaxSplit,   \* bound on the parcels of one transaction
    Failures    \* what may fail: "marshal", "send", "parse"

ASSUME SkipLimitType == SkipLimit \in Nat
ASSUME BoundsType == MaxIndex \in Nat /\ MaxSplit \in Nat \ {0}
ASSUME HubThreadsType == IsFiniteSet(HubThreads) /\ IsFiniteSet(Pids)
ASSUME MutexesType == IsFiniteSet(Mutexes)

(* A connection is named by the client's thread that had it made.          *)
Conns == Pids \X HubThreads
PidOf(c) == c[1]

Unset == -1  \* a transactionDataLastWaitTime_ of 0
(* Numbers may repeat, so a transaction has an identity, which no code     *)
(* looks at: the how manieth its proxy numbered.                           *)
Transaction == [conn : Conns, index : 1..MaxIndex, id : 1..MaxIndex]
Barrier == <<>>  \* a task is the parcel it unmarshals, or this

VARIABLES
    index,      \* each proxy's transactionDataIndex_
    commit,     \* the CommitTransaction that runs on a proxy under a mutex
    made,       \* history: how many parcels each proxy numbered
    overlapped, \* history: the proxies on which two commits ran at a time
    wire,       \* parcels sent on a connection and not yet handled
    stub,       \* the parcel that a connection's IPC thread handles
    cached,     \* RSMainThread::cachedTransactionDataMap_
    tasks,      \* the tasks posted to RSUnmarshalThread
    unmarshalled, \* RSUnmarshalThread::cachedTransactionDataMap_
    last,       \* effectiveTransactionDataIndexMap_[pid].first, of the pids known
    pending,    \* effectiveTransactionDataIndexMap_[pid].second
    elapsed,    \* frames since transactionDataLastWaitTime_[pid]
    mainPc,     \* main thread: "idle" or "frame", waiting for the barrier
    finished,   \* unmarshalFinishedCount_
    requested,  \* a vsync was requested
    processed   \* history: the transactions processed, per pid

commitVars == <<index, commit, made, overlapped>>
clientVars == <<commitVars, wire>>
threadVars == <<stub, cached, tasks, unmarshalled, requested>>
mainVars   == <<last, pending, elapsed, mainPc, finished, processed>>
dataVars   == <<clientVars, threadVars, mainVars>>

Known == DOMAIN last
NoCommit == [pc |-> "none", loaded |-> 0, parcels |-> <<>>]

DataInit ==
    /\ index = [c \in Conns |-> 0]
    /\ commit = [c \in Conns |-> [m \in Mutexes |-> NoCommit]]
    /\ made = [c \in Conns |-> 0] /\ overlapped = {}
    /\ wire = [c \in Conns |-> <<>>]
    /\ stub = [c \in Conns |-> <<"idle">>]
    /\ cached = {} /\ tasks = <<>> /\ unmarshalled = {}
    /\ last = <<>> /\ pending = [p \in Pids |-> {}]
    /\ elapsed = [p \in Pids |-> Unset]
    /\ mainPc = "idle" /\ finished = 0 /\ requested = FALSE
    /\ processed = [p \in Pids |-> <<>>]
----------------------------------------------------------------------------
(* Client: RSRenderServiceConnectionProxy::CommitTransaction               *)

At(c, m, pc) == commit[c][m].pc = pc
SetCommit(c, m, running) == commit' = [commit EXCEPT ![c][m] = running]

(* The bound: of what is numbered, and of what a running commit will be.   *)
Numbering == {k \in Conns \X Mutexes : commit[k[1]][k[2]].pc \in {"load", "store", "fill"}}
MayNumber == MapThenSumSet(LAMBDA c : made[c], Conns) + Cardinality(Numbering) < MaxIndex

(* The mutex is held until all parcels are sent.  The first parcel's       *)
(* number is read, for ++transactionDataIndex_.                            *)
CommitTransaction(c, m) ==
    /\ \A d \in Conns : PidOf(d) = PidOf(c) => At(d, m, "none")
    /\ MayNumber
    /\ SetCommit(c, m, [pc |-> "store", loaded |-> index[c], parcels |-> <<>>])
    /\ overlapped' = overlapped \cup {d \in {c} : \E o \in Mutexes : ~At(d, o, "none")}
    /\ UNCHANGED <<index, made, wire, threadVars, mainVars>>

StoreIndex(c, m) ==
    /\ At(c, m, "store")
    /\ index' = [index EXCEPT ![c] = commit[c][m].loaded + 1]
    /\ SetCommit(c, m, [commit[c][m] EXCEPT !.pc = "fill"])
    /\ UNCHANGED <<made, overlapped, wire, threadVars, mainVars>>

(* SetIndex has the number from a register or reads it again.  Then the    *)
(* parcel is filled, and the next one numbered or the first one sent.      *)
FillParcel(c, m) ==
    LET running == commit[c][m] IN
    /\ At(c, m, "fill")
    /\ made' = [made EXCEPT ![c] = @ + 1]
    /\ \E number \in {running.loaded + 1, index[c]} :
       \E next \in {"send"} \cup {l \in {"load"} : Len(running.parcels) + 1 < MaxSplit /\ MayNumber} :
         SetCommit(c, m, [pc |-> next, loaded |-> 0, parcels |->
           Append(running.parcels, [conn |-> c, index |-> number, id |-> made[c] + 1])])
    /\ UNCHANGED <<index, overlapped, wire, threadVars, mainVars>>

LoadIndex(c, m) ==
    /\ At(c, m, "load")
    /\ SetCommit(c, m, [commit[c][m] EXCEPT !.pc = "store", !.loaded = index[c]])
    /\ UNCHANGED <<index, made, overlapped, wire, threadVars, mainVars>>

(* Parcels are of either size: a large one is sent as shared memory.       *)
SendParcel(c, m) ==
    LET running == commit[c][m] IN
    /\ At(c, m, "send")
    /\ \E big \in BOOLEAN :
         wire' = [wire EXCEPT ![c] = Append(@, [big |-> big, data |-> Head(running.parcels)])]
    /\ SetCommit(c, m, IF Len(running.parcels) = 1 THEN NoCommit
                       ELSE [running EXCEPT !.parcels = Tail(@)])
    /\ UNCHANGED <<index, made, overlapped, threadVars, mainVars>>

(* Filling may fail at any parcel, and so may sending: what was numbered   *)
(* and not sent is lost.                                                   *)
CommitFails(c, m) ==
    /\ \/ "marshal" \in Failures /\ At(c, m, "fill") /\ made' = [made EXCEPT ![c] = @ + 1]
       \/ "send" \in Failures /\ At(c, m, "send") /\ UNCHANGED made
    /\ SetCommit(c, m, NoCommit)
    /\ UNCHANGED <<index, overlapped, wire, threadVars, mainVars>>

CommitStep(c, m) ==
    StoreIndex(c, m) \/ FillParcel(c, m) \/ LoadIndex(c, m) \/ SendParcel(c, m) \/ CommitFails(c, m)
----------------------------------------------------------------------------
(* IPC threads: RSRenderServiceConnectionStub, COMMIT_TRANSACTION          *)

(* A small parcel asks for a vsync before it is parsed, a large one is     *)
(* posted to the unmarshalling thread.  A parcel that cannot be parsed is  *)
(* dropped: an ashmem one here, another where it is unmarshalled.          *)
StubReceives(c) ==
    /\ stub[c] = <<"idle">> /\ wire[c] # <<>>
    /\ LET parcel == Head(wire[c]) IN
         /\ IF parcel.big
            THEN /\ tasks' = Append(tasks, <<parcel.data>>)
                 /\ stub' = [stub EXCEPT ![c] = <<"request">>]
                 /\ UNCHANGED requested
            ELSE /\ requested' = TRUE
                 /\ stub' = [stub EXCEPT ![c] = <<"store", parcel.data>>]
                 /\ UNCHANGED tasks
    /\ wire' = [wire EXCEPT ![c] = Tail(@)]
    /\ UNCHANGED <<commitVars, cached, unmarshalled, mainVars>>

(* RSMainThread::RecvRSTransactionData                                     *)
StubStores(c) ==
    /\ stub[c][1] = "store"
    /\ cached' = cached \cup {stub[c][2]}
    /\ stub' = [stub EXCEPT ![c] = <<"request">>]
    /\ UNCHANGED <<clientVars, tasks, unmarshalled, requested, mainVars>>

(* Mutant: the vsync asked for before the transaction was stored has to do.*)
StubRequestsVSyncFaultOnce(c) ==
    /\ stub[c] = <<"request">>
    /\ stub' = [stub EXCEPT ![c] = <<"idle">>]
    /\ UNCHANGED <<clientVars, cached, tasks, unmarshalled, requested, mainVars>>

StubRequestsVSync(c) ==
    /\ stub[c] = <<"request">>
    /\ requested' = TRUE
    /\ stub' = [stub EXCEPT ![c] = <<"idle">>]
    /\ UNCHANGED <<clientVars, cached, tasks, unmarshalled, mainVars>>

(* Parsing fails: the transaction is a nullptr that nobody stores.         *)
StubDrops(c) ==
    /\ "parse" \in Failures
    /\ \/ stub[c] = <<"idle">> /\ wire[c] # <<>> /\ Head(wire[c]).big
          /\ wire' = [wire EXCEPT ![c] = Tail(@)]
       \/ stub[c][1] = "store" /\ UNCHANGED wire
    /\ stub' = [stub EXCEPT ![c] = <<"idle">>]
    /\ UNCHANGED <<commitVars, cached, tasks, unmarshalled, requested, mainVars>>
----------------------------------------------------------------------------
(* RSMainThread::MergeToEffectiveTransactionDataMap                        *)

OfPid(transactions, p) == {t \in transactions : PidOf(t.conn) = p}

Merge(transactions) ==
    pending' = [p \in Pids |->
                  pending[p] \cup (IF p \in Known THEN OfPid(transactions, p) ELSE {})]

(* RSUnmarshalThread: one task, a parcel or the main thread's barrier.     *)
UnmarshalParcel ==
    /\ tasks # <<>> /\ Head(tasks) # Barrier
    /\ unmarshalled' = unmarshalled \cup ToSet(Head(tasks))
    /\ tasks' = Tail(tasks)
    /\ UNCHANGED <<clientVars, stub, cached, requested, mainVars>>

UnmarshalFails ==
    /\ "parse" \in Failures
    /\ tasks # <<>> /\ Head(tasks) # Barrier
    /\ tasks' = Tail(tasks)
    /\ UNCHANGED <<clientVars, stub, cached, unmarshalled, requested, mainVars>>

UnmarshalBarrier ==
    /\ tasks # <<>> /\ Head(tasks) = Barrier
    /\ Merge(unmarshalled)
    /\ unmarshalled' = {}
    /\ finished' = finished + 1
    /\ tasks' = Tail(tasks)
    /\ UNCHANGED <<clientVars, stub, cached, requested, last, elapsed, mainPc, processed>>
----------------------------------------------------------------------------
(* RSMainThread::OnVsync, ForceRefreshForUni                               *)

Later(p, frames) ==
    IF elapsed[p] = Unset THEN Unset
    ELSE IF elapsed[p] + frames > SkipLimit THEN SkipLimit + 1
    ELSE elapsed[p] + frames

(* Mutant: the frame does not wait for the unmarshalling thread.           *)
StartFrameFaultNoBarrier ==
    /\ mainPc = "idle"
    /\ Merge(cached)
    /\ cached' = {}
    /\ finished' = finished + 1
    /\ mainPc' = "frame"
    /\ UNCHANGED <<clientVars, stub, tasks, unmarshalled, last, processed>>

StartFrame ==
    /\ mainPc = "idle"
    /\ Merge(cached)
    /\ cached' = {}
    /\ tasks' = Append(tasks, Barrier)
    /\ mainPc' = "frame"
    /\ UNCHANGED <<clientVars, stub, unmarshalled, last, finished, processed>>

(* Animations, screens and other clients ask for frames, too.              *)
RequestNextVSync ==
    /\ requested' = TRUE
    /\ UNCHANGED <<clientVars, stub, cached, tasks, unmarshalled, mainVars>>

(* The next vsync comes when it was asked for, any number of frames later. *)
OnVsync ==
    /\ requested
    /\ requested' = FALSE
    /\ \E frames \in {1, SkipLimit + 1} : elapsed' = [p \in Pids |-> Later(p, frames)]
    /\ StartFrame

ForceRefreshForUni == StartFrame /\ UNCHANGED <<requested, elapsed>>

(* std::sort leaves the order of equal numbers open.                       *)
SortedByIndex(transactions) ==
    {s \in SetToSeqs(transactions) : \A i, j \in DOMAIN s : i < j => s[i].index <= s[j].index}

(* Mutant: the start of a wait is kept when the wait ends.                 *)
WalkFaultKeepsWait(walk, t) ==
    LET waited == IF walk.elapsed = Unset THEN 0 ELSE walk.elapsed
    IN  IF walk.stopped THEN walk
        ELSE IF t.index = walk.last + 1 \/ waited > SkipLimit
        THEN [walk EXCEPT !.last = t.index, !.taken = Append(@, t)]
        ELSE [walk EXCEPT !.elapsed = waited, !.stopped = TRUE]

(* One transaction of the loop: the next number goes through; another one  *)
(* waits, from now or from an earlier wait, and after SkipLimit frames     *)
(* goes through as well.                                                   *)
Walk(walk, t) ==
    LET waited == IF walk.elapsed = Unset THEN 0 ELSE walk.elapsed
    IN  IF walk.stopped THEN walk
        ELSE IF t.index = walk.last + 1
        THEN [walk EXCEPT !.last = t.index, !.taken = Append(@, t)]
        ELSE IF waited > SkipLimit
        THEN [walk EXCEPT !.last = t.index, !.taken = Append(@, t), !.elapsed = Unset]
        ELSE [walk EXCEPT !.elapsed = waited, !.stopped = TRUE]

Walked(p, sorted) ==
    LET walk[i \in 0..Len(sorted)] ==
          IF i = 0
          THEN [last |-> last[p], elapsed |-> elapsed[p], taken |-> <<>>, stopped |-> FALSE]
          ELSE Walk(walk[i - 1], sorted[i])
    IN  walk[Len(sorted)]

Walks(p) == {Walked(p, s) : s \in SortedByIndex(pending[p])}

WaitUntilUnmarshallingTaskFinished == finished > 0 /\ finished' = finished - 1

(* ProcessCommandForUniRender                                              *)
ProcessCommand ==
    /\ mainPc = "frame"
    /\ WaitUntilUnmarshallingTaskFinished
    /\ \E walks \in [Known -> UNION {Walks(p) : p \in Known}] :
         /\ \A p \in Known : walks[p] \in Walks(p)
         /\ last' = [p \in Known |-> walks[p].last]
         /\ elapsed' = [p \in Pids |-> IF p \in Known THEN walks[p].elapsed ELSE elapsed[p]]
         /\ pending' = [p \in Pids |->
                          IF p \in Known THEN pending[p] \ ToSet(walks[p].taken) ELSE {}]
         /\ processed' = [p \in Pids |->
                            processed[p] \o IF p \in Known THEN walks[p].taken ELSE <<>>]
    /\ mainPc' = "idle"
    /\ UNCHANGED <<clientVars, threadVars>>
----------------------------------------------------------------------------
(* RSMainThread::AddTransactionDataPidInfo, ClearTransactionDataPidInfo    *)

AddTransactionDataPidInfo(p) ==
    /\ last' = [q \in Known \cup {p} |-> IF q = p THEN 0 ELSE last[q]]
    /\ UNCHANGED <<pending, elapsed>>

ClearTransactionDataPidInfo(p) ==
    /\ last' = [q \in Known \ {p} |-> last[q]]
    /\ pending' = [pending EXCEPT ![p] = {}]
    /\ elapsed' = [elapsed EXCEPT ![p] = Unset]

StubStep(c) == StubReceives(c) \/ StubStores(c) \/ StubRequestsVSync(c) \/ StubDrops(c)
UnmarshalStep == UnmarshalParcel \/ UnmarshalFails \/ UnmarshalBarrier
=============================================================================
