--------------------------- MODULE RSConnections ---------------------------
(***************************************************************************)
(* The connections of the render service and the transactions that go      *)
(* through them: RSRenderServiceConnectHub in each client process,         *)
(* RSRenderService's connections_, the life of an RSRenderServiceConnection*)
(* and its cleaning when the client dies or its last reference goes.       *)
(*                                                                         *)
(* A process has one token; a race of its threads to make it is left out,  *)
(* and so is the death of the render service, which takes all of this with *)
(* it.  A reference to a connection is held by connections_, by a running  *)
(* CreateConnection and its reply, by the client's hub and its commits, by *)
(* each call on the connection and by a running death recipient.           *)
(***************************************************************************)
EXTENDS RSTransactions

CONSTANT None

ASSUME NoneIsNoConnection == None \notin Conns

VARIABLES
    alive,      \* client processes that run
    hub,        \* RSRenderServiceConnectHub::conn_, kept after death
    call,       \* where the CreateConnection of each connection stands
    tmp,        \* tmp in CreateConnection: the connection it replaced
    table,      \* RSRenderService::connections_, by the process of the token
    phase,      \* none, live, posted and cleared in CleanAll, done
    watch,      \* the death recipient is registered and has not run
    handling    \* the death recipient runs and holds a reference

connVars == <<alive, hub, call, tmp, table, phase, watch, handling>>
vars == <<dataVars, connVars>>

Init ==
    /\ DataInit
    /\ alive = Pids
    /\ hub = [p \in Pids |-> None] /\ table = [p \in Pids |-> None]
    /\ call = [c \in Conns |-> "none"] /\ tmp = [c \in Conns |-> None]
    /\ phase = [c \in Conns |-> "none"]
    /\ watch = {} /\ handling = {}

GoCall(c, from, to) == call[c] = from /\ call' = [call EXCEPT ![c] = to]
----------------------------------------------------------------------------
(* Client: GetRenderServiceConnection looks for conn_ under mutex_ and     *)
(* calls Connect without it.                                               *)
GetRenderServiceConnection(c) ==
    /\ PidOf(c) \in alive /\ hub[PidOf(c)] = None
    /\ GoCall(c, "none", "sent")
    /\ UNCHANGED <<dataVars, alive, hub, tmp, table, phase, watch, handling>>

SetConn(c) ==
    /\ PidOf(c) \in alive
    /\ GoCall(c, "received", "none")
    /\ hub' = [hub EXCEPT ![PidOf(c)] = c]
    /\ UNCHANGED <<dataVars, alive, tmp, table, phase, watch, handling>>

(* The process dies, and its running commits with it; what its threads had *)
(* called may have been sent.                                              *)
Die(p) ==
    /\ p \in alive
    /\ alive' = alive \ {p}
    /\ \E lost \in SUBSET {c \in Conns : PidOf(c) = p /\ call[c] = "sent"} :
         call' = [c \in Conns |->
                    IF c \in lost \/ (PidOf(c) = p /\ call[c] = "received") THEN "none" ELSE call[c]]
    /\ commit' = [c \in Conns |-> IF PidOf(c) = p THEN [m \in Mutexes |-> NoCommit] ELSE commit[c]]
    /\ UNCHANGED <<index, made, overlapped, wire, threadVars, mainVars,
                   hub, tmp, table, phase, watch, handling>>

(* RSRenderServiceClient::CommitTransaction asks the hub for the proxy.    *)
Commit(c, m) ==
    /\ \/ PidOf(c) \in alive /\ hub[PidOf(c)] = c /\ CommitTransaction(c, m)
       \/ CommitStep(c, m)
    /\ UNCHANGED connVars
----------------------------------------------------------------------------
(* IPC threads: RSRenderService::CreateConnection                          *)

(* The constructor; a token of a dead process takes no death recipient.    *)
Construct(c) ==
    /\ GoCall(c, "sent", "store")
    /\ phase' = [phase EXCEPT ![c] = "live"]
    /\ watch' = watch \cup {d \in {c} : PidOf(d) \in alive}
    /\ UNCHANGED <<dataVars, alive, hub, tmp, table, handling>>

Store(c) ==
    /\ GoCall(c, "store", "add")
    /\ tmp' = [tmp EXCEPT ![c] = table[PidOf(c)]]
    /\ table' = [table EXCEPT ![PidOf(c)] = c]
    /\ UNCHANGED <<dataVars, alive, hub, phase, watch, handling>>

(* Mutant: the main thread is not told of the client.                      *)
AddPidFaultForgets(c) ==
    /\ GoCall(c, "add", "release")
    /\ UNCHANGED <<dataVars, alive, hub, tmp, table, phase, watch, handling>>

AddPid(c) ==
    /\ GoCall(c, "add", "release")
    /\ AddTransactionDataPidInfo(PidOf(c))
    /\ UNCHANGED <<clientVars, threadVars, mainPc, finished, processed,
                   alive, hub, tmp, table, phase, watch, handling>>

(* References to c, the ones of a tmp that goes out of scope left aside.   *)
Referenced(c) ==
    \/ c \in handling \/ table[PidOf(c)] = c
    \/ call[c] # "none" \/ \E d \in Conns : tmp[d] = c /\ call[d] = "add"
    \/ PidOf(c) \in alive /\ hub[PidOf(c)] = c
    \/ (\E m \in Mutexes : ~At(c, m, "none")) \/ wire[c] # <<>> \/ stub[c] # <<"idle">>

(* tmp goes out of scope; when it is the last, its destructor comes first. *)
Release(c) ==
    /\ tmp[c] # None => Referenced(tmp[c]) \/ phase[tmp[c]] = "done"
    /\ GoCall(c, "release", "reply")
    /\ tmp' = [tmp EXCEPT ![c] = None]
    /\ UNCHANGED <<dataVars, alive, hub, table, phase, watch, handling>>

Reply(c) ==
    /\ GoCall(c, "reply", IF PidOf(c) \in alive THEN "received" ELSE "none")
    /\ UNCHANGED <<dataVars, alive, hub, tmp, table, phase, watch, handling>>
----------------------------------------------------------------------------
(* RSRenderServiceConnection::CleanAll                                     *)

(* RSConnectionDeathRecipient::OnRemoteDied promotes its wptr; of an       *)
(* object whose destructor has begun, it gets nothing.                     *)
OnRemoteDied(c) ==
    /\ c \in watch /\ PidOf(c) \notin alive /\ phase[c] = "live"
    /\ watch' = watch \ {c}
    /\ handling' = handling \cup {c}
    /\ phase' = [phase EXCEPT ![c] = "posted"]
    /\ UNCHANGED <<dataVars, alive, hub, call, tmp, table>>

(* ~RSRenderServiceConnection; when cleanDone_ is set it cleans nothing.   *)
Destroy(c) ==
    /\ phase[c] = "live" /\ ~Referenced(c)
    /\ phase' = [phase EXCEPT ![c] = "posted"]
    /\ UNCHANGED <<dataVars, alive, hub, call, tmp, table, watch, handling>>

(* The task on the main thread, which CleanAll waits for.                  *)
CleanTask(c) ==
    /\ phase[c] = "posted" /\ mainPc = "idle"
    /\ ClearTransactionDataPidInfo(PidOf(c))
    /\ phase' = [phase EXCEPT ![c] = "cleared"]
    /\ UNCHANGED <<clientVars, threadVars, mainPc, finished, processed,
                   alive, hub, call, tmp, table, watch, handling>>

(* Mutant: the death recipient cleans, but leaves the connection listed.   *)
CleanRestFaultKeepsTable(c) ==
    /\ phase[c] = "cleared"
    /\ phase' = [phase EXCEPT ![c] = "done"]
    /\ handling' = handling \ {c}
    /\ UNCHANGED <<dataVars, alive, hub, call, tmp, table, watch>>

(* cleanDone_ and, for the death recipient, RemoveConnection(token), which *)
(* erases whichever connection the token has.                              *)
CleanRest(c) ==
    /\ phase[c] = "cleared"
    /\ phase' = [phase EXCEPT ![c] = "done"]
    /\ handling' = handling \ {c}
    /\ table' = IF c \in handling THEN [table EXCEPT ![PidOf(c)] = None] ELSE table
    /\ UNCHANGED <<dataVars, alive, hub, call, tmp, watch>>
----------------------------------------------------------------------------
CallStep(c) == Construct(c) \/ Store(c) \/ AddPid(c) \/ Release(c) \/ Reply(c)

Next ==
    \/ \E p \in Pids : Die(p)
    \/ \E c \in Conns :
         \/ GetRenderServiceConnection(c) \/ SetConn(c)
         \/ \E m \in Mutexes : Commit(c, m)
         \/ CallStep(c)
         \/ OnRemoteDied(c) \/ Destroy(c) \/ CleanTask(c) \/ CleanRest(c)
         \/ StubStep(c) /\ UNCHANGED connVars
    \/ UnmarshalStep /\ UNCHANGED connVars
    \/ (RequestNextVSync \/ OnVsync \/ ForceRefreshForUni \/ ProcessCommand) /\ UNCHANGED connVars

Spec == Init /\ [][Next]_vars

(* Threads of the service go on with what they have.  The main thread's    *)
(* queue is served in order, so a task or a vsync that waits for it gets   *)
(* its turn between forced refreshes.  Clients owe nothing.                *)
Fairness ==
    /\ \A c \in Conns :
         /\ WF_vars(CallStep(c))
         /\ WF_vars(OnRemoteDied(c)) /\ WF_vars(Destroy(c))
         /\ SF_vars(CleanTask(c)) /\ WF_vars(CleanRest(c))
         /\ WF_vars(StubStep(c) /\ UNCHANGED connVars)
    /\ WF_vars(UnmarshalStep /\ UNCHANGED connVars)
    /\ SF_vars(OnVsync /\ UNCHANGED connVars)
    /\ WF_vars(ProcessCommand /\ UNCHANGED connVars)

FairSpec == Spec /\ Fairness
=============================================================================
