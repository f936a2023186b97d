------------------------ MODULE RSConnectionsCorrect ------------------------
(***************************************************************************)
(* What clients of the render service may rely on: their transactions are  *)
(* processed in order, none is lost by the service, a connected client is  *)
(* served, and a dead one is forgotten.                                    *)
(***************************************************************************)
EXTENDS RSConnections

(* Where the transactions of a connection are before they are processed.   *)
Unsent(c) == UNION {ToSet(commit[c][m].parcels) : m \in Mutexes}
Waiting(c) ==
    Unsent(c)
    \cup {wire[c][i].data : i \in DOMAIN wire[c]}
    \cup {stub[c][i] : i \in DOMAIN stub[c] \ {1}}
    \cup {t \in cached \cup unmarshalled \cup pending[PidOf(c)] \cup UNION {ToSet(k) : k \in ToSet(tasks)} :
            t.conn = c}

(* t comes before u: they are two, and their numbers rise unless two       *)
(* commits ran on their proxy at a time, whose numbers may even be equal.  *)
Before(t, u) ==
    /\ t # u
    /\ t.conn = u.conn /\ t.conn \notin overlapped => t.index < u.index

(* Small parcels go past the unmarshalling thread and large ones through   *)
(* it; parcels, sending and parsing may fail.  Still no transaction is     *)
(* processed twice, and, unless two threads of the client committed at a   *)
(* time, none after a later one of its connection, now or ever.            *)
NoneOvertaken ==
    \A p \in Pids : \A j \in DOMAIN processed[p] :
      LET u == processed[p][j]
      IN  /\ \A i \in 1..j - 1 : Before(processed[p][i], u)
          /\ \A t \in Waiting(u.conn) : Before(u, t)

(* No connection of the process was replaced.                              *)
Single(p) == Cardinality({c \in Conns : PidOf(c) = p /\ phase[c] # "none"}) <= 1

(* No two commits of the process ran on one connection at a time.          *)
Alternating(p) == \A c \in overlapped : PidOf(c) # p

(* The main thread waits, and in the end skips, only for numbers that will *)
(* never come, of a client whose threads commit in turn: it never gives up *)
(* a transaction that is on its way.                                       *)
WaitsOnlyForTheLost ==
    \A p \in Pids : elapsed[p] # Unset /\ Single(p) /\ Alternating(p) =>
      /\ p \in Known /\ pending[p] # {}
      /\ \A c \in Conns : PidOf(c) = p =>
           \A t \in Waiting(c) : t.index > last[p] + 1

Served(p) == p \in alive /\ hub[p] # None => p \in Known

(* A living client whose hub holds its connection is known to the main     *)
(* thread, which drops the transactions of everybody else.                 *)
ServedWhileConnected == \A p \in Pids : Single(p) => Served(p)

Received(p, i) ==
    p \in alive /\ Single(p) /\
    \E t \in cached \cup unmarshalled \cup pending[p] : PidOf(t.conn) = p /\ t.id = i

(* What the service has of a living client is processed, also when nobody  *)
(* else asks for a vsync after it, and whatever was lost before it.  Only  *)
(* a frame's look at a gap in the numbers may be the last thing to happen, *)
(* and then the next vsyncs that anybody asks for end it.                  *)
ReceivedIsProcessed ==
    \A p \in Pids, i \in 1..MaxIndex :
        /\ []<>(~Received(p, i) \/ elapsed[p] # Unset)
        /\ []<>requested => []<>~Received(p, i)

Connected(p) ==
    /\ table[p] \in watch
    /\ \A c \in Conns : PidOf(c) = p => call[c] = "none"
Forgotten(p) == p \notin Known /\ pending[p] = {} /\ table[p] = None

(* A client that dies when its CreateConnections have returned is          *)
(* forgotten for good: neither late transactions nor the cleaning of a     *)
(* replaced connection bring it back.                                      *)
DeadAreForgotten ==
    \A p \in Pids : (p \notin alive /\ Connected(p)) ~> []Forgotten(p)
----------------------------------------------------------------------------
(* A statement of the repository that the code does not keep.              *)

(* rs_render_service.cpp:137: if connections_ has the same token one,      *)
(* replace it.  The client goes on with the new connection.                *)
ReplacedIsServed == \A p \in Pids : Served(p)
=============================================================================
