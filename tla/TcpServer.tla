------------------------------ MODULE TcpServer ------------------------------
(***************************************************************************)
(* A TCP server pipe of P2PD (net/pipe/pipe_events.py and pipe_utils.py):  *)
(* its table of clients, await on it, and close.                           *)
(*                                                                         *)
(* The table (client_futures) has a future for every client that connected *)
(* and one for the next.  asyncio calls connection_made and connection_lost*)
(* on its own; the application awaits the server to get the next client,   *)
(* may give up, which cancels the future it shares with other waiters, and *)
(* may close a client or the server at any time.                           *)
(***************************************************************************)
EXTENDS Naturals

CONSTANTS Client,      \* each connects once
          Waiter,      \* tasks of the application that await the server
          MaxAccepts,  \* how often they do (a bound)
          MaxCloses    \* how often the server is closed (a bound)

ASSUME ServerAssumption ==
  /\ Client \cap {"pending", "cancelled"} = {}
  /\ MaxAccepts \in Nat /\ MaxCloses \in Nat

VARIABLES
  life,     \* per client: "new", "accepted" by the system (connection_made is
            \* due), "up", "closing" (connection_lost is due) or "lost"
  entry,    \* per client: p_client_entry
  insert,   \* p_client_insert
  get,      \* p_client_get
  future,   \* per index: the future that was made for it, for ever
  table,    \* the indices that client_futures still has
  listed,   \* tcp_clients
  closes,   \* how often close was called
  closing,  \* how many calls of close are past their sleep(0)
  closed,   \* the server is closed: not is_running
  waiter,   \* per task: "idle", "wait", or how its last await ended
  on,       \* per task: the index it waits on
  accepts,  \* how often the server was awaited
  returned, \* history: the clients an await returned
  late      \* history: the clients that were made after the server closed

clients == <<life, entry, insert, future, table, listed, late>>
waiters == <<get, waiter, on, accepts, returned>>
server  == <<closes, closing, closed>>
vars == <<clients, waiters, server>>

Done(k) == future[k] # "pending"

Init ==
  /\ life = [c \in Client |-> "new"] /\ entry = [c \in Client |-> 0]
  /\ insert = 0 /\ get = 0
  /\ future = [k \in 0 .. 0 |-> "pending"] /\ table = {0}
  /\ listed = {} /\ late = {}
  /\ closes = 0 /\ closing = 0 /\ closed = FALSE
  /\ waiter = [w \in Waiter |-> "idle"] /\ on = [w \in Waiter |-> 0]
  /\ accepts = 0 /\ returned = {}

SetLife(c, st) == life' = [life EXCEPT ![c] = st]

-----------------------------------------------------------------------------
(***************************************************************************)
(* Clients.                                                                *)
(***************************************************************************)
\* The system accepts a connection while the server listens; a transport is
\* made and connection_made scheduled.
Connect(c) ==
  /\ life[c] = "new" /\ ~closed
  /\ SetLife(c, "accepted")
  /\ UNCHANGED <<entry, insert, future, table, listed, late, waiters, server>>

\* The peer is gone before connection_made, where getpeername then raises.
MadeFails(c) ==
  /\ life[c] = "accepted"
  /\ SetLife(c, "lost")
  /\ UNCHANGED <<entry, insert, future, table, listed, late, waiters, server>>

\* A bug: the result goes to the future that was just made.
ConnectionMadeAhead(c) ==
  /\ life[c] = "accepted"
  /\ SetLife(c, "up")
  /\ entry' = [entry EXCEPT ![c] = insert + 1]
  /\ insert' = insert + 1
  /\ table' = table \cup {insert + 1}
  /\ future' = [k \in 0 .. insert + 1 |-> IF k = insert + 1 THEN c ELSE future[k]]
  /\ listed' = listed \cup {c}
  /\ late' = IF closed THEN late \cup {c} ELSE late
  /\ UNCHANGED <<waiters, server>>

\* A bug: the future is set before the client is listed, so that an exception
\* (it may be cancelled) leaves the client out.
ConnectionMadeUnlisted(c) ==
  /\ life[c] = "accepted"
  /\ SetLife(c, "up")
  /\ entry' = [entry EXCEPT ![c] = insert]
  /\ insert' = insert + 1
  /\ table' = table \cup {insert + 1}
  /\ future' = [k \in 0 .. insert + 1 |->
                  IF k = insert + 1 THEN "pending"
                  ELSE IF k = insert /\ ~Done(k) THEN c ELSE future[k]]
  /\ listed' = IF Done(insert) THEN listed ELSE listed \cup {c}
  /\ late' = IF closed THEN late \cup {c} ELSE late
  /\ UNCHANGED <<waiters, server>>

\* connection_made with add_tcp_client: the client takes the entry that was
\* kept for it, the next one gets a new future, and the client is listed.
\* The future it is put in may have been cancelled: set_result then raises,
\* at the end.
ConnectionMade(c) ==
  /\ life[c] = "accepted"
  /\ SetLife(c, "up")
  /\ entry' = [entry EXCEPT ![c] = insert]
  /\ insert' = insert + 1
  /\ table' = table \cup {insert + 1}
  /\ future' = [k \in 0 .. insert + 1 |->
                  IF k = insert + 1 THEN "pending"
                  ELSE IF k = insert /\ ~Done(k) THEN c ELSE future[k]]
  /\ listed' = listed \cup {c}
  /\ late' = IF closed THEN late \cup {c} ELSE late
  /\ UNCHANGED <<waiters, server>>

\* The peer, or the application, closes the connection.
ConnectionEnds(c) ==
  /\ life[c] = "up"
  /\ SetLife(c, "closing")
  /\ UNCHANGED <<entry, insert, future, table, listed, late, waiters, server>>

ConnectionLost(c) ==
  /\ life[c] = "closing"
  /\ SetLife(c, "lost")
  /\ table' = IF Done(entry[c]) THEN table \ {entry[c]} ELSE table
  /\ listed' = listed \ {c}
  /\ UNCHANGED <<entry, insert, future, late, waiters, server>>

-----------------------------------------------------------------------------
(***************************************************************************)
(* await server.                                                           *)
(***************************************************************************)
\* The await of a future that is done: its client, or CancelledError.
Resume(w, k) ==
  /\ waiter' = [waiter EXCEPT ![w] =
                  IF future[k] = "cancelled" THEN "cancelled" ELSE "client"]
  /\ returned' = IF future[k] = "cancelled" THEN returned
                                            ELSE returned \cup {future[k]}

\* A bug: the pointer moves on although the future is not done.
AcceptMovesOn(w) ==
  /\ waiter[w] # "wait" /\ accepts < MaxAccepts
  /\ accepts' = accepts + 1
  /\ IF get \notin table
       THEN /\ waiter' = [waiter EXCEPT ![w] = "missing"]
            /\ UNCHANGED <<get, on, returned>>
       ELSE /\ get' = get + 1
            /\ IF Done(get) THEN Resume(w, get) /\ UNCHANGED on
               ELSE /\ waiter' = [waiter EXCEPT ![w] = "wait"]
                    /\ on' = [on EXCEPT ![w] = get]
                    /\ UNCHANGED returned
  /\ UNCHANGED <<clients, server>>

\* make_awaitable: the loop over the table ends in its first turn, as a
\* deleted entry is not None but a KeyError.  The pointer moves on when the
\* future is done.
Accept(w) ==
  /\ waiter[w] # "wait" /\ accepts < MaxAccepts
  /\ accepts' = accepts + 1
  /\ IF get \notin table
       THEN /\ waiter' = [waiter EXCEPT ![w] = "missing"]
            /\ UNCHANGED <<get, on, returned>>
     ELSE IF Done(get)
       THEN /\ get' = (get + 1) % (insert + 1)
            /\ Resume(w, get)
            /\ UNCHANGED on
       ELSE /\ waiter' = [waiter EXCEPT ![w] = "wait"]
            /\ on' = [on EXCEPT ![w] = get]
            /\ UNCHANGED <<get, returned>>
  /\ UNCHANGED <<clients, server>>

Wake(w) ==
  /\ waiter[w] = "wait" /\ Done(on[w])
  /\ Resume(w, on[w])
  /\ UNCHANGED <<get, on, accepts, clients, server>>

\* The task is cancelled: so is the future, unless it was done meanwhile.
GiveUp(w) ==
  /\ waiter[w] = "wait"
  /\ waiter' = [waiter EXCEPT ![w] = "idle"]
  /\ future' = IF Done(on[w]) THEN future
                              ELSE [future EXCEPT ![on[w]] = "cancelled"]
  /\ UNCHANGED <<get, on, accepts, returned, life, entry, insert, table, listed,
                 late, server>>

-----------------------------------------------------------------------------
(***************************************************************************)
(* close() of the server.                                                  *)
(***************************************************************************)
Close ==
  /\ ~closed /\ closes < MaxCloses
  /\ closes' = closes + 1 /\ closing' = closing + 1
  /\ UNCHANGED <<closed, clients, waiters>>

\* A bug: the list of clients is not gone through.
CloseListener ==
  /\ closing > 0 /\ closing' = closing - 1
  /\ closed' = TRUE /\ listed' = {}
  /\ UNCHANGED <<closes, life, entry, insert, future, table, late, waiters>>

\* After sleep(0) there is no other await: the close of a TCP client does
\* not wait.  What the clients still do is in connection_lost.
CloseRuns ==
  /\ closing > 0 /\ closing' = closing - 1
  /\ closed' = TRUE
  /\ life' = [c \in Client |-> IF c \in listed /\ life[c] = "up" THEN "closing"
                                                                 ELSE life[c]]
  /\ listed' = {}
  /\ UNCHANGED <<closes, entry, insert, future, table, late, waiters>>

-----------------------------------------------------------------------------
Next ==
  \/ \E c \in Client : \/ Connect(c) \/ MadeFails(c) \/ ConnectionMade(c)
                       \/ ConnectionEnds(c) \/ ConnectionLost(c)
  \/ \E w \in Waiter : Accept(w) \/ Wake(w) \/ GiveUp(w)
  \/ Close \/ CloseRuns

Spec == Init /\ [][Next]_vars

\* The event loop runs its callbacks and tasks; the peers, and when the
\* application awaits, gives up or closes, are not forced.
FairSpec ==
  /\ Spec
  /\ \A c \in Client : WF_vars(ConnectionMade(c)) /\ WF_vars(ConnectionLost(c))
  /\ \A w \in Waiter : WF_vars(Wake(w))
  /\ WF_vars(CloseRuns)

-----------------------------------------------------------------------------
(***************************************************************************)
(* Properties.                                                             *)
(***************************************************************************)
\* Every variable has its type; the pointers stay in the table's range.
TypeOK ==
  /\ life \in [Client -> {"new", "accepted", "up", "closing", "lost"}]
  /\ entry \in [Client -> Nat]
  /\ insert \in Nat /\ get \in 0 .. insert
  /\ future \in [0 .. insert -> {"pending", "cancelled"} \cup Client]
  /\ table \subseteq 0 .. insert
  /\ listed \subseteq Client /\ late \subseteq Client /\ returned \subseteq Client
  /\ closes \in 0 .. MaxCloses /\ closing \in 0 .. closes /\ closed \in BOOLEAN
  /\ waiter \in [Waiter -> {"idle", "wait", "client", "cancelled", "missing"}]
  /\ on \in [Waiter -> Nat] /\ \A w \in Waiter : on[w] <= insert
  /\ accepts \in 0 .. MaxAccepts

\* "Close spawned TCP clients for a TCP server": a client that is connected
\* after the server closed was not there yet when it did, whatever happened
\* to the future it was put in.
ClosedEndsClients ==
  closed => \A c \in Client : life[c] = "up" => c \in late

\* The pointer passes no client over: one that is connected and behind it was
\* returned by an await, or its future was cancelled by a waiter that gave up.
NobodyPassedOver ==
  \A c \in Client :
    life[c] = "up" /\ entry[c] < get =>
      c \in returned \/ future[entry[c]] = "cancelled"

\* A task that waits when a client connects stops waiting, as all tasks wait
\* on the entry the next client takes.
WaitersServed ==
  \A w \in Waiter, c \in Client :
    waiter[w] = "wait" /\ life[c] = "accepted" ~>
      waiter[w] # "wait" \/ (life[c] = "lost" /\ ~Done(on[w]))
=============================================================================
