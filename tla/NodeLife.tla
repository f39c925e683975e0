------------------------------- MODULE NodeLife -------------------------------
(***************************************************************************)
(* The life of P2P nodes that share a machine: start, listen, connect,     *)
(* close (node/p2p_node.py, node/p2p_node_extra.py, net/daemon.py).        *)
(*                                                                         *)
(* The port of a node is a function of the machine, so a second process on *)
(* it wants the addresses the first one listens at.  add_listener takes a  *)
(* lock file, looks whether somebody answers at the address, and listens;  *)
(* close walks the tables of the node and awaits the close of each entry,  *)
(* while the attempts that fill and empty these tables go on.              *)
(***************************************************************************)
EXTENDS Integers, Sequences, FiniteSets

CONSTANTS Proc,        \* the processes on the machine, a node in each
          Addrs,       \* the addresses listen_on_ifs tries, in its order
          Global,      \* those of them added with no wrapper for errors
          Id,          \* pipe ids
          Busy         \* the processes whose nodes connect (a bound of the run)

Addr == {Addrs[k] : k \in DOMAIN Addrs}
Nobody == "none"

ASSUME NodeLifeAssumption ==
  /\ Addrs \in Seq(Addr) /\ Addrs # <<>> /\ Global \subseteq Addr
  /\ Nobody \notin Proc /\ IsFiniteSet(Id)

VARIABLES
  stage,   \* per process: how far its node is
  tried,   \* how many of the addresses it has tried to listen at
  lock,    \* the lock files: per address, the process that holds it
  bound,   \* the <<process, address>> with a listening socket
  future,  \* pipes: per id, the future or the pipe in it
  turn,    \* turn_clients: per id
  walk,    \* close: its loop over a table, what it has seen there, the size the
           \* table had, and the entry whose close it awaits
  passed,  \* close: the entries its loops have passed over
  held     \* what was open when close began

lifevars == <<stage, tried, lock, bound, future, turn, walk, passed, held>>

\* An entry a table never had, or has no more.
Absent == {Nobody, "deleted"}

NoWalk == [table |-> Nobody, seen |-> {}, size |-> 0, awaits |-> {}]

LifeInit ==
  /\ stage = [p \in Proc |-> "down"]
  /\ tried = [p \in Proc |-> 0]
  /\ lock = [a \in Addr |-> Nobody] /\ bound = {}
  /\ future = [p \in Proc |-> [i \in Id |-> Nobody]]
  /\ turn = [p \in Proc |-> [i \in Id |-> Nobody]]
  /\ walk = [p \in Proc |-> NoWalk]
  /\ passed = [p \in Proc |-> {}] /\ held = [p \in Proc |-> {}]

Goto(p, st) == stage' = [stage EXCEPT ![p] = st]
Nets == <<lock, bound>>
Tables == <<future, turn>>
Closing == <<walk, passed, held>>

-----------------------------------------------------------------------------
(* start: listen_on_ifs, listen_local and add_listener. *)

\* What start does before it listens fails or not, and is not modelled here.
Start(p) ==
  /\ stage[p] = "down" /\ Goto(p, "listen")
  /\ UNCHANGED <<tried, Nets, Tables, Closing>>

Here(p) == Addrs[tried[p] + 1]

\* The next address, after this one is done with or has raised an error: the
\* error of the global address ends start, that of a local one is wrapped.
NextAddr(p, raised) ==
  IF raised /\ Here(p) \in Global
    THEN Goto(p, "failed") /\ UNCHANGED tried
    ELSE /\ tried' = [tried EXCEPT ![p] = @ + 1]
         /\ Goto(p, IF tried[p] + 1 = Len(Addrs) THEN "up" ELSE "listen")

\* A bug: the error of a taken lock is not raised.
AcquireLockAnyway(p) ==
  /\ stage[p] = "listen"
  /\ lock' = IF lock[Here(p)] = Nobody THEN [lock EXCEPT ![Here(p)] = p] ELSE lock
  /\ Goto(p, "probe")
  /\ UNCHANGED <<tried, bound, Tables, Closing>>

\* lock.acquire(blocking=False); a lock that is taken is an error.
AcquireLock(p) ==
  /\ stage[p] = "listen"
  /\ IF lock[Here(p)] = Nobody
       THEN /\ lock' = [lock EXCEPT ![Here(p)] = p]
            /\ Goto(p, "probe") /\ UNCHANGED tried
       ELSE NextAddr(p, TRUE) /\ UNCHANGED lock
  /\ UNCHANGED <<bound, Tables, Closing>>

\* is_serv_listening connects to the address.  A connection proves a server,
\* a node's or any other program's; none proves nothing.  After an error the
\* lock object is dropped, and the file is unlocked.
Probe(p) ==
  /\ stage[p] = "probe"
  /\ \/ /\ Goto(p, "bind") /\ UNCHANGED <<tried, lock>>
     \/ /\ lock' = [lock EXCEPT ![Here(p)] = Nobody]
        /\ NextAddr(p, TRUE)
  /\ UNCHANGED <<bound, Tables, Closing>>

\* pipe_open: where addresses may be reused the system lets two sockets
\* listen at one address.
Bind(p) ==
  /\ stage[p] = "bind"
  /\ \/ /\ bound' = bound \cup {<<p, Here(p)>>}
        /\ NextAddr(p, FALSE) /\ UNCHANGED lock
     \/ /\ lock' = [lock EXCEPT ![Here(p)] = Nobody]
        /\ NextAddr(p, TRUE) /\ UNCHANGED bound
  /\ UNCHANGED <<Tables, Closing>>

-----------------------------------------------------------------------------
(* The tables while the node is up, and while it closes. *)

\* What else runs in the process, also while close awaits something.
Running(p) ==
  p \in Busy /\ \/ stage[p] = "up"
                \/ /\ stage[p] = "closing"
                   /\ walk[p].table = "servers" \/ walk[p].awaits # {}

Entries(table) == {i \in Id : table[i] \notin Absent}
Deleted(table) == {i \in Id : table[i] = "deleted"}
Of(name, items) == {i \in Id : <<name, i>> \in items}

\* A dict keeps its entries in the order they came, and the places of deleted
\* ones until an insertion has no room and moves the others up.  The loop of
\* close goes by places: while it awaits the close of an entry, an insertion may
\* move entries that it has yet to see, or the new one, to places that are
\* behind it, one for each place that was free.
Put(p, name, table, i) ==
  IF stage[p] = "closing" /\ walk[p].table = name
    THEN \E S \in SUBSET ((Entries(table) \cup {i}) \ walk[p].seen) :
           LET over == passed[p] \cup ({name} \X S) IN
           /\ Cardinality(Of(name, over)) <= Cardinality(Deleted(table))
           /\ passed' = [passed EXCEPT ![p] = over]
    ELSE UNCHANGED passed

\* pipe_future, for an attempt or for a connection that names its id.
NewFuture(p, i) ==
  /\ Running(p) /\ future[p][i] = Nobody
  /\ future' = [future EXCEPT ![p][i] = "pending"]
  /\ Put(p, "pipes", future[p], i)
  /\ UNCHANGED <<stage, tried, Nets, turn, walk, held>>

\* udp_turn_relay puts its client in turn_clients.
NewTurnClient(p, i) ==
  /\ Running(p) /\ future[p][i] = "pending" /\ turn[p][i] = Nobody
  /\ turn' = [turn EXCEPT ![p][i] = "open"]
  /\ Put(p, "turn", turn[p], i)
  /\ UNCHANGED <<stage, tried, Nets, future, walk, held>>

\* pipe_ready.
PipeReady(p, i) ==
  /\ Running(p) /\ future[p][i] = "pending"
  /\ future' = [future EXCEPT ![p][i] = "open"]
  /\ UNCHANGED <<stage, tried, Nets, turn, Closing>>

\* wait_for gives up: it cancels the future the technique awaited.
AttemptTimeout(p, i) ==
  /\ Running(p) /\ future[p][i] = "pending"
  /\ future' = [future EXCEPT ![p][i] = "cancelled"]
  /\ UNCHANGED <<stage, tried, Nets, turn, Closing>>

\* The clean-up of an attempt: turn_cleanup awaits the close of the client,
\* and then both entries are deleted.
TurnCleanup(p, i) ==
  /\ Running(p) /\ future[p][i] = "cancelled" /\ turn[p][i] \notin Absent
  /\ turn' = [turn EXCEPT ![p][i] = "deleted"]
  /\ UNCHANGED <<stage, tried, Nets, future, Closing>>

DeleteFuture(p, i) ==
  /\ Running(p) /\ future[p][i] = "cancelled" /\ turn[p][i] \in Absent
  /\ future' = [future EXCEPT ![p][i] = "deleted"]
  /\ UNCHANGED <<stage, tried, Nets, turn, Closing>>

-----------------------------------------------------------------------------
(* close. *)

OpenIn(table) == {i \in Id : table[i] = "open"}
WalkOver(name, table) ==
  [table |-> name, seen |-> {}, size |-> Cardinality(Entries(table)), awaits |-> {}]

CloseBegin(p) ==
  /\ stage[p] = "up" /\ Goto(p, "closing")
  /\ walk' = [walk EXCEPT ![p] = WalkOver("turn", turn[p])]
  /\ held' = [held EXCEPT ![p] =
       {<<"turn", i>> : i \in OpenIn(turn[p])} \cup {<<"pipes", i>> : i \in OpenIn(future[p])}]
  /\ UNCHANGED <<tried, Nets, Tables, passed>>

Table(p) == IF walk[p].table = "turn" THEN turn[p] ELSE future[p]
Resized(p) == Cardinality(Entries(Table(p))) # walk[p].size
LoopPast(p) == walk[p].seen \cup Of(walk[p].table, passed[p])
AtTable(p) == stage[p] = "closing" /\ walk[p].table \in {"turn", "pipes"}

\* A bug: a future that is not done ends the loop.
SeenAllAtPending(seen, i, here) == IF here = "pending" THEN Id ELSE seen \cup {i}

\* A future that is not done is left (continue).
Seen(seen, i, here) == seen \cup {i}

\* The loop's next entry, when the table has the size it had: an open pipe is
\* closed, a pending future is left; the result of a cancelled one raises, and
\* so does a table whose size has changed.
CloseEntry(p) ==
  /\ AtTable(p)
  /\ \E i \in Entries(Table(p)) \ LoopPast(p) :
       LET here == Table(p)[i] IN
       IF Resized(p) \/ here = "cancelled"
         THEN Goto(p, "failed") /\ UNCHANGED <<Tables, walk>>
         ELSE /\ walk' = [walk EXCEPT ![p].seen = Seen(@, i, here),
                                     ![p].awaits = IF here = "open" THEN {i} ELSE {}]
              /\ IF here # "open" THEN UNCHANGED Tables
                 ELSE IF walk[p].table = "turn"
                   THEN turn' = [turn EXCEPT ![p][i] = "closed"] /\ UNCHANGED future
                   ELSE future' = [future EXCEPT ![p][i] = "closed"] /\ UNCHANGED turn
              /\ UNCHANGED stage
  /\ UNCHANGED <<tried, Nets, passed, held>>

\* The next table; the servers come last.  (The tables of signal pipes and of
\* punchers are walked before these in the same way.)
CloseNextTable(p) ==
  /\ AtTable(p) /\ Entries(Table(p)) \subseteq LoopPast(p)
  /\ IF Resized(p)
       THEN Goto(p, "failed") /\ UNCHANGED walk
       ELSE /\ walk' = [walk EXCEPT ![p] =
                 IF @.table = "turn" THEN WalkOver("pipes", future[p])
                 ELSE [NoWalk EXCEPT !.table = "servers"]]
            /\ UNCHANGED stage
  /\ UNCHANGED <<tried, Nets, Tables, passed, held>>

\* Daemon.close: a server stops listening before its lock is released, and
\* an error of its close is wrapped.
CloseSocket(p) ==
  /\ stage[p] = "closing" /\ walk[p].table = "servers"
  /\ \E a \in Addr : <<p, a>> \in bound /\ bound' = bound \ {<<p, a>>}
  /\ UNCHANGED <<stage, tried, lock, Tables, Closing>>

ReleaseLock(p) ==
  /\ stage[p] = "closing" /\ walk[p].table = "servers"
  /\ \E a \in Addr : /\ lock[a] = p /\ <<p, a>> \notin bound
                     /\ lock' = [lock EXCEPT ![a] = Nobody]
  /\ UNCHANGED <<stage, tried, bound, Tables, Closing>>

CloseReturns(p) ==
  /\ stage[p] = "closing" /\ walk[p].table = "servers"
  /\ \A a \in Addr : lock[a] # p /\ <<p, a>> \notin bound
  /\ Goto(p, "closed")
  /\ UNCHANGED <<tried, Nets, Tables, Closing>>

\* The process ends, in whatever state: the system closes its sockets and
\* unlocks its files.
Exit(p) ==
  /\ stage[p] # "down" /\ Goto(p, "gone")
  /\ bound' = {b \in bound : b[1] # p}
  /\ lock' = [a \in Addr |-> IF lock[a] = p THEN Nobody ELSE lock[a]]
  /\ UNCHANGED <<tried, Tables, Closing>>

-----------------------------------------------------------------------------
LifeNext ==
  \E p \in Proc :
    \/ Start(p)
    \/ AcquireLock(p) \/ Probe(p) \/ Bind(p)
    \/ \E i \in Id : \/ NewFuture(p, i) \/ NewTurnClient(p, i) \/ PipeReady(p, i)
                     \/ AttemptTimeout(p, i) \/ TurnCleanup(p, i) \/ DeleteFuture(p, i)
    \/ CloseBegin(p) \/ CloseEntry(p) \/ CloseNextTable(p)
    \/ CloseSocket(p) \/ ReleaseLock(p) \/ CloseReturns(p) \/ Exit(p)

LifeSpec == LifeInit /\ [][LifeNext]_lifevars
-----------------------------------------------------------------------------
(* Properties. *)

Stages == {"down", "listen", "probe", "bind", "up", "closing", "closed", "failed", "gone"}
Item == {Nobody, "deleted", "pending", "open", "cancelled", "closed"}

\* Every variable has its type.
NodeLifeTypeOK ==
  /\ stage \in [Proc -> Stages] /\ tried \in [Proc -> 0 .. Len(Addrs)]
  /\ lock \in [Addr -> Proc \cup {Nobody}] /\ bound \subseteq Proc \X Addr
  /\ future \in [Proc -> [Id -> Item]] /\ turn \in [Proc -> [Id -> Item]]
  /\ walk \in [Proc -> [table : {Nobody, "turn", "pipes", "servers"},
                        seen : SUBSET Id, size : 0 .. Cardinality(Id),
                        awaits : SUBSET Id]]
  /\ passed \in [Proc -> SUBSET ({"turn", "pipes"} \X Id)]
  /\ held \in [Proc -> SUBSET ({"turn", "pipes"} \X Id)]

\* Two processes never listen at one address, however their steps between
\* the lock, the probe and the bind interleave, and whatever the system
\* allows ("Reusing address can hide socket errors and make servers appear
\* broken when they're not", p2p_node.py:3).
OneServerPerAddress ==
  \A p, q \in Proc, a \in Addr : <<p, a>> \in bound /\ <<q, a>> \in bound => p = q

\* A close that returns has closed every pipe and client that was open when it
\* began, stopped every server and released every lock, though attempts put
\* and deleted entries while it awaited others: except those its loops passed
\* over, no more of a table than were deleted from it.
CloseReleases ==
  \A p \in Proc : stage[p] = "closed" =>
    /\ \A x \in held[p] :
         (IF x[1] = "turn" THEN turn ELSE future)[p][x[2]] = "open" => x \in passed[p]
    /\ Cardinality(Of("turn", passed[p])) <= Cardinality(Deleted(turn[p]))
    /\ Cardinality(Of("pipes", passed[p])) <= Cardinality(Deleted(future[p]))
    /\ \A a \in Addr : <<p, a>> \notin bound /\ lock[a] # p
===============================================================================
