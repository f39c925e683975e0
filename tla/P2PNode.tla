------------------------------- MODULE P2PNode -------------------------------
(***************************************************************************)
(* How nodes of P2PD set up pipes with each other (src/src/p2pd/node).     *)
(*                                                                         *)
(* An application calls P2PNode.connect.  The call tries its techniques in *)
(* order, one attempt at a time; every attempt has a random pipe ID, an    *)
(* entry for it in the table of pipe futures (node.pipes) and a time limit.*)
(* Reverse connect, hole punching and relaying involve the other node: a   *)
(* signalling message with the pipe ID makes it start a task of its own    *)
(* for the same ID.  Messages may be lost, repeated (one message is sent   *)
(* over two brokers), delayed past their TTL or delivered out of order, and*)
(* a time limit may pass at any await: asyncio runs one task at a time, so *)
(* a step of this module is what happens between two awaits.               *)
(*                                                                         *)
(* The tasks of a node for one pipe ID are "I", the attempt of its own     *)
(* connect call, and "H", the task that handles the other node's message.  *)
(***************************************************************************)
EXTENDS Integers, Sequences, FiniteSets

CONSTANTS Node,        \* the nodes
          Calls,       \* the connect calls of the applications: <<from, to>>,
                       \* <<n, n>> is a node that connects to itself
          Pid,         \* the pipe IDs the run can draw
          Named,       \* TRUE: connect is given a nickname and asks the
                       \* peer for its current address first
          Strategies,  \* the techniques of the call, in order (again for
                       \* each address family)
          AddrTypes,   \* conf["addr_types"], in order
          NPairs,      \* how many (our interface, their interface) pairs
          MaxPairs,    \* technique -> most pairs it tries
          MaxPunchers  \* processes of the punching pool

Technique == {"direct", "reverse", "punch", "relay"}
AddrType  == {"ext", "nic"}
Role      == {"I", "H"}
Callers   == {c[1] : c \in Calls}

ASSUME NodeAssumption ==
  /\ Calls \subseteq Node \X Node
  /\ Named \in BOOLEAN
  /\ Strategies \in Seq(Technique)
  /\ AddrTypes \in Seq(AddrType) /\ Len(AddrTypes) > 0
  /\ NPairs \in Nat \ {0}
  /\ MaxPairs \in [Technique -> Nat \ {0}]
  /\ MaxPunchers \in Nat

VARIABLES
  pc,        \* per node: where its connect call is
  dest,      \* per node: the node it connects to
  cur,       \* per node: {} or the ID of the attempt it makes
  pos,       \* per node: the loop indices of its next attempt
  att,       \* per pipe ID: the attempt that drew it
  entry,     \* per node, ID: node.pipes (addr_futures for "getaddr")
  task,      \* per node, ID, role: where the task is
  immune,    \* tasks whose cancellation was swallowed by a bare except
  seen,      \* per node: SigProtoHandlers.seen
  net,       \* signalling messages: <<to, ID>>
  conid,     \* CON_ID lines on their way down a TCP connection: <<to, ID>>
  open,      \* TCP pipes by node and ID
  turn,      \* per node, ID: node.turn_clients
  alloc,     \* tasks that hold, in a local variable of get_turn_client, a
             \* client whose relay is allocated
  punch,     \* per node, ID: state of the puncher in tcp_punch_clients
  sched,     \* punches waiting for their start: <<node, ID>>
  punching,  \* punches running in the process pool
  hole,      \* IDs whose SYNs crossed
  active     \* per node: active_punchers

conn == <<pc, dest, cur, pos>>
signals == <<seen, net, conid, open>>
relays == <<turn, alloc>>
punches == <<punch, sched, punching, hole, active>>
vars == <<pc, dest, cur, pos, att, entry, task, immune, seen, net, conid, open, turn,
          alloc, punch, sched, punching, hole, active>>

NoAttempt == [kind |-> "none"]
Attempt   == [kind : Technique \cup {"getaddr"}, src : Node, dst : Node,
              addr : AddrType]
Position  == [s : Nat \ {0}, a : 1 .. Len(AddrTypes), k : 1 .. NPairs,
              cnt : Nat \ {0}]

TaskState == {"none",     \* no such task
              "queued",   \* a message was accepted, connect([strategy]) is due
              "new",      \* its technique's function is about to run
              "open", "send", "predict", "setup", "accept",
              "await",    \* waits for the future in the table
              "lost",     \* the future it waits for left the table unresolved
              "late",     \* ... or left the table after it was resolved
              "ok",       \* the function returned a pipe
              "failed",   \* it returned nothing, cleanup is due
              "closing",  \* turn_cleanup waits for the client to close
              "done"}     \* ended without a pipe
\* A future of the table: none, not done, cancelled by a time limit, set.
EntryState == {"absent", "pending", "cancelled", "pipe"}
PunchState == {"none", "initiated", "received", "updated"}
Waiting == {"open", "send", "predict", "setup", "accept",
            "await", "lost", "late"}

PeerOf(n, p) == IF n = att[p].src THEN att[p].dst ELSE att[p].src

\* What the task runs: the handler of ConMsg connects back directly.
Func(p, r) == IF r = "H" /\ att[p].kind = "reverse" THEN "direct"
                                                    ELSE att[p].kind

(***************************************************************************)
(* The table of pipe futures.                                              *)
(***************************************************************************)
\* A bug: pipe_ready without its check of done().
ReadyUnchecked(n, p) == entry' = [entry EXCEPT ![n][p] =
                                    IF @ = "absent" THEN @ ELSE "pipe"]

\* pipe_ready: only a future that is in the table and not done is set.
Ready(n, p) == entry' = [entry EXCEPT ![n][p] =
                           IF @ = "pending" THEN "pipe" ELSE @]

\* del pipes[pipe_id]: a task that waits for the future keeps a reference.
Orphan(n, p, st) == IF st # "await" THEN st
                    ELSE IF entry[n][p] = "pipe" THEN "late" ELSE "lost"
Remove(n, p, r) ==
  /\ entry' = [entry EXCEPT ![n][p] = "absent"]
  /\ task' = [task EXCEPT ![n][p] =
                [q \in Role |-> IF q = r THEN "done" ELSE Orphan(n, p, @[q])]]

SetTask(n, p, r, st) == task' = [task EXCEPT ![n][p][r] = st]
SendTo(n, p) == net' = net \cup {<<n, p>>}

-----------------------------------------------------------------------------
Init ==
  /\ pc = [n \in Node |-> "idle"]
  /\ dest = [n \in Node |-> n]
  /\ cur = [n \in Node |-> {}]
  /\ pos = [n \in Node |-> [s |-> 1, a |-> 1, k |-> 1, cnt |-> 1]]
  /\ att = [p \in Pid |-> NoAttempt]
  /\ entry = [n \in Node |-> [p \in Pid |-> "absent"]]
  /\ task = [n \in Node |-> [p \in Pid |-> [r \in Role |-> "none"]]]
  /\ immune = {}
  /\ seen = [n \in Node |-> {}]
  /\ net = {} /\ conid = {} /\ open = {}
  /\ turn = [n \in Node |-> [p \in Pid |-> "none"]] /\ alloc = {}
  /\ punch = [n \in Node |-> [p \in Pid |-> "none"]]
  /\ sched = {} /\ punching = {} /\ hole = {}
  /\ active = [n \in Node |-> 0]

(***************************************************************************)
(* The connect call.                                                       *)
(***************************************************************************)
\* connect(dest): a nickname is looked up first.
Connect(n, d) ==
  /\ <<n, d>> \in Calls /\ pc[n] = "idle"
  /\ pc' = [pc EXCEPT ![n] = IF Named THEN "name" ELSE "loop"]
  /\ dest' = [dest EXCEPT ![n] = d]
  /\ UNCHANGED <<cur, pos, att, entry, task, immune, signals, relays, punches>>

\* The name servers did not answer: fetch returns None and connect raises.
NameFails(n) ==
  /\ pc[n] = "name"
  /\ pc' = [pc EXCEPT ![n] = "failed"]
  /\ UNCHANGED <<dest, cur, pos, att, entry, task, immune, signals, relays, punches>>

\* The name resolved: ask the node itself for its current address.
NameResolves(n, p) ==
  /\ pc[n] = "name" /\ att[p] = NoAttempt
  /\ pc' = [pc EXCEPT ![n] = "addr"]
  /\ cur' = [cur EXCEPT ![n] = {p}]
  /\ att' = [att EXCEPT ![p] = [kind |-> "getaddr", src |-> n,
                                dst |-> dest[n], addr |-> "ext"]]
  /\ entry' = [entry EXCEPT ![n][p] = "pending"]
  /\ SetTask(n, p, "I", "await")
  /\ SendTo(dest[n], p)
  /\ UNCHANGED <<dest, pos, immune, seen, conid, open, relays, punches>>

\* wait_for(addr_futures[pipe_id], 5): an answer, or the five seconds pass,
\* which cancels the future.  Either way the techniques are tried.
AddrKnown(n, p) ==
  /\ pc[n] = "addr" /\ p \in cur[n]
  /\ entry' = [entry EXCEPT ![n][p] = IF @ = "pending" THEN "cancelled" ELSE @]
  /\ SetTask(n, p, "I", IF entry[n][p] = "pipe" THEN "ok" ELSE "done")
  /\ pc' = [pc EXCEPT ![n] = "loop"]
  /\ cur' = [cur EXCEPT ![n] = {}]
  /\ UNCHANGED <<dest, pos, att, immune, signals, relays, punches>>

\* for_addr_infos and the loop over strategies: where the next attempt is.
NextPosition(at) ==
  LET next == [s |-> at.s + 1, a |-> 1, k |-> 1, cnt |-> 1] IN
  IF at.cnt + 1 > MaxPairs[Strategies[at.s]] THEN next
  ELSE IF at.k < NPairs
    THEN [s |-> at.s, a |-> at.a, k |-> at.k + 1, cnt |-> at.cnt + 1]
  ELSE IF at.a < Len(AddrTypes)
    THEN [s |-> at.s, a |-> at.a + 1, k |-> 1, cnt |-> 1]
  ELSE next

\* A bug: the next attempt is made while one is still running.
LoopResumesEarly(n) == pc[n] = "loop"

\* The loop goes on only when the attempt before it ended without a pipe.
LoopResumes(n) == /\ pc[n] = "loop"
                  /\ \A p \in cur[n] : task[n][p]["I"] = "done"

Connected(n) == /\ pc[n] = "loop"
                /\ \E p \in cur[n] : task[n][p]["I"] = "ok"

\* try_addr_infos for the call: a new ID and its future, then the address to
\* use.  There may be none for the pair, and the attempt returns at once.
StartAttempt(n, p) ==
  /\ LoopResumes(n) /\ pos[n].s <= Len(Strategies) /\ att[p] = NoAttempt
  /\ cur' = [cur EXCEPT ![n] = {p}]
  /\ pos' = [pos EXCEPT ![n] = NextPosition(@)]
  /\ att' = [att EXCEPT ![p] = [kind |-> Strategies[pos[n].s], src |-> n,
                                dst |-> dest[n],
                                addr |-> AddrTypes[pos[n].a]]]
  /\ entry' = [entry EXCEPT ![n][p] = "pending"]
  /\ \E st \in {"new", "done"} : SetTask(n, p, "I", st)
  /\ UNCHANGED <<pc, dest, immune, signals, relays, punches>>

ConnectFails(n) ==
  /\ LoopResumes(n) /\ pos[n].s > Len(Strategies)
  /\ pc' = [pc EXCEPT ![n] = "failed"]
  /\ UNCHANGED <<dest, cur, pos, att, entry, task, immune, signals, relays, punches>>

(***************************************************************************)
(* Signalling.                                                             *)
(***************************************************************************)
\* A bug: the IDs that were seen are not looked up.
DeliverAgain(n, p) ==
  /\ <<n, p>> \in net /\ att[p].kind # "getaddr"
  /\ seen' = [seen EXCEPT ![n] = @ \cup {p}]
  /\ SetTask(n, p, "H", "queued")
  /\ UNCHANGED <<conn, att, entry, net, immune, conid, open, relays, punches>>

\* SigProtoHandlers.proto on a message whose ID was not seen.  The ID is
\* recorded before the TTL is checked, so a message that expired, or is
\* refused for what it holds, uses it up.  So does an address that comes after
\* the wait for it ended: its set_result raises, which proto logs.
Deliver(n, p) ==
  /\ <<n, p>> \in net /\ p \notin seen[n]
  /\ seen' = [seen EXCEPT ![n] = @ \cup {p}]
  /\ \/ UNCHANGED <<entry, task, net>>
     \/ /\ att[p].kind # "getaddr"
        /\ SetTask(n, p, "H", "queued")
        /\ UNCHANGED <<entry, net>>
     \/ /\ att[p].kind = "getaddr" /\ n # att[p].src    \* GetAddr
        /\ SendTo(att[p].src, p)
        /\ UNCHANGED <<entry, task>>
     \/ /\ att[p].kind = "getaddr" /\ n = att[p].src    \* ReturnAddr
        /\ entry[n][p] = "pending"
        /\ entry' = [entry EXCEPT ![n][p] = "pipe"]
        /\ UNCHANGED <<task, net>>
  /\ UNCHANGED <<conn, att, immune, conid, open, relays, punches>>

\* try_addr_infos for a message: its ID and, if there is none, a future.
StartHandler(n, p) ==
  /\ task[n][p]["H"] = "queued"
  /\ entry' = [entry EXCEPT ![n][p] = IF @ = "absent" THEN "pending" ELSE @]
  /\ \E st \in {"new", "done"} : SetTask(n, p, "H", st)
  /\ UNCHANGED <<conn, att, immune, signals, relays, punches>>

(***************************************************************************)
(* direct_connect and reverse_connect.                                     *)
(***************************************************************************)
OpenPipe(n, p, r) ==
  /\ task[n][p][r] = "new" /\ Func(p, r) = "direct"
  /\ SetTask(n, p, r, "open")
  /\ UNCHANGED <<conn, att, entry, immune, signals, relays, punches>>

\* A bug: the ID is on its way to the peer before the send was waited for.
PipeOpenedTold(n, p, r) ==
  /\ task[n][p][r] = "open"
  /\ open' = open \cup {<<n, p>>, <<PeerOf(n, p), p>>}
  /\ conid' = conid \cup {<<PeerOf(n, p), p>>}
  /\ SetTask(n, p, r, "send")
  /\ UNCHANGED <<conn, att, entry, immune, seen, net, relays, punches>>

PipeOpened(n, p, r) ==
  /\ task[n][p][r] = "open"
  /\ open' = open \cup {<<n, p>>, <<PeerOf(n, p), p>>}
  /\ SetTask(n, p, r, "send")
  /\ UNCHANGED <<conn, att, entry, immune, seen, net, conid, relays, punches>>

PipeRefused(n, p, r) ==
  /\ task[n][p][r] = "open"
  /\ SetTask(n, p, r, "failed")
  /\ UNCHANGED <<conn, att, entry, immune, signals, relays, punches>>

\* The peer is told the ID, and the pipe is registered here.
SendConId(n, p, r) ==
  /\ task[n][p][r] = "send"
  /\ conid' = conid \cup {<<PeerOf(n, p), p>>}
  /\ Ready(n, p)
  /\ SetTask(n, p, r, "ok")
  /\ UNCHANGED <<conn, att, immune, seen, net, open, relays, punches>>

\* node_protocol: an ID nobody expects gets a future of its own.
RecvConId(n, p) ==
  /\ <<n, p>> \in conid
  /\ conid' = conid \ {<<n, p>>}
  /\ entry' = [entry EXCEPT ![n][p] =
                 IF @ \in {"absent", "pending"} THEN "pipe" ELSE @]
  /\ UNCHANGED <<conn, att, task, immune, seen, net, open, relays, punches>>

ReverseConnect(n, p) ==
  /\ task[n][p]["I"] = "new" /\ Func(p, "I") = "reverse"
  /\ SendTo(PeerOf(n, p), p)
  /\ SetTask(n, p, "I", "await")
  /\ UNCHANGED <<conn, att, entry, immune, seen, conid, open, relays, punches>>

\* await self.node.pipes[pipe_id] returns.
PipeArrives(n, p, r) ==
  /\ \/ task[n][p][r] = "await" /\ entry[n][p] = "pipe" /\ Func(p, r) # "getaddr"
     \/ task[n][p][r] = "late"
  /\ SetTask(n, p, r, "ok")
  /\ UNCHANGED <<conn, att, entry, immune, signals, relays, punches>>

(***************************************************************************)
(* tcp_hole_punch.                                                         *)
(***************************************************************************)
\* A bug: an initiator that gets the reply becomes a recipient.
PuncherStatesMixed(got, state) ==
  IF got THEN {"received"} ELSE IF state = "none" THEN {"initiated"} ELSE {}

\* tcp_puncher_states: {} when the progression is invalid and it raises.
PuncherStates(got, state) ==
  {to \in PunchState :
     <<got, state, to>> \in {<<FALSE, "none", "initiated">>,
                             <<TRUE,  "none", "received">>,
                             <<TRUE,  "initiated", "updated">>}}

\* The puncher of the ID is found or made, and its state moves on.  The end is
\* near for an update; predictions are fetched otherwise.  No STUN clients, an
\* address that is not the puncher's or an invalid progression: a failure.
PunchProto(n, p, r) ==
  /\ task[n][p][r] = "new" /\ Func(p, r) = "punch"
  /\ \/ \E to \in PuncherStates(r = "H", punch[n][p]) :
          /\ punch' = [punch EXCEPT ![n][p] = to]
          /\ SetTask(n, p, r, IF to = "updated" THEN "ok" ELSE "predict")
     \/ SetTask(n, p, r, "failed") /\ UNCHANGED punch
  /\ UNCHANGED <<conn, att, entry, immune, signals, relays,
                 sched, punching, hole, active>>

\* The port predictions are made: punching is scheduled, they are sent to the
\* peer, and the task waits (not if its table entry is gone: KeyError).
Predicted(n, p, r) ==
  /\ task[n][p][r] = "predict"
  /\ active' = [active EXCEPT ![n] = IF @ < MaxPunchers THEN @ + 1
                                                        ELSE MaxPunchers]
  /\ sched' = sched \cup {<<n, p>>}
  /\ SendTo(PeerOf(n, p), p)
  /\ SetTask(n, p, r, IF entry[n][p] = "absent" THEN "failed" ELSE "await")
  /\ UNCHANGED <<conn, att, entry, immune, seen, conid, open, relays,
                 punch, punching, hole>>

PredictFails(n, p, r) ==
  /\ task[n][p][r] = "predict"
  /\ SetTask(n, p, r, "failed")
  /\ UNCHANGED <<conn, att, entry, immune, signals, relays, punches>>

\* schedule_punching_with_delay, punch_queue_worker, setup_punching_process.
StartPunching(n, p) ==
  /\ <<n, p>> \in sched
  /\ sched' = sched \ {<<n, p>>}
  /\ punching' = punching \cup {<<n, p>>}
  /\ UNCHANGED <<conn, att, entry, task, immune, signals, relays,
                 punch, hole, active>>

\* The SYNs of both sides cross.
Punched(p) ==
  /\ att[p] # NoAttempt /\ p \notin hole
  /\ {<<att[p].src, p>>, <<att[p].dst, p>>} \subseteq punching
  /\ hole' = hole \cup {p}
  /\ UNCHANGED <<conn, att, entry, task, immune, signals, relays,
                 punch, sched, punching, active>>

\* The process connects back to the node with the hole it made.
PunchReady(n, p) ==
  /\ <<n, p>> \in punching /\ p \in hole
  /\ punching' = punching \ {<<n, p>>}
  /\ open' = open \cup {<<n, p>>}
  /\ Ready(n, p)
  /\ UNCHANGED <<conn, att, task, immune, seen, net, conid, relays,
                 punch, sched, hole, active>>

\* The process ends without one.
PunchFails(n, p) ==
  /\ <<n, p>> \in punching
  /\ punching' = punching \ {<<n, p>>}
  /\ UNCHANGED <<conn, att, entry, task, immune, signals, relays,
                 punch, sched, hole, active>>

(***************************************************************************)
(* udp_turn_relay.                                                         *)
(***************************************************************************)
\* Nothing to do on a local address; otherwise the handler finds the client
\* of its node's own attempt, if it has one, or a client is made.
TurnRelay(n, p, r) ==
  /\ task[n][p][r] = "new" /\ Func(p, r) = "relay"
  /\ SetTask(n, p, r, IF att[p].addr = "nic" THEN "failed"
                      ELSE IF r = "H" /\ turn[n][p] # "none" THEN "accept"
                      ELSE "setup")
  /\ UNCHANGED <<conn, att, entry, immune, signals, relays, punches>>

\* get_turn_client: the server allocated a relay for the client it starts.
TurnAllocates(n, p, r) ==
  /\ task[n][p][r] = "setup" /\ <<n, p, r>> \notin alloc
  /\ alloc' = alloc \cup {<<n, p, r>>}
  /\ UNCHANGED <<conn, att, entry, task, immune, signals, turn, punches>>

\* The client did not finish its start in ten seconds: it is dropped as it is,
\* with its allocation and tasks, and the next server is tried.
TurnDropped(n, p, r) ==
  /\ <<n, p, r>> \in alloc
  /\ alloc' = alloc \ {<<n, p, r>>}
  /\ UNCHANGED <<conn, att, entry, task, immune, signals, turn, punches>>

\* A bug: a new client is announced before its peer is accepted.
TurnReadyEarly(n, p, r) ==
  /\ task[n][p][r] = "setup" /\ <<n, p, r>> \in alloc
  /\ alloc' = alloc \ {<<n, p, r>>}
  /\ turn' = [turn EXCEPT ![n][p] = "client"]
  /\ Ready(n, p)
  /\ SendTo(PeerOf(n, p), p)
  /\ SetTask(n, p, r, IF r = "H" THEN "accept" ELSE "await")
  /\ UNCHANGED <<conn, att, immune, seen, conid, open, punches>>

\* The start returned: the client goes to the table, over what is there.  The
\* handler has a peer to accept; the attempt sends its TURNMsg and waits
\* (KeyError, caught, if its table entry is gone).
TurnReady(n, p, r) ==
  /\ task[n][p][r] = "setup" /\ <<n, p, r>> \in alloc
  /\ alloc' = alloc \ {<<n, p, r>>}
  /\ turn' = [turn EXCEPT ![n][p] = "client"]
  /\ IF r = "H" THEN SetTask(n, p, r, "accept") /\ UNCHANGED net
     ELSE /\ SendTo(PeerOf(n, p), p)
          /\ SetTask(n, p, r, IF entry[n][p] = "absent" THEN "failed"
                                                        ELSE "await")
  /\ UNCHANGED <<conn, att, entry, immune, seen, conid, open, punches>>

\* No server is left: get_first_working_turn_client returns None, which is
\* stored, and the first use of the client raises.
TurnUnavailable(n, p, r) ==
  /\ task[n][p][r] = "setup" /\ <<n, p, r>> \notin alloc
  /\ turn' = [turn EXCEPT ![n][p] = "null"]
  /\ SetTask(n, p, r, "failed")
  /\ UNCHANGED <<conn, att, entry, alloc, immune, signals, punches>>

\* accept_peer worked: the client is the pipe.  The first time, our own
\* TURNMsg goes back and the future, just set, is awaited.
PeerAccepted(n, p, r) ==
  LET already == turn[n][p] = "accepted" IN
  /\ task[n][p][r] = "accept" /\ turn[n][p] \in {"client", "accepted"}
  /\ turn' = [turn EXCEPT ![n][p] = "accepted"]
  /\ Ready(n, p)
  /\ net' = IF already THEN net ELSE net \cup {<<PeerOf(n, p), p>>}
  /\ SetTask(n, p, r, IF already \/ entry[n][p] \in {"pending", "pipe"}
                        THEN "ok" ELSE "failed")
  /\ UNCHANGED <<conn, att, alloc, immune, seen, conid, open, punches>>

AcceptFails(n, p, r) ==
  /\ task[n][p][r] = "accept"
  /\ SetTask(n, p, r, "failed")
  /\ UNCHANGED <<conn, att, entry, immune, signals, relays, punches>>

(***************************************************************************)
(* Time limits and cleanup.                                                *)
(***************************************************************************)
\* A bug: every technique swallows the cancellation.
TimeoutSwallowed(n, p, r) ==
  /\ task[n][p][r] \in Waiting /\ <<n, p, r>> \notin immune
  /\ immune' = immune \cup {<<n, p, r>>}
  /\ UNCHANGED <<conn, att, entry, task, signals, relays, punches>>

\* async_wrap_errors(func, timeout): the task is cancelled, and with it the
\* future it awaits.  While a TURN server is tried the client being started
\* is dropped, as above, and a bare except swallows the cancellation: the
\* function goes on with no limit left.
Timeout(n, p, r) ==
  /\ task[n][p][r] \in Waiting /\ Func(p, r) # "getaddr"
  /\ <<n, p, r>> \notin immune
  /\ IF task[n][p][r] = "setup"
       THEN /\ immune' = immune \cup {<<n, p, r>>}
            /\ alloc' = alloc \ {<<n, p, r>>}
            /\ UNCHANGED <<entry, task>>
       ELSE /\ entry' = [entry EXCEPT ![n][p] =
                           IF task[n][p][r] = "await" /\ @ = "pending"
                             THEN "cancelled" ELSE @]
            /\ SetTask(n, p, r, "failed")
            /\ UNCHANGED <<alloc, immune>>
  /\ UNCHANGED <<conn, att, signals, turn, punches>>

\* tcp_punch_cleanup, if it is a punch, and the entry is deleted.
Cleanup(n, p, r) ==
  /\ task[n][p][r] = "failed"
  /\ Func(p, r) # "relay" \/ turn[n][p] = "none"
  /\ active' = [active EXCEPT ![n] =
                  IF Func(p, r) = "punch" /\ @ > 0 THEN @ - 1 ELSE @]
  /\ Remove(n, p, r)
  /\ UNCHANGED <<conn, att, immune, signals, relays,
                 punch, sched, punching, hole>>

\* A bug: the cleanup of a relay is that of the other techniques.
TurnCleanupSkipped(n, p, r) ==
  /\ task[n][p][r] = "failed" /\ Func(p, r) = "relay" /\ turn[n][p] # "none"
  /\ Remove(n, p, r)
  /\ UNCHANGED <<conn, att, immune, signals, relays, punches>>

\* turn_cleanup waits for the client to close; None.close() raises, and
\* then the entry stays.
TurnCleanup(n, p, r) ==
  /\ task[n][p][r] = "failed" /\ Func(p, r) = "relay" /\ turn[n][p] # "none"
  /\ SetTask(n, p, r, IF turn[n][p] = "null" THEN "done" ELSE "closing")
  /\ UNCHANGED <<conn, att, entry, immune, signals, relays, punches>>

\* The client closed.  If the other task's cleanup was first, the second
\* del raises KeyError and the entry stays.
TurnClosed(n, p, r) ==
  /\ task[n][p][r] = "closing"
  /\ turn' = [turn EXCEPT ![n][p] = "none"]
  /\ IF turn[n][p] # "none" THEN Remove(n, p, r)
     ELSE SetTask(n, p, r, "done") /\ UNCHANGED entry
  /\ UNCHANGED <<conn, att, alloc, immune, signals, punches>>

-----------------------------------------------------------------------------
CallStep(n) ==
  \/ NameFails(n)
  \/ \E p \in Pid : \/ NameResolves(n, p) \/ AddrKnown(n, p)
                    \/ StartAttempt(n, p)
  \/ ConnectFails(n)

\* What the event loop of the node does by itself for a task.
TaskStep(n, p, r) ==
  \/ r = "H" /\ StartHandler(n, p)
  \/ OpenPipe(n, p, r) \/ SendConId(n, p, r)
  \/ r = "I" /\ ReverseConnect(n, p)
  \/ PipeArrives(n, p, r)
  \/ PunchProto(n, p, r)
  \/ TurnRelay(n, p, r)
  \/ Timeout(n, p, r)
  \/ Cleanup(n, p, r) \/ TurnCleanup(n, p, r)

\* The servers tried for a client are few, each has a limit of its own, and
\* a client that is closed closes.
TurnProgress(n, p, r) ==
  TurnReady(n, p, r) \/ TurnUnavailable(n, p, r) \/ TurnClosed(n, p, r)

\* What depends on the network and on other machines.
Outcome(n, p, r) ==
  \/ PipeOpened(n, p, r) \/ PipeRefused(n, p, r)
  \/ Predicted(n, p, r) \/ PredictFails(n, p, r)
  \/ TurnAllocates(n, p, r) \/ TurnDropped(n, p, r) \/ TurnProgress(n, p, r)
  \/ PeerAccepted(n, p, r) \/ AcceptFails(n, p, r)

Arrival(n, p) ==
  \/ Deliver(n, p) \/ RecvConId(n, p)
  \/ StartPunching(n, p) \/ PunchReady(n, p) \/ PunchFails(n, p)

Next ==
  \/ \E n, d \in Node : Connect(n, d)
  \/ \E n \in Callers : CallStep(n)
  \/ \E n \in Node, p \in Pid : Arrival(n, p)
  \/ \E n \in Node, p \in Pid, r \in Role : TaskStep(n, p, r) \/ Outcome(n, p, r)
  \/ \E p \in Pid : Punched(p)

Spec == Init /\ [][Next]_vars

\* The event loop runs what is ready and its timers fire; the network, the
\* process pool and the other machine owe nothing.
Fairness ==
  /\ \A n \in Callers : WF_vars(CallStep(n))
  /\ \A n \in Node, p \in Pid, r \in Role :
       WF_vars(TaskStep(n, p, r)) /\ WF_vars(TurnProgress(n, p, r))

FairSpec == Spec /\ Fairness

-----------------------------------------------------------------------------
(***************************************************************************)
(* Properties.                                                             *)
(***************************************************************************)
\* Every variable has its type.
TypeOK ==
  /\ pc \in [Node -> {"idle", "name", "addr", "loop", "failed"}]
  /\ dest \in [Node -> Node]
  /\ cur \in [Node -> SUBSET Pid]
  /\ pos \in [Node -> Position]
  /\ att \in [Pid -> Attempt \cup {NoAttempt}]
  /\ entry \in [Node -> [Pid -> EntryState]]
  /\ task \in [Node -> [Pid -> [Role -> TaskState]]]
  /\ immune \subseteq Node \X Pid \X Role
  /\ seen \in [Node -> SUBSET Pid]
  /\ net \subseteq Node \X Pid /\ conid \subseteq Node \X Pid
  /\ open \subseteq Node \X Pid
  /\ turn \in [Node -> [Pid -> {"none", "null", "client", "accepted"}]]
  /\ alloc \subseteq Node \X Pid \X Role
  /\ punch \in [Node -> [Pid -> PunchState]]
  /\ sched \subseteq Node \X Pid /\ punching \subseteq Node \X Pid
  /\ hole \subseteq Pid
  /\ active \in [Node -> 0 .. MaxPunchers]

\* When connect returns a pipe the other node holds its end of it: it has the
\* socket of a direct pipe, its own task for a reverse connect has returned,
\* the SYNs of a hole punch did cross, and the TURN client of a relay has
\* accepted its peer on both sides (pipe_ready is reached only then).
EndsReady(n, p) ==
  LET m == att[p].dst IN
  CASE att[p].kind = "direct"  -> <<m, p>> \in open
    [] att[p].kind = "reverse" -> task[m][p]["H"] = "ok"
    [] att[p].kind = "punch"   -> p \in hole
    [] att[p].kind = "relay"   -> turn[n][p] = "accepted" /\ turn[m][p] = "accepted"

BothEndsReady ==
  \A n \in Callers : Connected(n) => \A p \in cur[n] : EndsReady(n, p)

\* The two punchers of an ID never disagree on who started: the handler is a
\* recipient only for an initiator, and an initiator is updated only by what
\* the recipient predicted (proto of TCPPuncher and its states).
PunchAgreement ==
  \A p \in Pid :
    (att[p].kind = "punch" /\ att[p].src # att[p].dst) =>
      LET mine == punch[att[p].src][p]
          peer == punch[att[p].dst][p]
      IN /\ mine \in {"none", "initiated", "updated"}
         /\ peer \in {"none", "received"}
         /\ peer = "received" => mine # "none"
         /\ mine = "updated" => peer = "received"

\* However often a message is delivered, and however late, a node handles an
\* ID once: SigProtoHandlers.seen.
Once == \A n \in Node, p \in Pid :
          task[n][p]["H"] # "none" =>
            \/ task'[n][p]["H"] \notin {"none", "queued"}
            \/ UNCHANGED task[n][p]["H"]
HandledOnce == [][Once]_vars

\* A pipe future that was set or cancelled is never given another result: it
\* only leaves the table.  (The handlers look at done() first, except that of
\* ReturnAddr, whose set_result raises.)
SettledOnce ==
  [][\A n \in Node, p \in Pid :
       entry[n][p] \in {"pipe", "cancelled"} =>
         entry'[n][p] \in {entry[n][p], "absent"}]_vars

\* The client of a relay, once its start returned, stays in reach of a task
\* that gives it up if the relay fails (turn_cleanup): one in the table belongs
\* to a task that still runs or returned it, and one that is being started to
\* a task that will put it where no other is (the table was looked at before
\* that await).  Clients dropped by get_turn_client are in nobody's reach.
RelaysInReach ==
  \A n \in Node, p \in Pid :
    /\ turn[n][p] \in {"client", "accepted"} =>
         \E r \in Role : task[n][p][r] \notin {"none", "done"}
    /\ \A r \in Role :
         <<n, p, r>> \in alloc => task[n][p][r] = "setup" /\ turn[n][p] = "none"

\* What connect promises its caller (module ConnectCall).
AttemptStatus(p) ==
  IF att[p].kind \in {"none", "getaddr"} THEN "unused"
  ELSE CASE task[att[p].src][p]["I"] = "ok"   -> "won"
         [] task[att[p].src][p]["I"] = "done" -> "lost"
         [] OTHER                             -> "trying"

CallStatus(n) ==
  IF pc[n] \in {"idle", "failed"} THEN pc[n]
  ELSE IF Connected(n) THEN "connected" ELSE "running"

Call == INSTANCE ConnectCall
  WITH Caller <- Callers,
       call   <- [n \in Callers |-> CallStatus(n)],
       status <- [p \in Pid |-> AttemptStatus(p)],
       owner  <- [p \in Pid |-> IF att[p].kind \in {"none", "getaddr"}
                                  THEN {} ELSE {att[p].src}]

\* Attempts are made one at a time; the first that returns a pipe ends the
\* call, and the call fails only after every attempt it made has ended.
ImplementsCall == Call!Spec

\* connect returns, a pipe or nothing: every await of its techniques is
\* under a time limit (async_wrap_errors in try_addr_infos).
ConnectReturns == \A n \in Callers : Call!Returns(n)
=============================================================================
