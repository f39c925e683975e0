---------------------------- MODULE ReliablePipe ----------------------------
(***************************************************************************)
(* Pipes with acknowledgements (RUDP): protocol/ack_udp.py and what        *)
(* net/pipe does with a datagram of such a pipe.                           *)
(*                                                                         *)
(* ack_send starts a task, the worker of the message, that transmits it    *)
(* until it is acknowledged or was sent Tries times.  A pipe that receives *)
(* a message starts a task that acknowledges it, drops it if the pipe      *)
(* wants unique messages and has seen its data, and else queues it for the *)
(* reader.  Datagrams are lost, repeated, delayed and reordered.           *)
(***************************************************************************)
EXTENDS Naturals, FiniteSets, Sequences

CONSTANTS End,          \* the pipes
          Message,      \* the messages of the run, each with its sequence number
          From, To,     \* the pipes of a message
          Data,         \* its data: two messages may have the same
          Closable,     \* the pipes that may be closed in the run
          Tries,        \* how often ack_send transmits
          MaxDict,      \* UDP_MAX_DICT_LEN
          UniqueMsgs,   \* enable_msg_ids
          MaxIds,       \* max_msg_ids
          MaxQueue      \* max_qsize (0, the default, is no limit; it is not modelled)

ASSUME PipeAssumption ==
  /\ From \in [Message -> End] /\ To \in [Message -> End]
  /\ IsFiniteSet(Message) /\ Closable \subseteq End
  /\ Tries \in Nat \ {0} /\ MaxDict \in Nat /\ MaxIds \in Nat
  /\ UniqueMsgs \in BOOLEAN /\ MaxQueue \in Nat \ {0}

VARIABLES
  worker,  \* per message: "new", "ready" (the task is made), "wait" (for an
           \* ack), "done", or "error" (it raised, or was cancelled)
  sends,   \* per message: how often it was transmitted
  seq,     \* per pipe: the messages of stream.seq, which waits for their acks
  event,   \* the messages whose event is set
  acks,    \* the messages with a task that is about to acknowledge them
  net,     \* the datagrams, for ever: one may arrive late, often, or never
  ids,     \* per pipe: msg_ids, the data it has seen
  queue,   \* per pipe: what its subscription holds for the reader
  life,    \* per pipe: "open", "closing", "closed"
  group,   \* per pipe: the messages whose workers close waits for
  arrived, \* history: the messages that reached their pipe
  routed,  \* history: how often a message was queued (at most 2 is counted)
  reset    \* history: the pipes whose table seq was full once

tasks == <<worker, sends, seq, event>>
inbox == <<ids, queue, arrived, routed>>
vars == <<tasks, acks, net, inbox, life, group, reset>>

\* The sender is part of what makes a message unique.
Id(m) == <<From[m], Data[m]>>
Running(m) == worker[m] \in {"ready", "wait"}
Transmitted(m) == IF life[From[m]] = "closed" THEN {} ELSE {<<"msg", m>>}

Init ==
  /\ worker = [m \in Message |-> "new"] /\ sends = [m \in Message |-> 0]
  /\ seq = [e \in End |-> {}] /\ event = {} /\ acks = {} /\ net = {}
  /\ ids = [e \in End |-> {}] /\ queue = [e \in End |-> <<>>]
  /\ life = [e \in End |-> "open"] /\ group = [e \in End |-> {}]
  /\ arrived = {} /\ routed = [m \in Message |-> 0] /\ reset = {}

-----------------------------------------------------------------------------
(***************************************************************************)
(* Sending.                                                                *)
(***************************************************************************)
AckSend(m) ==
  /\ worker[m] = "new"
  /\ worker' = [worker EXCEPT ![m] = "ready"]
  /\ seq' = [seq EXCEPT ![From[m]] = @ \cup {m}]
  /\ UNCHANGED <<sends, event, acks, net, inbox, life, group, reset>>

\* The worker ends: its number leaves the table.
Ends(m, how) ==
  /\ worker' = [worker EXCEPT ![m] = how]
  /\ seq' = IF how = "done" THEN [seq EXCEPT ![From[m]] = @ \ {m}] ELSE seq

\* A bug: the transmissions are not counted.
TransmitUncounted(m) ==
  /\ net' = net \cup Transmitted(m)
  /\ IF sends[m] >= Tries THEN Ends(m, "done")
     ELSE IF m \notin seq[From[m]] THEN Ends(m, "error")
     ELSE worker' = [worker EXCEPT ![m] = "wait"] /\ UNCHANGED seq
  /\ UNCHANGED sends

\* One turn of the worker's loop: it transmits, and after the last time it
\* does not wait; a number that is no longer in the table is a KeyError.
Transmit(m) ==
  /\ sends' = [sends EXCEPT ![m] = @ + 1]
  /\ net' = net \cup Transmitted(m)
  /\ IF sends'[m] >= Tries THEN Ends(m, "done")
     ELSE IF m \notin seq[From[m]] THEN Ends(m, "error")
     ELSE worker' = [worker EXCEPT ![m] = "wait"] /\ UNCHANGED seq

Begin(m) ==
  /\ worker[m] = "ready" /\ Transmit(m)
  /\ UNCHANGED <<event, acks, inbox, life, group, reset>>

WaitTimesOut(m) ==
  /\ worker[m] = "wait" /\ m \notin event /\ Transmit(m)
  /\ UNCHANGED <<event, acks, inbox, life, group, reset>>

Acknowledged(m) ==
  /\ worker[m] = "wait" /\ m \in event /\ Ends(m, "done")
  /\ UNCHANGED <<sends, event, acks, net, inbox, life, group, reset>>

-----------------------------------------------------------------------------
(***************************************************************************)
(* Receiving.                                                              *)
(***************************************************************************)
\* A bug: an acknowledgement counts for all messages.
ReceiveAckForAll(m) ==
  /\ <<"ack", m>> \in net /\ life[From[m]] # "closed"
  /\ event' = event \cup seq[From[m]]
  /\ UNCHANGED <<worker, sends, seq, acks, net, inbox, life, group, reset>>

\* handle_ack of an acknowledgement: it is not routed.
ReceiveAck(m) ==
  /\ <<"ack", m>> \in net /\ life[From[m]] # "closed"
  /\ event' = IF m \in seq[From[m]] THEN event \cup {m} ELSE event
  /\ UNCHANGED <<worker, sends, seq, acks, net, inbox, life, group, reset>>

\* A bug: the IDs are dropped when the table is full, not when it is over.
RememberShort(e) == IF Cardinality(ids[e]) >= MaxIds THEN {} ELSE ids[e]

\* is_unique_msg forgets all IDs when it holds more than it may.
Remember(e) == IF Cardinality(ids[e]) > MaxIds THEN {} ELSE ids[e]

\* do_add: a full queue loses its oldest message.
Queue(q, m) == Append(IF Len(q) >= MaxQueue THEN Tail(q) ELSE q, m)

\* handle_data, route_msg and add_msg.
Route(e, m) ==
  LET known == Remember(e) IN
  IF UniqueMsgs /\ Id(m) \in known
    THEN ids' = [ids EXCEPT ![e] = known] /\ UNCHANGED <<queue, routed>>
    ELSE /\ ids' = IF UniqueMsgs THEN [ids EXCEPT ![e] = known \cup {Id(m)}] ELSE ids
         /\ queue' = [queue EXCEPT ![e] = Queue(@, m)]
         /\ routed' = [routed EXCEPT ![m] = IF @ < 2 THEN @ + 1 ELSE 2]

\* handle_ack of a message: one of our own that comes back counts as its own
\* acknowledgement, any other is acknowledged every time.  The table of the
\* messages that wait for acks is emptied when it is too long.
ReceiveMsg(m) ==
  LET e == To[m]
      full == Cardinality(seq[e]) > MaxDict
  IN
  /\ <<"msg", m>> \in net /\ life[e] # "closed"
  /\ IF m \in seq[e] THEN event' = event \cup {m} /\ UNCHANGED acks
     ELSE acks' = acks \cup {m} /\ UNCHANGED event
  /\ seq' = IF full THEN [seq EXCEPT ![e] = {}] ELSE seq
  /\ reset' = IF full THEN reset \cup {e} ELSE reset
  /\ arrived' = arrived \cup {m}
  /\ Route(e, m)
  /\ UNCHANGED <<worker, sends, net, life, group>>

SendAck(m) ==
  /\ m \in acks /\ acks' = acks \ {m}
  /\ net' = IF life[To[m]] = "closed" THEN net ELSE net \cup {<<"ack", m>>}
  /\ UNCHANGED <<tasks, inbox, life, group, reset>>

\* recv of the subscription to everything.
Recv(e) ==
  /\ queue[e] # <<>>
  /\ queue' = [queue EXCEPT ![e] = Tail(@)]
  /\ UNCHANGED <<tasks, acks, net, ids, arrived, routed, life, group, reset>>

-----------------------------------------------------------------------------
(***************************************************************************)
(* Closing.  close sets the events of all messages, so that their workers  *)
(* end, and gathers the workers for at most 4 s.                           *)
(***************************************************************************)
\* A bug: the events are not set.
CloseWaits(e) ==
  /\ life[e] = "open"
  /\ life' = [life EXCEPT ![e] = "closing"]
  /\ group' = [group EXCEPT ![e] = {m \in Message : From[m] = e /\ Running(m)}]
  /\ UNCHANGED <<tasks, acks, net, inbox, reset>>

Close(e) ==
  /\ life[e] = "open"
  /\ life' = [life EXCEPT ![e] = "closing"]
  /\ event' = event \cup seq[e]
  /\ group' = [group EXCEPT ![e] = {m \in Message : From[m] = e /\ Running(m)}]
  /\ UNCHANGED <<worker, sends, seq, acks, net, inbox, reset>>

\* gather ends when all workers have, or one of them raised.
Gathered(e) ==
  /\ life[e] = "closing"
  /\ \/ \A m \in group[e] : worker[m] = "done"
     \/ \E m \in group[e] : worker[m] = "error"
  /\ life' = [life EXCEPT ![e] = "closed"]
  /\ UNCHANGED <<tasks, acks, net, inbox, group, reset>>

GatherTimesOut(e) ==
  /\ life[e] = "closing"
  /\ \E m \in group[e] : Running(m)
  /\ worker' = [m \in Message |->
                  IF m \in group[e] /\ Running(m) THEN "error" ELSE worker[m]]
  /\ life' = [life EXCEPT ![e] = "closed"]
  /\ UNCHANGED <<sends, seq, event, acks, net, inbox, group, reset>>

TaskStep(m) == Begin(m) \/ WaitTimesOut(m) \/ Acknowledged(m)

Next ==
  \/ \E m \in Message : \/ AckSend(m) \/ TaskStep(m) \/ ReceiveAck(m)
                        \/ ReceiveMsg(m) \/ SendAck(m)
  \/ \E e \in Closable : Close(e)
  \/ \E e \in End : Recv(e) \/ Gathered(e) \/ GatherTimesOut(e)

Spec == Init /\ [][Next]_vars

\* The event loop runs its tasks and timers; the network owes nothing.
FairSpec ==
  /\ Spec
  /\ \A m \in Message : WF_vars(TaskStep(m)) /\ WF_vars(SendAck(m))
  /\ \A e \in End : WF_vars(Gathered(e) \/ GatherTimesOut(e))

-----------------------------------------------------------------------------
(***************************************************************************)
(* Properties.                                                             *)
(***************************************************************************)
\* Every variable has its type; a worker transmits at most Tries times.
TypeOK ==
  /\ worker \in [Message -> {"new", "ready", "wait", "done", "error"}]
  /\ sends \in [Message -> 0 .. Tries]
  /\ seq \in [End -> SUBSET Message] /\ group \in [End -> SUBSET Message]
  /\ event \subseteq Message /\ acks \subseteq Message /\ arrived \subseteq Message
  /\ net \subseteq {"msg", "ack"} \X Message
  /\ ids \in [End -> SUBSET {Id(m) : m \in Message}]
  /\ queue \in [End -> Seq(Message)] /\ \A e \in End : Len(queue[e]) <= MaxQueue
  /\ life \in [End -> {"open", "closing", "closed"}]
  /\ routed \in [Message -> 0 .. 2] /\ reset \subseteq End

\* A message is acknowledged only after it reached the other pipe, except
\* that close tells every waiting sender that its message was.
AckedArrived ==
  \A m \in event : m \in arrived \/ life[From[m]] # "open"

\* "Supports dropping duplicate messages": the reader gets the data of a peer
\* once, however often it is sent again, if the IDs of all data fit in its table.
RoutedOnce ==
  UniqueMsgs =>
    \A m, n \in Message :
      (/\ To[m] = To[n] /\ Id(m) = Id(n)
       /\ Cardinality({Id(k) : k \in {j \in Message : To[j] = To[m]}}) <= MaxIds) =>
        IF m = n THEN routed[m] <= 1 ELSE routed[m] = 0 \/ routed[n] = 0

\* While a worker waits its message is in the table, so that an
\* acknowledgement ends the wait and the message is not sent again - as long
\* as the table was never emptied.
WaitersListed ==
  \A m \in Message :
    worker[m] = "wait" /\ From[m] \notin reset => m \in seq[From[m]]

\* close leaves nobody waiting for an acknowledgement that cannot come.
ClosedTells ==
  \A e \in End \ reset : life[e] # "open" =>
    \A m \in group[e] : worker[m] = "wait" => m \in event

\* Whatever the peer and the network do, a worker ends.
SendEnds ==
  \A m \in Message : (worker[m] = "ready") ~> (worker[m] \in {"done", "error"})
=============================================================================
