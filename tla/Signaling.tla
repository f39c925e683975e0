------------------------------ MODULE Signaling ------------------------------
(***************************************************************************)
(* The signal pipes of a node: which MQTT servers it loads, and which of   *)
(* them a message to a peer goes through (load_signal_pipes, await_peer_con*)
(* and sig_msg_dispatcher of node/p2p_node_extra.py, node/signaling.py).   *)
(*                                                                         *)
(* A message is published at up to RelayLimit of the servers in the peer's *)
(* address; where in that list the search starts depends on the technique  *)
(* the message is about.                                                   *)
(***************************************************************************)
EXTENDS Lists, SequencesExt

CONSTANTS MqttServers,  \* MQTT_SERVERS in the order derived from the node id
          Families,     \* how many address families the node supports
          MinSuccess,   \* min_success
          MaxAttempt,   \* max_attempt_no
          RelayLimit,   \* relay_no
          Messages      \* [signal: the peer's servers, m: the technique's number]

MqttServer == Range(MqttServers)

ASSUME SignalingAssumption ==
  /\ Families \in Nat \ {0} /\ MinSuccess \in Nat /\ MaxAttempt \in Nat
  /\ RelayLimit \in Nat \ {0}
  /\ \A x \in Messages : x.signal \in Seq(Nat) \ {<<>>} /\ x.m \in 0 .. 3

VARIABLES
  loading,   \* "signal" while load_signal_pipes runs, then "up"
  attempts,  \* the servers it has tried
  success,   \* its success count, over the address families
  pipes,     \* signal_pipes: the client of each loaded server
  queue,     \* sig_msg_queue
  current    \* the message the dispatcher relays, and how far it is

sigvars == <<loading, attempts, success, pipes, queue, current>>

NoMessage == [msg |-> {}, i |-> 0, count |-> 0, at |-> {}, raised |-> FALSE]

SigInit ==
  /\ loading = "signal" /\ attempts = 0 /\ success = 0
  /\ pipes = [s \in {} |-> {}] /\ queue = <<>> /\ current = NoMessage

\* is_valid_mqtt: the client it returns was made with a random peer id, for a
\* message to itself, and has been closed.  Its is_connected stays True.
ValidClient == [topic |-> "random", open |-> FALSE, is_connected |-> TRUE]

Loaded == DOMAIN pipes

\* load_signal_pipes, one server: it is tried once per address family, and
\* every success counts, though a server has one place in the table.
LoadSignalPipe ==
  /\ loading = "signal" /\ attempts < Len(MqttServers)
  /\ \E k \in 0 .. Families :
       /\ success' = success + k
       /\ pipes' = IF k = 0 THEN pipes
                   ELSE [s \in Loaded \cup {MqttServers[attempts + 1]} |-> ValidClient]
  /\ attempts' = attempts + 1
  /\ loading' = IF \/ success' >= Families * MinSuccess
                   \/ attempts' > MaxAttempt
                   \/ attempts' = Len(MqttServers)
                THEN "up" ELSE "signal"
  /\ UNCHANGED <<queue, current>>

\* route_msg: put_nowait.
RouteMsg(x) ==
  /\ loading = "up" /\ Len(queue) < 2
  /\ queue' = Append(queue, x)
  /\ UNCHANGED <<loading, attempts, success, pipes, current>>

\* A bug: the peer's order is kept.
PrioritizedNot(offsets) == offsets

\* prioritize_sig_pipe_overlap.
Prioritized(offsets) ==
  Keep(offsets, Loaded) \o Keep(offsets, Range(offsets) \ Loaded)

\* The server that step i of the loop is about; Python's % is never negative.
RelayOffset(x, i) ==
  Prioritized(x.signal)[((i + (x.m - 1)) % Len(x.signal)) + 1]

\* sig_msg_dispatcher takes the next message when the last one is done.
NextMessage ==
  /\ current.msg = {} /\ queue # <<>>
  /\ current' = [NoMessage EXCEPT !.msg = {Head(queue)}]
  /\ queue' = Tail(queue)
  /\ UNCHANGED <<loading, attempts, success, pipes>>

\* One step of await_peer_con's loop.  publish of a closed client sends
\* nothing, and is_connected makes it a success.  A server that is not loaded
\* should be: the call lacks an argument, and raises out of the loop.
RelayStep ==
  \E x \in current.msg :
    LET s == RelayOffset(x, current.i) IN
    /\ ~current.raised /\ current.i < Len(x.signal) /\ current.count < RelayLimit
    /\ IF s \notin Loaded
         THEN current' = [current EXCEPT !.raised = TRUE]
         ELSE \E sent \in BOOLEAN :
                current' = [current EXCEPT
                  !.i = @ + 1,
                  !.count = IF sent /\ pipes[s].is_connected THEN @ + 1 ELSE @,
                  !.at = @ \cup {s}]
    /\ UNCHANGED <<loading, attempts, success, pipes, queue>>

Relayed ==
  \E x \in current.msg :
    \/ current.raised \/ current.i = Len(x.signal) \/ current.count = RelayLimit

\* The dispatcher makes a task of itself for the next message.
MessageDone ==
  /\ Relayed
  /\ current' = NoMessage
  /\ UNCHANGED <<loading, attempts, success, pipes, queue>>

SigNext ==
  \/ LoadSignalPipe \/ NextMessage \/ RelayStep \/ MessageDone
  \/ \E x \in Messages : RouteMsg(x)

SigSpec == SigInit /\ [][SigNext]_sigvars

-----------------------------------------------------------------------------
(* Properties. *)

Shared(x) == Range(x.signal) \cap Loaded

\* A message of the first technique (a reverse connection, m = 1) is handed to
\* a server that both peers have, if there is one, whatever servers that are
\* not loaded stand before it in the peer's address.
SharedServerFirst ==
  \A x \in current.msg : Relayed /\ x.m = 1 /\ Shared(x) # {} => current.at # {}
===============================================================================
