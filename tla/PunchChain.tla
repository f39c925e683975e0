------------------------------ MODULE PunchChain ------------------------------
(***************************************************************************)
(* A punched connection (do_punching and its wrapper in traversal/         *)
(* tcp_punch/tcp_punch_utils.py, setup_punching_process in                 *)
(* tcp_punch_client.py).                                                   *)
(*                                                                         *)
(* The hole is a TCP connection between two pool processes.  Each connects *)
(* back to its node and forwards in both directions, so two applications   *)
(* talk over a chain of three connections, which keep the order of bytes   *)
(* and not the bounds of messages.  A close goes along the chain as the    *)
(* message PUNCH_END; that a connection is lost does not clear is_running. *)
(***************************************************************************)
EXTENDS Integers, Sequences

CONSTANT MaxSends  \* messages an application sends (a bound of the run)

Side == {"a", "b"}
Peer(s) == IF s = "a" THEN "b" ELSE "a"

\* What goes over the chain: a message, a message that is part of the text of
\* PUNCH_END, and PUNCH_END.
Text == {"message", "part", "end"}

\* The channels of a side: from its application, to it, and to its peer.
Channel == {"out", "in", "up"}
\* The pipes of its process.
Pipe == {"client", "upstream"}

VARIABLES
  hole,     \* the SYNs have crossed
  process,  \* "punch", "holed", "relay", "returned" or "killed"
  app,      \* the pipe the node has: "none", "open", "closed" or "ended"
  running,  \* is_running of the process's pipes
  ending,   \* punch_close_msg of each pipe: "no", "sleep" or "done"
  buffered,     \* per channel the texts that will be read together
  eof,      \* the channels that are closed behind that
  sends     \* per side: messages sent

chainvars == <<hole, process, app, running, ending, buffered, eof, sends>>

ChainInit ==
  /\ hole = FALSE
  /\ process = [s \in Side |-> "punch"] /\ app = [s \in Side |-> "none"]
  /\ running = [s \in Side |-> [p \in Pipe |-> FALSE]]
  /\ ending = [s \in Side |-> [p \in Pipe |-> "no"]]
  /\ buffered = [s \in Side |-> [c \in Channel |-> <<>>]]
  /\ eof = [s \in Side |-> {}] /\ sends = [s \in Side |-> 0]

-----------------------------------------------------------------------------
(* Reads and writes. *)

\* What one read may return after a write: the bytes behind those that are
\* waiting, or a read of their own.
Written(buf, texts) ==
  {Append(buf, texts)} \cup
    IF buf = <<>> THEN {} ELSE {[buf EXCEPT ![Len(buf)] = @ \o texts]}

\* msg in PUNCH_END.
InPunchEnd(texts) == texts \in {<<"end">>, <<"part">>}

\* punch_close_msg sleeps, and then closes the pipe.
EndingAfter(s, p, texts) ==
  IF InPunchEnd(texts) /\ ending[s][p] = "no"
    THEN [ending EXCEPT ![s][p] = "sleep"] ELSE ending

-----------------------------------------------------------------------------
(* The processes. *)

HolePunched ==
  /\ ~hole /\ \A s \in Side : process[s] = "punch"
  /\ hole' = TRUE
  /\ UNCHANGED <<process, app, running, ending, buffered, eof, sends>>

\* choose_same_punch_sock, and the upstream pipe.
OpenUpstream(s) ==
  /\ hole /\ process[s] = "punch"
  /\ process' = [process EXCEPT ![s] = "holed"]
  /\ running' = [running EXCEPT ![s]["upstream"] = TRUE]
  /\ UNCHANGED <<hole, app, ending, buffered, eof, sends>>

\* The connection back to the node, the callbacks that forward, has_success.
StartRelay(s) ==
  /\ process[s] = "holed"
  /\ process' = [process EXCEPT ![s] = "relay"]
  /\ running' = [running EXCEPT ![s]["client"] = TRUE]
  /\ UNCHANGED <<hole, app, ending, buffered, eof, sends>>

\* do_punching_wrapper: no success in 30 seconds; the loop of the process ends
\* and its sockets are closed.
Killed(s) ==
  /\ process[s] \in {"punch", "holed"}
  /\ process' = [process EXCEPT ![s] = "killed"]
  /\ running' = [running EXCEPT ![s]["upstream"] = FALSE]
  /\ eof' = [eof EXCEPT ![s] = @ \cup {"up"}]
  /\ UNCHANGED <<hole, app, ending, buffered, sends>>

\* A read from the node: the close message is looked for, and all is forwarded.
ReadClient(s) ==
  /\ process[s] = "relay" /\ running[s]["client"] /\ buffered[s]["out"] # <<>>
  /\ LET texts == Head(buffered[s]["out"]) IN
     /\ ending' = EndingAfter(s, "client", texts)
     /\ \E buf \in Written(buffered[s]["up"], texts) :
          buffered' = [buffered EXCEPT ![s]["out"] = Tail(@),
                               ![s]["up"] = IF "up" \in eof[s] THEN @ ELSE buf]
  /\ UNCHANGED <<hole, process, app, running, eof, sends>>

\* A read from the peer; nothing forwards it while there is no relay.
ReadUpstream(s) ==
  /\ running[s]["upstream"] /\ buffered[Peer(s)]["up"] # <<>>
  /\ LET texts == Head(buffered[Peer(s)]["up"]) IN
     /\ ending' = EndingAfter(s, "upstream", texts)
     /\ \E buf \in Written(buffered[s]["in"], texts) :
          buffered' = [buffered EXCEPT ![Peer(s)]["up"] = Tail(@),
                     ![s]["in"] = IF process[s] = "relay" /\ "in" \notin eof[s]
                                    THEN buf ELSE @]
  /\ UNCHANGED <<hole, process, app, running, eof, sends>>

Behind(p) == IF p = "client" THEN "in" ELSE "up"

PunchClose(s, p) ==
  /\ ending[s][p] = "sleep" /\ process[s] \in {"holed", "relay"}
  /\ ending' = [ending EXCEPT ![s][p] = "done"]
  /\ running' = [running EXCEPT ![s][p] = FALSE]
  /\ eof' = [eof EXCEPT ![s] = @ \cup {Behind(p)}]
  /\ UNCHANGED <<hole, process, app, buffered, sends>>

\* A bug: the pipe to the node is taken to be closed.
RelayEndsUpstream(s) ==
  /\ process[s] = "relay" /\ \E p \in Pipe : ~running[s][p]
  /\ process' = [process EXCEPT ![s] = "returned"]
  /\ running' = [running EXCEPT ![s]["upstream"] = FALSE]
  /\ eof' = [eof EXCEPT ![s] = @ \cup {"up"}]
  /\ UNCHANGED <<hole, app, ending, buffered, sends>>

\* "Exit loop if chain breaks": one pipe does not run; both are closed.  The
\* wrapper sleeps on.
RelayEnds(s) ==
  /\ process[s] = "relay" /\ \E p \in Pipe : ~running[s][p]
  /\ process' = [process EXCEPT ![s] = "returned"]
  /\ running' = [running EXCEPT ![s] = [p \in Pipe |-> FALSE]]
  /\ eof' = [eof EXCEPT ![s] = @ \cup {"in", "up"}]
  /\ UNCHANGED <<hole, app, ending, buffered, sends>>

-----------------------------------------------------------------------------
(* The nodes. *)

\* setup_punching_process polls the clients of its listener.
PipeReadyFor(s) ==
  /\ app[s] = "none" /\ process[s] = "relay" /\ "in" \notin eof[s]
  /\ app' = [app EXCEPT ![s] = "open"]
  /\ UNCHANGED <<hole, process, running, ending, buffered, eof, sends>>

AppSend(s, t) ==
  /\ app[s] = "open" /\ sends[s] < MaxSends
  /\ sends' = [sends EXCEPT ![s] = @ + 1]
  /\ \E buf \in Written(buffered[s]["out"], <<t>>) :
       buffered' = [buffered EXCEPT ![s]["out"] = buf]
  /\ UNCHANGED <<hole, process, app, running, ending, eof>>

\* close_patch: the close message, then the close.
AppClose(s) ==
  /\ app[s] = "open" /\ app' = [app EXCEPT ![s] = "closed"]
  /\ \E buf \in Written(buffered[s]["out"], <<"end">>) :
       buffered' = [buffered EXCEPT ![s]["out"] = buf]
  /\ eof' = [eof EXCEPT ![s] = @ \cup {"out"}]
  /\ UNCHANGED <<hole, process, running, ending, sends>>

AppRead(s) ==
  /\ app[s] = "open" /\ buffered[s]["in"] # <<>>
  /\ buffered' = [buffered EXCEPT ![s]["in"] = Tail(@)]
  /\ UNCHANGED <<hole, process, app, running, ending, eof, sends>>

\* The node is told that the connection has ended.
AppEnds(s) ==
  /\ app[s] = "open" /\ buffered[s]["in"] = <<>> /\ "in" \in eof[s]
  /\ app' = [app EXCEPT ![s] = "ended"]
  /\ UNCHANGED <<hole, process, running, ending, buffered, eof, sends>>

-----------------------------------------------------------------------------
Forwarding(s) ==
  \/ StartRelay(s) \/ ReadClient(s) \/ ReadUpstream(s) \/ RelayEnds(s)
  \/ \E p \in Pipe : PunchClose(s, p)
  \/ PipeReadyFor(s) \/ AppRead(s) \/ AppEnds(s)

ChainNext ==
  \/ HolePunched
  \/ \E s \in Side :
       \/ OpenUpstream(s) \/ Killed(s) \/ Forwarding(s) \/ AppClose(s)
       \/ \E t \in {"message", "part"} : AppSend(s, t)

ChainSpec == ChainInit /\ [][ChainNext]_chainvars

-----------------------------------------------------------------------------
(* Properties. *)

\* No step of Forwarding(s) is left: no read, no sleep, no pipe to start or to
\* notice the end of (~ENABLED Forwarding(s), written out).
Quiet(s) ==
  /\ process[s] # "holed"
  /\ process[s] = "relay" =>
       /\ \A p \in Pipe : running[s][p] /\ ending[s][p] # "sleep"
       /\ buffered[s]["out"] = <<>>
       /\ app[s] = "none" => "in" \in eof[s]
  /\ running[s]["upstream"] => buffered[Peer(s)]["up"] = <<>>
  /\ app[s] = "open" => buffered[s]["in"] = <<>> /\ "in" \notin eof[s]

\* When nothing is left to do, a process that read the close message by itself,
\* from either side and even before it had a relay, has let go of both pipes,
\* and its application is not left with one that leads nowhere.
EndEndsChain ==
  (\A s \in Side : Quiet(s)) =>
    \A s \in Side : (\E p \in Pipe : ending[s][p] # "no") =>
      /\ process[s] \in {"returned", "killed"}
      /\ app[s] # "open"
===============================================================================
