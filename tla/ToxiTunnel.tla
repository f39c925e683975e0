------------------------------ MODULE ToxiTunnel ------------------------------
(***************************************************************************)
(* A tunnel of the test proxy (protocol/toxiproxy/toxiserver.py): clients, *)
(* one upstream pipe, and the toxics a message passes through on its way.  *)
(*                                                                         *)
(* A pipe is not read while one of its messages is handled.  A toxic may   *)
(* wait, so messages of several ends go through one toxic together, while  *)
(* toxics are added and deleted, ends end, and the tunnel is closed.       *)
(***************************************************************************)
EXTENDS Integers, Sequences, FiniteSets, SequencesExt, FiniteSetsExt

CONSTANTS Client, Up,   \* the ends
          Toxic,        \* toxics, each added at most once
          Kind,         \* the type of each
          Size,         \* of a message
          Rate,         \* rate_ms of the bandwidth toxics, per 100 ms
          MaxToxics,    \* ever added (a bound of the run)
          MaxMessages   \* read from all ends (a bound of the run)

Stream == Client \cup {Up}
Direction == {"upstream", "downstream"}
ToxicType == {"latency", "slow_close", "bandwidth", "timeout", "reset",
              "limit_data", "slicer"}

ASSUME ToxiTunnelAssumption ==
  /\ Up \notin Client /\ Kind \in [Toxic -> ToxicType]
  /\ Size \in Nat \ {0} /\ Rate \in Nat \ {0} /\ MaxMessages \in Nat

VARIABLES
  tunnel,    \* "listening", "up", "closing" its clients, closing the upstream
             \* pipe and the "server", "closed"
  stream,    \* per pipe: "none", "open", "closing" or "lost"
  clients,   \* self.clients
  accepted,  \* the clients in the order they came; those of them that are not
             \* lost are tcp_clients of the server pipe
  toxics,    \* upstream_toxics and downstream_toxics
  added,     \* the toxics that were ever added
  reading,   \* per pipe: "on", "paused", or "stuck": paused for ever
  read,      \* per pipe: how many messages were read
  routers,   \* the runs of toxic_router
  used,      \* per bandwidth toxic
  spent,     \* the slow_close toxics that have run
  patched,   \* the pipes whose close is the slow_close() of such a toxic
  delivered,       \* per pipe: what was sent on it, unit by unit
  walked,    \* close: how far it is in self.clients
  awaited,   \* the pipe whose close it waits for, or none
  stopped    \* the client at which the close of the server raised, or none

toxivars == <<tunnel, stream, clients, accepted, toxics, added, reading, read,
              routers, used, spent, patched, delivered, walked, awaited, stopped>>
flow  == <<reading, read, routers, used, delivered>>
ends == <<stream, clients, accepted>>
slow == <<spent, patched>>
closes == <<walked, awaited, stopped>>
setup == <<toxics, added>>

ToxiInit ==
  /\ tunnel = "listening"
  /\ stream = [p \in Stream |-> "none"]
  /\ clients = <<>> /\ accepted = <<>>
  /\ toxics = [d \in Direction |-> <<>>] /\ added = {}
  /\ reading = [p \in Stream |-> "on"] /\ read = [p \in Stream |-> 0]
  /\ routers = {} /\ used = [t \in Toxic |-> 0]
  /\ delivered = [p \in Stream |-> <<>>] /\ walked = 0
  /\ spent = {} /\ patched = {} /\ awaited = {} /\ stopped = {}

-----------------------------------------------------------------------------
(* The tunnel and its ends. *)

\* create_tunnel_server: after the listener, pipe_open to the upstream and
\* set_upstream.
SetUpstream ==
  /\ tunnel = "listening" /\ tunnel' = "up"
  /\ stream' = [stream EXCEPT ![Up] = "open"]
  /\ UNCHANGED <<clients, accepted, setup, flow, slow, closes>>

\* up_cb.  A server whose close raised still listens.
Connect(c) ==
  /\ stream[c] = "none" /\ (tunnel # "closed" \/ stopped # {})
  /\ stream' = [stream EXCEPT ![c] = "open"]
  /\ clients' = Append(clients, c) /\ accepted' = Append(accepted, c)
  /\ UNCHANGED <<tunnel, setup, flow, slow, closes>>

\* connection_lost.  The clients of a server share its list of end callbacks,
\* and up_cb puts one there for each client that it puts in self.clients: the
\* end of one runs those of all, and takes them all from self.clients.
Lost(p) ==
  /\ stream[p] \in {"open", "closing"}
  /\ stream' = [stream EXCEPT ![p] = "lost"]
  /\ clients' = IF p = Up THEN clients ELSE <<>>
  /\ UNCHANGED <<tunnel, accepted, setup, flow, slow, closes>>

Closed(st) == [p \in Stream |-> IF p \in st /\ stream[p] = "open"
                                THEN "closing" ELSE stream[p]]

\* add_new_toxic and del_new_toxic.
AddToxic(t, d) ==
  /\ tunnel = "up" /\ t \notin added /\ Cardinality(added) < MaxToxics
  /\ added' = added \cup {t} /\ toxics' = [toxics EXCEPT ![d] = Append(@, t)]
  /\ UNCHANGED <<tunnel, ends, flow, slow, closes>>

DelToxic(t, d) ==
  /\ tunnel = "up"
  /\ \E i \in DOMAIN toxics[d] :
       toxics[d][i] = t /\ toxics' = [toxics EXCEPT ![d] = RemoveAt(@, i)]
  /\ UNCHANGED <<tunnel, ends, added, flow, slow, closes>>

\* close: every client of self.clients by its place in it, one await each; the
\* list may change meanwhile.
CloseBegins ==
  /\ tunnel = "up" /\ tunnel' = "closing"
  /\ UNCHANGED <<ends, setup, flow, slow, closes>>

CloseClient ==
  /\ tunnel = "closing" /\ awaited = {} /\ walked < Len(clients)
  /\ walked' = walked + 1 /\ awaited' = {clients[walked + 1]}
  /\ UNCHANGED <<tunnel, ends, setup, flow, slow, stopped>>

CloseUpstream ==
  /\ tunnel = "closing" /\ awaited = {} /\ walked >= Len(clients)
  /\ tunnel' = "server" /\ awaited' = {Up}
  /\ UNCHANGED <<ends, setup, flow, slow, walked, stopped>>

\* At once, or after the wait of a slow_close.
PipeClosed ==
  /\ awaited # {} /\ awaited' = {} /\ stream' = Closed(awaited)
  /\ UNCHANGED <<tunnel, clients, accepted, setup, flow, slow, walked, stopped>>

\* Daemon.close: the server pipe closes its clients, in the order they came,
\* by client.close(do_sleep=False).  slow_close() has no such parameter: at a
\* patched client that is still open this raises, which for_server_in_self
\* logs.  The clients after it and the listener stay open.
Raises(i) == accepted[i] \in patched /\ stream[accepted[i]] = "open"

\* A bug: the listener is closed, and not the clients it accepted.
CloseServerOnly ==
  /\ tunnel = "server" /\ awaited = {} /\ tunnel' = "closed"
  /\ UNCHANGED <<ends, setup, flow, slow, closes>>

CloseServer ==
  /\ tunnel = "server" /\ awaited = {} /\ tunnel' = "closed"
  /\ \/ /\ \A i \in DOMAIN accepted : ~Raises(i)
        /\ stream' = Closed(Client) /\ UNCHANGED stopped
     \/ \E i \in DOMAIN accepted :
          /\ Raises(i) /\ \A j \in 1 .. i - 1 : ~Raises(j)
          /\ stream' = Closed({accepted[j] : j \in 1 .. i - 1})
          /\ stopped' = {accepted[i]}
  /\ UNCHANGED <<clients, accepted, setup, flow, slow, walked, awaited>>

-----------------------------------------------------------------------------
(* Messages. *)

Ways(p) == IF p = Up THEN "downstream" ELSE "upstream"
Dests(p) == IF p = Up THEN Range(clients) ELSE {Up}
Router(p, q) == [src |-> p, k |-> read[p] + 1, to |-> q, left |-> Size,
                 toxics |-> toxics[Ways(p)], bw |-> 0]

\* A bug: the pipe is read on.
MsgCbUnpaused(p) ==
  /\ stream[p] = "open" /\ FoldFunction(+, 0, read) < MaxMessages
  /\ tunnel # "listening"
  /\ read' = [read EXCEPT ![p] = @ + 1]
  /\ routers' = routers \cup {Router(p, q) : q \in Dests(p)}
  /\ UNCHANGED <<tunnel, ends, setup, reading, used, delivered, slow, closes>>

\* msg_cb, for a client or for the upstream pipe: the pipe is paused and the
\* message routed by the toxics there are now.  Before there is an upstream
\* pipe the handler raises, and the client stays paused.
MsgCb(p) ==
  /\ stream[p] = "open" /\ reading[p] = "on"
  /\ FoldFunction(+, 0, read) < MaxMessages
  /\ read' = [read EXCEPT ![p] = @ + 1]
  /\ IF tunnel = "listening"
       THEN reading' = [reading EXCEPT ![p] = "stuck"] /\ UNCHANGED routers
       ELSE /\ reading' = [reading EXCEPT ![p] = "paused"]
            /\ routers' = routers \cup {Router(p, q) : q \in Dests(p)}
  /\ UNCHANGED <<tunnel, ends, setup, used, delivered, slow, closes>>

\* Every router of the message has returned: resume_reading.
ResumeReading(p) ==
  /\ reading[p] = "paused" /\ \A r \in routers : r.src # p
  /\ reading' = [reading EXCEPT ![p] = "on"]
  /\ UNCHANGED <<tunnel, ends, setup, read, routers, used, delivered, slow, closes>>

\* A router sends n units; it ends with its message.  What is sent on a pipe
\* that is closed is lost.
Sends(r, n, next) ==
  /\ delivered' = IF stream[r.to] # "open" THEN delivered
            ELSE [delivered EXCEPT ![r.to] = @ \o
                   [i \in 1 .. n |-> <<r.src, r.k, Size - r.left + i>>]]
  /\ routers' = (routers \ {r}) \cup IF next.left = 0 THEN {} ELSE {next}
  /\ UNCHANGED <<tunnel, ends, setup, reading, read, slow, closes>>

Forward(r) ==
  /\ r.toxics = <<>> /\ Sends(r, r.left, [r EXCEPT !.left = 0])
  /\ UNCHANGED used

At(r, kinds) == r.toxics # <<>> /\ Kind[Head(r.toxics)] \in kinds

\* The toxic is not to run, or has waited and passes the message on (a limit
\* not reached, a timeout not over).
Pass(r) ==
  /\ At(r, ToxicType) /\ r.bw = 0 /\ r.left = Size
  /\ routers' = (routers \ {r}) \cup {[r EXCEPT !.toxics = Tail(@)]}
  /\ UNCHANGED <<tunnel, ends, setup, reading, read, used, delivered, slow, closes>>

\* The toxic's first message: close of the pipe it goes to is replaced.
SlowClose(r) ==
  /\ At(r, {"slow_close"}) /\ Head(r.toxics) \notin spent
  /\ spent' = spent \cup {Head(r.toxics)} /\ patched' = patched \cup {r.to}
  /\ routers' = (routers \ {r}) \cup {[r EXCEPT !.toxics = Tail(@)]}
  /\ UNCHANGED <<tunnel, ends, setup, reading, read, used, delivered, closes>>

Block(r) ==
  /\ At(r, {"timeout"})
  /\ routers' = routers \ {r}
  /\ UNCHANGED <<tunnel, ends, setup, reading, read, used, delivered, slow, closes>>

\* Its time is over, or its limit reached; the close may be slow.
CloseDest(r) ==
  /\ At(r, {"timeout", "reset", "limit_data"})
  /\ stream' = Closed({r.to})
  /\ routers' = routers \ {r}
  /\ UNCHANGED <<tunnel, clients, accepted, setup, reading, read, used, delivered, slow, closes>>

Slice(r) ==
  /\ At(r, {"slicer"})
  /\ \E n \in 1 .. r.left : Sends(r, n, [r EXCEPT !.left = @ - n])
  /\ UNCHANGED used

\* A bug: what is allotted is recorded after the sleep.
GetBandwidthLate(r) ==
  LET t == Head(r.toxics)
      n == Min({r.left, Rate - used[t]}) IN
  /\ At(r, {"bandwidth"}) /\ r.bw = 0 /\ n > 0
  /\ routers' = (routers \ {r}) \cup {[r EXCEPT !.bw = n]}
  /\ UNCHANGED <<tunnel, ends, setup, reading, read, used, delivered, slow, closes>>

\* get_bandwidth allots what is left of the rate, and sleeps 100 ms whether or
\* not anything was.
GetBandwidth(r) ==
  LET t == Head(r.toxics)
      n == Min({r.left, Rate - used[t]}) IN
  /\ At(r, {"bandwidth"}) /\ r.bw = 0 /\ n > 0
  /\ used' = [used EXCEPT ![t] = @ + n]
  /\ routers' = (routers \ {r}) \cup {[r EXCEPT !.bw = n]}
  /\ UNCHANGED <<tunnel, ends, setup, reading, read, delivered, slow, closes>>

\* After it: send that much, and give it back.
SendAllotted(r) ==
  /\ r.bw > 0 /\ Sends(r, r.bw, [r EXCEPT !.left = @ - r.bw, !.bw = 0])
  /\ used' = [used EXCEPT ![Head(r.toxics)] = @ - r.bw]

-----------------------------------------------------------------------------
ToxiNext ==
  \/ SetUpstream \/ CloseBegins \/ CloseClient \/ CloseUpstream \/ PipeClosed
  \/ CloseServer
  \/ \E c \in Client : Connect(c)
  \/ \E p \in Stream : Lost(p) \/ MsgCb(p) \/ ResumeReading(p)
  \/ \E t \in Toxic, d \in Direction : AddToxic(t, d) \/ DelToxic(t, d)
  \/ \E r \in routers : \/ Forward(r) \/ Pass(r) \/ Block(r) \/ CloseDest(r)
                        \/ SlowClose(r) \/ Slice(r) \/ GetBandwidth(r) \/ SendAllotted(r)

ToxiSpec == ToxiInit /\ [][ToxiNext]_toxivars

-----------------------------------------------------------------------------
(* Properties. *)

Before(x, y) == x[2] < y[2] \/ (x[2] = y[2] /\ x[3] < y[3])

\* "You need a way to force new messages to wait for past"
\* (toxiserver.py:308): what comes from one pipe is sent on in its order, and
\* no part of it twice, whatever toxics it meets and whenever they change.
Ordered ==
  \A p \in Stream : \A i, j \in DOMAIN delivered[p] :
    i < j /\ delivered[p][i][1] = delivered[p][j][1] => Before(delivered[p][i], delivered[p][j])

\* What a toxic has allotted, unit by unit.
Allotted(t) ==
  {x \in routers \X (1 .. Size) : x[2] <= x[1].bw /\ Head(x[1].toxics) = t}

\* "This prevents exceeding the bw allocation" (toxiserver.py:85): the routers
\* that share a bandwidth toxic, even one that was deleted meanwhile, never
\* have more allotted than its rate.
BandwidthKept == \A t \in Toxic : Cardinality(Allotted(t)) <= Rate

\* A tunnel that close has ended has no open pipe, though clients that ended
\* during its walk over self.clients made it pass over others: unless the server
\* stopped at a client patched by slow_close, and then all that came before that
\* client are closed, and the upstream pipe.
CloseEndsTunnel ==
  tunnel = "closed" =>
    \A p \in Stream : stream[p] = "open" =>
      \E j \in DOMAIN accepted :
        accepted[j] = p /\ \E i \in 1 .. j : accepted[i] \in stopped \cap patched
===============================================================================
