-------------------------------- MODULE RestApi --------------------------------
(***************************************************************************)
(* The REST API of a node (node/rest_api.py): connections under names that *)
(* HTTP clients choose, and subscriptions under names of their own.        *)
(*                                                                         *)
(* Each request is a task of its own.  open awaits the connection between  *)
(* its look at the table and its entry in it; the entry goes when the      *)
(* connection has ended, some time after its close, by a callback.  A      *)
(* request that raises is answered with the exception (msg_cb of           *)
(* protocol/http/http_server_lib.py), and changes nothing after it.        *)
(*                                                                         *)
(* A connection may be one that a TCP listener of the node accepted (a     *)
(* peer asked to connect in reverse).  Such connections do not have end    *)
(* callbacks of their own: they share the listener's list                  *)
(* (net/pipe/pipe_utils.py:103), with those the API never names as well.   *)
(***************************************************************************)
EXTENDS FiniteSets, Integers

CONSTANTS ConName,   \* the names clients give connections
          Con,       \* the connections node.connect may return
          SubName,   \* the names of subscriptions
          Pattern,   \* message patterns; SubAll is one
          SubAll,
          Listeners, \* per TCP listener: the connections that it accepts
          AtOnce     \* how many opens of a name are under way at once (a bound)

ASSUME RestApiAssumption ==
  SubAll \in Pattern /\ AtOnce \in Nat /\ Listeners \subseteq SUBSET Con

VARIABLES
  cons,     \* self.cons: name and connection
  subs,     \* self.subs: name and pattern
  opening,  \* open requests: name, and the connection once there is one
  link,     \* per connection: "unused", "open", "closing" or "ended"
  endCbs,   \* per connection: the names that callbacks added to it delete
  bucket,   \* per connection: the patterns it has a queue for
  raced     \* history: the names of which two opens were under way at once

restvars == <<cons, subs, opening, link, endCbs, bucket, raced>>

RestInit ==
  /\ cons = {} /\ subs = {} /\ opening = {} /\ raced = {}
  /\ link = [c \in Con |-> "unused"]
  /\ endCbs = [c \in Con |-> {}] /\ bucket = [c \in Con |-> {}]

Without(table, name) == {e \in table : e[1] # name}
Names(table) == {e[1] : e \in table}

\* TCPEvents.connection_made: whose list of end callbacks a connection has.
SameList(c, d) == c = d \/ \E l \in Listeners : {c, d} \subseteq l
Callbacks(c) == UNION {endCbs[d] : d \in {x \in Con : SameList(c, x)}}

-----------------------------------------------------------------------------
(* open. *)

\* The name is looked up; node.connect is awaited.
OpenBegin(n) ==
  /\ n \notin Names(cons)
  /\ \E k \in 1 .. AtOnce :
       /\ <<n, k, {}>> \notin opening /\ \A o \in opening : o[1] = n => o[2] # k
       /\ opening' = opening \cup {<<n, k, {}>>}
  /\ raced' = IF n \in Names(opening) THEN raced \cup {n} ELSE raced
  /\ UNCHANGED <<cons, subs, link, endCbs, bucket>>

\* connect has a connection, but open has not run on yet; or it has none, and
\* the request is answered.
OpenConnected(o) ==
  /\ o \in opening /\ o[3] = {}
  /\ \E c \in Con : /\ link[c] = "unused" /\ link' = [link EXCEPT ![c] = "open"]
                    /\ opening' = (opening \ {o}) \cup {<<o[1], o[2], {c}>>}
  /\ UNCHANGED <<cons, subs, endCbs, bucket, raced>>

OpenFailed(o) ==
  /\ o \in opening /\ o[3] = {} /\ opening' = opening \ {o}
  /\ UNCHANGED <<cons, subs, link, endCbs, bucket, raced>>

\* A listener accepts a connection that nobody opened here.
Accept(c) ==
  /\ link[c] = "unused" /\ \E l \in Listeners : c \in l
  /\ link' = [link EXCEPT ![c] = "open"]
  /\ UNCHANGED <<cons, subs, opening, endCbs, bucket, raced>>

\* The rest of open in one step: subscribe, the callback, the entry.  A dict
\* has one connection for a name, and the last one stays.
OpenStore(o) ==
  /\ o \in opening
  /\ \E c \in o[3] :
       /\ bucket' = [bucket EXCEPT ![c] = @ \cup {SubAll}]
       /\ endCbs' = [endCbs EXCEPT ![c] = @ \cup {o[1]}]
       /\ cons' = Without(cons, o[1]) \cup {<<o[1], c>>}
  /\ opening' = opening \ {o}
  /\ UNCHANGED <<subs, link, raced>>

-----------------------------------------------------------------------------
(* close, and the end of a connection. *)

\* A bug: close deletes the entry itself.
CloseDeletes(n, c) ==
  /\ <<n, c>> \in cons
  /\ link' = IF link[c] = "open" THEN [link EXCEPT ![c] = "closing"] ELSE link
  /\ cons' = Without(cons, n)
  /\ UNCHANGED <<subs, opening, endCbs, bucket, raced>>

\* con.close closes the transport; a connection already closing or ended
\* stays as it is.
Close(n, c) ==
  /\ <<n, c>> \in cons
  /\ link' = IF link[c] = "open" THEN [link EXCEPT ![c] = "closing"] ELSE link
  /\ UNCHANGED <<cons, subs, opening, endCbs, bucket, raced>>

\* connection_lost, once: after a close of ours, or when the peer is gone.
\* Each callback of the list deletes whatever has its name by now (a KeyError
\* is logged); no callback is ever taken off a list.
ConnectionLost(c) ==
  /\ link[c] \in {"open", "closing"}
  /\ link' = [link EXCEPT ![c] = "ended"]
  /\ cons' = {e \in cons : e[1] \notin Callbacks(c)}
  /\ UNCHANGED <<subs, opening, endCbs, bucket, raced>>

-----------------------------------------------------------------------------
(* sub and unsub. *)

Sub(n, c, s, p) ==
  /\ <<n, c>> \in cons /\ s \notin Names(subs)
  /\ subs' = subs \cup {<<s, p>>}
  /\ bucket' = [bucket EXCEPT ![c] = @ \cup {p}]
  /\ UNCHANGED <<cons, opening, link, endCbs, raced>>

\* The name may have been made on another connection.
Unsub(n, c, s, p) ==
  /\ <<n, c>> \in cons /\ <<s, p>> \in subs
  /\ subs' = Without(subs, s)
  /\ bucket' = [bucket EXCEPT ![c] = @ \ {p}]
  /\ UNCHANGED <<cons, opening, link, endCbs, raced>>

\* The reserved name.
UnsubAll(n, c) ==
  /\ <<n, c>> \in cons
  /\ bucket' = [bucket EXCEPT ![c] = @ \ {SubAll}]
  /\ UNCHANGED <<cons, subs, opening, link, endCbs, raced>>

-----------------------------------------------------------------------------
RestNext ==
  \/ \E n \in ConName : OpenBegin(n)
  \/ \E o \in opening : OpenConnected(o) \/ OpenFailed(o) \/ OpenStore(o)
  \/ \E c \in Con : Accept(c) \/ ConnectionLost(c)
  \/ \E e \in cons : \/ Close(e[1], e[2]) \/ UnsubAll(e[1], e[2])
                     \/ \E s \in SubName, p \in Pattern :
                          Sub(e[1], e[2], s, p) \/ Unsub(e[1], e[2], s, p)

RestSpec == RestInit /\ [][RestNext]_restvars

-----------------------------------------------------------------------------
(* Properties. *)

\* A name was given to a connection that shares its end callbacks, and another
\* of the same listener has ended.
LostWithAnother(n) ==
  \E l \in Listeners : \E c, d \in l : c # d /\ n \in endCbs[c] /\ link[d] = "ended"

\* "Need a unique name per con." (rest_api.py:137): as long as a connection
\* that open has stored lasts, its name leads to it, whatever has had that name
\* before and however late its end is noticed.  There are two exceptions, and
\* no third: two opens of the name overlapped, or the name was one of a
\* listener's connection and another connection of that listener has ended.
NameLeadsToCon ==
  \A c \in Con : link[c] \in {"open", "closing"} =>
    \A n \in endCbs[c] : <<n, c>> \in cons \/ n \in raced \/ LostWithAnother(n)
===============================================================================
