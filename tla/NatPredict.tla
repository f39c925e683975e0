------------------------------- MODULE NatPredict -------------------------------
(***************************************************************************)
(* The exchange of port predictions before a TCP hole punch                *)
(* (nic/nat/nat_predict.py and nat_utils.py, proto of                      *)
(* traversal/tcp_punch/tcp_punch_client.py).                               *)
(*                                                                         *)
(* Each side predicts a mapping, the local port it binds and the external  *)
(* port its NAT will give that, to suit the mapping the other predicted;   *)
(* the initiator predicts first, and takes the other's answer if it comes. *)
(* Only the first mapping of a list is punched, and only that is kept here.*)
(* The range of a NAT is never set to another than all ports, 1 to MaxPort,*)
(* but predictions are made in the range from LowPort.                     *)
(***************************************************************************)
EXTENDS Integers

CONSTANTS MaxPort,   \* MAX_PORT
          LowPort,   \* the first port that is used: 2000
          SelfLow,   \* the first port of a self punch: 2001
          Step,      \* what a self punch adds to the peer's port: 1000
          StunPort,  \* STUN_PORT
          Delta,     \* the values of independent and dependent deltas
          Sample     \* the ports that NATs give and templates have (a bound)

ASSUME NatPredictAssumption ==
  /\ {MaxPort, LowPort, SelfLow, Step, StunPort} \subseteq Nat \ {0}
  /\ LowPort <= SelfLow /\ 2 * SelfLow <= MaxPort /\ Step + SelfLow <= MaxPort
  /\ StunPort \in LowPort .. MaxPort /\ Sample \subseteq LowPort .. MaxPort
  /\ Delta \subseteq 1 .. LowPort

Peer == {"initiator", "recipient"}
Other(s) == CHOOSE p \in Peer : p # s
Mode == {"lan", "remote", "self"}
UseRange == LowPort .. MaxPort

VARIABLES
  mode,      \* punch_mode, the same on both sides
  behind,    \* the NAT of each side, known to both
  preload,   \* per side: the mapping STUN saw of a socket bound before; of the
             \* first for a random delta, of the last for the others
  another,   \* the sides whose NAT gave a mapping to others since
  exchange,  \* "begin", "sent", "replied", "updated" or "raised"
  send,      \* per side: send_mappings
  recv       \* per side: recv_mappings

predictvars == <<mode, behind, preload, another, exchange, send, recv>>

-----------------------------------------------------------------------------
(* NATs. *)

Cone == {"full cone", "restrict", "restrict port"}
NatInfo(type, delta, value) == [type |-> type, delta |-> delta, value |-> value]

\* The NATs and deltas that fast_nat_test and delta_test find, and a firewall
\* without a NAT, which only the address of a peer may name; it changes no port.
NatKind ==
  {NatInfo("open", "equal", 0)} \cup {NatInfo("firewall", d, 0) : d \in {"equal", "random"}}
    \cup [type : Cone \cup {"symmetric"}, delta : {"equal", "preserv", "random"}, value : {0}]
    \cup [type : Cone \cup {"symmetric"}, delta : {"independent", "dependent"}, value : Delta]

\* In a LAN or on one machine there is no NAT (init_predictions).
Nat4(s) == IF mode = "remote" THEN behind[s] ELSE NatInfo("open", "equal", 0)

IsOpen(n) == n.type \in {"open", "firewall"}
IsHard(n) == n.type \notin {"open", "full cone"} /\ n.delta \notin {"preserv", "equal"}
Strict(n) == n.type = "restrict port"
StrictRandom(n) == Strict(n) /\ n.delta = "random"

\* nats_can_predict raises, or says whether the port of STUN is to be used.
CannotPredict(a, b) ==
  \/ Strict(a) /\ Strict(b) /\ (StrictRandom(a) \/ StrictRandom(b))
  \/ StrictRandom(a) /\ IsHard(b)
  \/ StrictRandom(b) /\ IsHard(a)
UseStunPort(a, b) == StrictRandom(a) \/ StrictRandom(b)

-----------------------------------------------------------------------------
(* One prediction. *)

PortWrap(p) == IF p % MaxPort = 0 THEN 1 ELSE p % MaxPort

\* A bug: the start of the range is not added.
FieldWrapZero(p, low) == p % (MaxPort + 1)

FieldWrap(p, low) ==
  LET x == p % (MaxPort + 1) IN IF x < low THEN x + low ELSE x

Mapping4(local, reply, remote) == [local |-> local, reply |-> reply, remote |-> remote]

\* The port the peer wants its packets from.
BindPort(rmap) == IF rmap.reply # 0 THEN rmap.reply ELSE rmap.remote

Distance(x, y) == IF x < y THEN y - x ELSE x - y

\* get_single_mapping: the mappings it may return, none when it raises.
SingleMapping(rmap, n, last) ==
  LET port == BindPort(rmap)
      reply == IF Strict(n) THEN port ELSE 0
      next == FieldWrap(last.remote + n.value, LowPort) IN
  IF mode = "self" THEN
    LET p == FieldWrap(rmap.remote + Step, SelfLow) IN {Mapping4(p, 0, p)}
  ELSE IF IsOpen(n) \/ n.delta = "equal" THEN {Mapping4(port, 0, port)}
  ELSE CASE n.delta = "preserv" ->
              {Mapping4(PortWrap(last.local + Distance(last.remote, port)), reply, port)}
         [] n.delta = "independent" -> {Mapping4(p, reply, next) : p \in Sample}
         [] n.delta = "dependent" -> {Mapping4(PortWrap(last.local + 1), reply, next)}
         [] n.delta = "random" /\ n.type \in Cone ->
              {Mapping4(last.local, IF Strict(n) THEN StunPort ELSE 0, last.remote)}
         [] OTHER -> {}

\* get_mapping_templates: what stands for the peer's mapping.
Templates(a, b) ==
  {Mapping4(0, 0, p) : p \in IF UseStunPort(a, b) THEN {StunPort} ELSE Sample}

\* nat_prediction of a side, with the peer's mapping or without.
Predictions(s, rmaps) ==
  LET n == Nat4(s)
      o == Nat4(Other(s)) IN
  IF CannotPredict(n, o) THEN {}
  ELSE UNION {SingleMapping(r, n, preload[s])
                : r \in IF rmaps = {} THEN Templates(n, o) ELSE rmaps}

-----------------------------------------------------------------------------
(* The exchange. *)

\* get_high_port_mapping.
Preloads(n) ==
  {x \in [local : Sample, remote : Sample] : n.delta = "equal" => x.local = x.remote}

PredictInit ==
  /\ mode \in Mode
  /\ behind \in [Peer -> IF mode = "remote" THEN NatKind
                         ELSE {NatInfo("open", "equal", 0)}]
  /\ another \in SUBSET Peer
  /\ exchange = "begin"
  /\ preload \in [Peer -> [local : Sample, remote : Sample]]
  /\ \A s \in Peer : preload[s] \in Preloads(behind[s])
  /\ send = [s \in Peer |-> {}] /\ recv = [s \in Peer |-> {}]

Raise == exchange' = "raised" /\ UNCHANGED <<mode, behind, preload, another, send, recv>>

\* self_punch_patch of the placeholder.
Placeholder(x) ==
  IF mode = "self" THEN Mapping4(PortWrap(x.local + Step), 0, PortWrap(x.local + Step)) ELSE x

\* INITIATED_PREDICTIONS: until it is told, the initiator takes the mapping of
\* the recipient for its own.
Initiate ==
  /\ exchange = "begin"
  /\ LET results == Predictions("initiator", {}) IN
     \/ results = {} /\ Raise
     \/ \E x \in results :
          /\ exchange' = "sent"
          /\ send' = [send EXCEPT !["initiator"] = {x}]
          /\ recv' = [recv EXCEPT !["initiator"] = {Placeholder(x)}]
          /\ UNCHANGED <<mode, behind, preload, another>>

\* RECEIVED_PREDICTIONS.
Receive ==
  /\ exchange = "sent"
  /\ LET results == Predictions("recipient", send["initiator"]) IN
     \/ results = {} /\ Raise
     \/ \E x \in results :
          /\ exchange' = "replied"
          /\ send' = [send EXCEPT !["recipient"] = {x}]
          /\ recv' = [recv EXCEPT !["recipient"] = send["initiator"]]
          /\ UNCHANGED <<mode, behind, preload, another>>

\* A bug: the answer is not taken.
UpdateNot ==
  /\ exchange = "replied" /\ exchange' = "updated"
  /\ UNCHANGED <<mode, behind, preload, another, send, recv>>

\* UPDATED_PREDICTIONS.  update_for_reply_ports has the two lists the other way
\* round: it looks at the reply port of the initiator, and changes the mapping
\* of the recipient.
Update ==
  /\ exchange = "replied" /\ exchange' = "updated"
  /\ LET n == Nat4("initiator") IN
     \E x \in send["recipient"], mine \in send["initiator"] :
       IF mode = "self" \/ mine.reply = 0 \/ n.delta # "preserv"
         THEN recv' = [recv EXCEPT !["initiator"] = {x}]
         ELSE \E y \in SingleMapping(mine, n, preload["initiator"]) :
                recv' = [recv EXCEPT !["initiator"] =
                           {[x EXCEPT !.local = y.local, !.remote = mine.reply]}]
  /\ UNCHANGED <<mode, behind, preload, another, send>>

PredictNext == Initiate \/ Receive \/ Update

PredictSpec == PredictInit /\ [][PredictNext]_predictvars

-----------------------------------------------------------------------------
(* Properties. *)

\* The port a NAT gives the first connection from a local port.  Behind the
\* last of its ports, MaxPort, it counts on from the first, 1 (the map_range
\* of nat_info, and the NAT of DeltaTest).
NatWrap(p) == ((p - 1) % MaxPort) + 1
MappedPort(s, local) ==
  LET n == Nat4(s)
      last == preload[s] IN
  CASE IsOpen(n) \/ n.delta = "equal" -> local
    [] ~IsOpen(n) /\ n.delta = "random" -> last.remote
    [] ~IsOpen(n) /\ n.delta = "preserv" -> NatWrap(last.remote + local - last.local)
    [] OTHER -> NatWrap(last.remote + n.value)

\* The NAT wraps around for its next mapping: the prediction goes back to
\* LowPort, and the NAT to 1.
WrapsAround(s) == /\ Nat4(s).delta \in {"independent", "dependent"}
                  /\ preload[s].remote + Nat4(s).value > MaxPort

\* delayed_punch: in a LAN the peer's local port is dialed.
Dialed(s) == {IF mode = "lan" THEN x.local ELSE x.remote : x \in recv[s]}

\* A mapping that a delta predicts is the next one if none is given meanwhile.
\* (A delta that preserves distances is left out: the prediction is right only
\* if the port wanted is not below the last one mapped.)
Predictable(s) ==
  Nat4(s).delta # "preserv"
    /\ (s \in another => Nat4(s).delta \notin {"independent", "dependent"})

\* The recipient can take the initiator's port, and nothing asks for another.
Mirrors == /\ IsOpen(Nat4("recipient")) \/ Nat4("recipient").delta = "equal"
           /\ mode # "self" /\ \A x \in send["initiator"] : x.reply = 0

\* After the exchange each side dials the port that the other will come from,
\* whatever their NATs, if they have been taken for predictable; the initiator
\* even before the answer if the recipient can use its ports.  The exception is
\* a NAT that wraps around for this mapping: there the port dialed is LowPort - 1
\* above the one the other comes from ("the predicted port will be wrong and
\* the hole punching will fail", nat_predict.py:236), and no other way off.  In
\* a self punch the two local ports differ.
PunchMeets ==
  exchange \in {"replied", "updated"} =>
    \A s \in Peer :
      (s = "recipient" \/ exchange = "updated" \/ Mirrors)
        /\ Predictable(s) /\ Predictable(Other(s)) =>
          \A x \in send[Other(s)] :
            /\ IF WrapsAround(Other(s))
                 THEN Dialed(s) = {MappedPort(Other(s), x.local) + (LowPort - 1)}
                 ELSE Dialed(s) = {MappedPort(Other(s), x.local)}
            /\ mode = "self" => \A y \in send[s] : x.local # y.local
===============================================================================
