-------------------------------- MODULE PeerAddr --------------------------------
(***************************************************************************)
(* The address of a node (node/p2p_addr.py), which it gives to its peers:  *)
(* make_peer_addr writes what the node knows of its interfaces, and        *)
(* parse_peer_addr reads it at the peer.                                   *)
(*                                                                         *)
(* The text is five fields with dashes in between.  A field of an address  *)
(* family is a list of segments, "0" if it is empty, and a segment is a    *)
(* list of eight values in brackets.                                       *)
(***************************************************************************)
EXTENDS Lists, SequencesExt

CONSTANTS Nic,          \* what an interface can be: see Interface
          MaxNics,      \* interfaces of a node (a bound)
          Signals,      \* lists of signal_offsets (a bound)
          MqttServers,  \* how many servers the reader knows
          NodePort      \* listen_port

Af == {"ip4", "ip6"}

\* A route's addresses; links are its link local ones.
RouteAddrs == [nic : Nat \ {0}, ext : Nat \ {0}, links : Seq(Nat \ {0})]

\* An interface has at most one main route in a family.
Interface == [index : Nat, nat : Nat, delta : Nat, value : Int, rp : [Af -> SUBSET RouteAddrs]]

ASSUME PeerAddrAssumption ==
  /\ Nic \subseteq Interface /\ Signals \subseteq Seq(Nat)
  /\ {MqttServers, NodePort, MaxNics} \subseteq Nat

VARIABLES
  ifs,     \* node.ifs
  signal,  \* the offsets of signal_pipes
  read     \* what the peer makes of the address: {} before, and when it refuses it
           \* {"refused"}

peeraddrvars == <<ifs, signal, read>>

NotRead == {}
Refused == {"refused"}

PeerAddrInit ==
  /\ ifs \in UNION {[1 .. n -> Nic] : n \in 1 .. MaxNics}
  /\ signal \in Signals
  /\ read = NotRead

-----------------------------------------------------------------------------
(* make_peer_addr. *)

RouteOf(n, af) == CHOOSE r \in n.rp[af] : TRUE

\* In IPv6 a peer of the LAN is to use the link local address.
IntIp(r, af) ==
  IF af = "ip4" THEN r.nic ELSE IF r.links # <<>> THEN r.links[1] ELSE r.ext

Segment(i, n, af) ==
  LET r == RouteOf(n, af) IN
  [netiface_index |-> n.index, if_index |-> i, ext |-> r.ext, nic |-> IntIp(r, af),
   port |-> NodePort, nat |-> n.nat, delta |-> n.delta, value |-> n.value]

\* The numbers, from 0, of the interfaces with routes of a family.
WithRoutes(af) == {i \in 0 .. Len(ifs) - 1 : ifs[i + 1].rp[af] # {}}
Supporting(af) == Keep([i \in 1 .. Len(ifs) |-> i - 1], WithRoutes(af))

\* A bug: the interfaces of a family are counted on their own.
SegmentsCounted(af) ==
  [k \in 1 .. Len(Supporting(af)) |-> Segment(k - 1, ifs[Supporting(af)[k] + 1], af)]

Segments(af) ==
  [k \in 1 .. Len(Supporting(af)) |->
     Segment(Supporting(af)[k], ifs[Supporting(af)[k] + 1], af)]

\* A negative value is written with a dash.
MakePeerAddr ==
  LET text == [af \in Af |-> Segments(af)]
      negative(af) == {k \in DOMAIN text[af] : text[af][k].value < 0} IN
  [signal |-> signal, text |-> text,
   parts |-> 5 + Cardinality(negative("ip4")) + Cardinality(negative("ip6"))]

-----------------------------------------------------------------------------
(* parse_peer_addr. *)

\* Of two segments with one number the later is kept.
InfosOf(text) ==
  LET last(i) == CHOOSE k \in DOMAIN text :
                   /\ text[k].if_index = i
                   /\ \A j \in DOMAIN text : text[j].if_index = i => j <= k
  IN [i \in {text[k].if_index : k \in DOMAIN text} |-> text[last(i)]]

\* What validate_peer_addr finds wrong with the result makes no difference.
ParsePeerAddr(addr) ==
  IF addr.parts # 5 THEN Refused
  ELSE {[signal |-> Keep(addr.signal, 0 .. MqttServers - 1),
         infos |-> [af \in Af |-> InfosOf(addr.text[af])]]}

ReadAddr ==
  /\ read = NotRead /\ read' = ParsePeerAddr(MakePeerAddr) /\ UNCHANGED <<ifs, signal>>

PeerAddrNext == ReadAddr
PeerAddrSpec == PeerAddrInit /\ [][PeerAddrNext]_peeraddrvars

-----------------------------------------------------------------------------
(* Properties. *)

\* A peer that reads an address (one without a negative delta) knows under the
\* number of each interface what the node knows of it, in the families that it
\* has routes of and no other: the number that the two exchange (SigMsg.load_addr)
\* is one interface to both.
AddrRoundTrip ==
  read # NotRead /\ (\A k \in DOMAIN ifs : ifs[k].value >= 0) =>
    \A addr \in read : \A af \in Af :
      /\ DOMAIN addr.infos[af] = {i \in 0 .. Len(ifs) - 1 : ifs[i + 1].rp[af] # {}}
      /\ \A i \in DOMAIN addr.infos[af] :
           LET s == addr.infos[af][i]
               r == RouteOf(ifs[i + 1], af) IN
           /\ s.netiface_index = ifs[i + 1].index /\ s.ext = r.ext
           /\ <<s.nat, s.delta, s.value>> = <<ifs[i + 1].nat, ifs[i + 1].delta, ifs[i + 1].value>>
           /\ s.nic \in IF af = "ip4" THEN {r.nic} ELSE {r.ext} \cup Range(r.links)
===============================================================================
