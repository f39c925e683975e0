----------------------------- MODULE MCAlgorithms -----------------------------
(* The algorithms that p2pd rests on, each on small inputs.  They share no    *)
(* state: a behaviour is one of one part, and the other parts stay at a state *)
(* that they can start from.                                                  *)
EXTENDS NatPredict, DeltaTest, Addresses, ClockSkew, RoutePool, Routes, PeerAddr

VARIABLE part

Ports == {3, 12}
Deltas == {1, 2}

LocalPorts == {1, 5}
Rules == {[delta |-> "equal", value |-> 0], [delta |-> "preserv", value |-> 3],
          [delta |-> "independent", value |-> 2], [delta |-> "dependent", value |-> 4]}

RightOnes == {10, 11}
WrongOnes == {30, 50}

Pools == UNION {[1 .. n -> 1 .. 2] : n \in 1 .. 6}

NicLists == {<<1, 11, 12>>, <<12, 2, 21>>, <<1, 2, 11>>, <<11>>, <<2>>}

R(n, x, ls) == [nic |-> n, ext |-> x, links |-> ls]
NicKinds == [index : {0, 3}, nat : {5}, delta : {2}, value : {-1, 2},
             rp : [ip4 : {{}, {R(1, 2, <<>>)}, {R(2, 2, <<>>)}},
                   ip6 : {{}, {R(3, 4, <<>>)}, {R(3, 4, <<5>>)}}]]
SignalLists == {<<>>, <<0, 7>>}

-----------------------------------------------------------------------------
PredictIdle ==
  /\ mode = "lan" /\ behind = [s \in Peer |-> NatInfo("open", "equal", 0)]
  /\ another = {} /\ exchange = "begin"
  /\ preload = [s \in Peer |-> [local |-> 3, remote |-> 3]]
  /\ send = [s \in Peer |-> {}] /\ recv = [s \in Peer |-> {}]
DeltaIdle ==
  /\ rule = [delta |-> "equal", value |-> 0] /\ round = 1 /\ delta = <<>>
  /\ results = <<Answers(rule, [i \in Test |-> 1], {})>>
AddrIdle == ipr1 = IPRange(0, Bits) /\ ipr2 = IPRange(0, Bits)
PoolIdle == sizes = <<1>> /\ popped = <<>>
RoutesIdle ==
  /\ nics = <<2>> /\ default = NoIp /\ wan = [a \in Private \cup External \cup {Foreign} |-> 2]
  /\ counts = Unanswered /\ lookedUp = <<>> /\ guessed = FALSE /\ routes = {}
PeerAddrIdle ==
  /\ ifs = <<[index |-> 0, nat |-> 5, delta |-> 2, value |-> 2,
              rp |-> [ip4 |-> {}, ip6 |-> {}]]>>
  /\ signal = <<>> /\ read = NotRead

Init ==
  /\ part \in {"predict", "delta", "addr", "skew", "pool", "routes", "peer addr"}
  /\ IF part = "predict" THEN PredictInit ELSE PredictIdle
  /\ IF part = "delta" THEN DeltaInit ELSE DeltaIdle
  /\ IF part = "addr" THEN AddrInit ELSE AddrIdle
  /\ SkewInit
  /\ IF part = "pool" THEN PoolInit ELSE PoolIdle
  /\ IF part = "routes" THEN RoutesInit ELSE RoutesIdle
  /\ IF part = "peer addr" THEN PeerAddrInit ELSE PeerAddrIdle

Next ==
  /\ UNCHANGED part
  /\ \/ /\ part = "predict" /\ PredictNext
        /\ UNCHANGED <<deltavars, addrvars, skewvars, poolvars, routevars, peeraddrvars>>
     \/ /\ part = "delta" /\ DeltaNext
        /\ UNCHANGED <<predictvars, addrvars, skewvars, poolvars, routevars, peeraddrvars>>
     \/ /\ part = "addr" /\ AddrNext
        /\ UNCHANGED <<predictvars, deltavars, skewvars, poolvars, routevars, peeraddrvars>>
     \/ /\ part = "skew" /\ SkewNext
        /\ UNCHANGED <<predictvars, deltavars, addrvars, poolvars, routevars, peeraddrvars>>
     \/ /\ part = "pool" /\ PoolNext
        /\ UNCHANGED <<predictvars, deltavars, addrvars, skewvars, routevars, peeraddrvars>>
     \/ /\ part = "routes" /\ RoutesNext
        /\ UNCHANGED <<predictvars, deltavars, addrvars, skewvars, poolvars, peeraddrvars>>
     \/ /\ part = "peer addr" /\ PeerAddrNext
        /\ UNCHANGED <<predictvars, deltavars, addrvars, skewvars, poolvars, routevars>>

Spec == Init /\ [][Next]_<<part, predictvars, deltavars, addrvars, skewvars, poolvars,
                           routevars, peeraddrvars>>
=============================================================================
