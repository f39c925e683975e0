------------------------------ MODULE MCServices ------------------------------
(* The services around a node's connections, on small instances.  They share  *)
(* no state: a behaviour is one of one part, and the other parts stay at a    *)
(* state that they can start from.                                            *)
EXTENDS NatTest, Signaling, RestApi, ToxiTunnel, PunchChain, NodeLife, Nickname

CONSTANTS st1, st2,                    \* STUN servers
          n1, n2, c1, c2, c3, s1, all,
          a, b, up,
          p1, p2, i1, i2, i3, ip4, ip6,
          v, w, d

VARIABLE part

TwoServers == {st1, st2}

Three == <<1, 2, 3>>
PeerMessages == [signal : {<<1, 2>>, <<3, 1>>, <<2>>}, m : 0 .. 3]

ConNames == {n1, n2}
Connections == {c1, c2, c3}
AcceptedBy == {{c2, c3}}  \* c1 is connected from here
SubNames == {s1}
Patterns == {all}

TwoClients == {a, b}
Toxics == {"bandwidth", "slicer", "timeout", "slow_close"}
Kinds == [t \in Toxics |-> t]

\* The first IPv4 address and the global IPv6 address of an interface, wanted
\* by two processes.
Processes == {p1, p2}
Addresses == <<ip4, ip6>>
GlobalAddresses == {ip6}
PipeIds == {i1, i2, i3}
OneBusy == {p1}

\* A node's connections are no concern of another process: the one that connects
\* is alone on the machine (a bound of the run).
AloneIfBusy ==
  (\A i \in PipeIds : future[p1][i] = Nobody) \/ stage[p2] = "down"

\* The servers 0 and 1 of ".p2p" and ".node"; the second has no IPv6.
Offsets == {0, 1}
Calls == {v, w, d}
Values == {v, w}
Links == {<<0, 1>>, <<0, 2>>, <<1, 1>>}
Alike == Permutations(Values) \cup Permutations(TwoClients)

-----------------------------------------------------------------------------
\* NatTest and Nickname can start in several states.
Init ==
  /\ part \in {"nat test", "signaling", "rest", "toxi", "chain", "life", "nickname"}
  /\ (part # "nat test" => nat = OPEN_INTERNET) /\ NatInit
  /\ SigInit /\ RestInit /\ ToxiInit /\ ChainInit /\ LifeInit
  /\ NickInit /\ (part # "nickname" => usable = [c \in Server \X AF |-> FALSE])

Next ==
  /\ UNCHANGED part
  /\ \/ /\ part = "nat test" /\ NatNext
        /\ UNCHANGED <<sigvars, restvars, toxivars, chainvars, lifevars, nickvars>>
     \/ /\ part = "signaling" /\ SigNext
        /\ UNCHANGED <<natvars, restvars, toxivars, chainvars, lifevars, nickvars>>
     \/ /\ part = "rest" /\ RestNext
        /\ UNCHANGED <<natvars, sigvars, toxivars, chainvars, lifevars, nickvars>>
     \/ /\ part = "toxi" /\ ToxiNext
        /\ UNCHANGED <<natvars, sigvars, restvars, chainvars, lifevars, nickvars>>
     \/ /\ part = "chain" /\ ChainNext
        /\ UNCHANGED <<natvars, sigvars, restvars, toxivars, lifevars, nickvars>>
     \/ /\ part = "life" /\ LifeNext /\ AloneIfBusy'
        /\ UNCHANGED <<natvars, sigvars, restvars, toxivars, chainvars, nickvars>>
     \/ /\ part = "nickname" /\ NickNext
        /\ UNCHANGED <<natvars, sigvars, restvars, toxivars, chainvars, lifevars>>

Spec == Init /\ [][Next]_<<part, natvars, sigvars, restvars, toxivars, chainvars,
                           lifevars, nickvars>>
===============================================================================
