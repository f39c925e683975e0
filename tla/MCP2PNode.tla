------------------------------ MODULE MCP2PNode ------------------------------
(* Small instances of P2PNode for TLC. *)
EXTENDS P2PNode, TLC

CONSTANTS a, b

OneCall  == {<<a, b>>}
OrSelf   == {<<a, a>>, <<a, b>>}

OnePair  == [t \in Technique |-> 1]
TwoPairs == [t \in Technique |-> IF t = "reverse" THEN 1 ELSE 2]

DirectReverse == <<"direct", "reverse">>
PunchRelay    == <<"punch", "relay">>
JustRelay     == <<"relay">>

Ext    == <<"ext">>
ExtNic == <<"ext", "nic">>

Symmetric == Permutations(Pid)
=============================================================================
