---------------------------- MODULE MCTurnClient ----------------------------
(* Small instances of TurnClient. *)
EXTENDS TurnClient
CONSTANT p
OnePeer == {p}
Wakes == [l \in Loop |-> IF l \in {p, "refresh"} THEN 2 ELSE 1]
=============================================================================
