--------------------------- MODULE MCReliablePipe ---------------------------
(* Small instances of ReliablePipe. *)
EXTENDS ReliablePipe, TLC
CONSTANTS a, b, m1, m2, m3

\* a sends two data to b, and something to itself.
Messages == {m1, m2, m3}
Sender == m1 :> a @@ m2 :> a @@ m3 :> a
Receiver == m1 :> b @@ m2 :> b @@ m3 :> a
Datum == m1 :> "d" @@ m2 :> "e" @@ m3 :> "d"
=============================================================================
