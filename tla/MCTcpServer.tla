----------------------------- MODULE MCTcpServer -----------------------------
(* Small instances of TcpServer. *)
EXTENDS TcpServer
CONSTANTS c1, c2, c3, w1, w2
Clients == {c1, c2, c3}
Waiters == {w1, w2}
=============================================================================
