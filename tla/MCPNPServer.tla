----------------------------- MODULE MCPNPServer -----------------------------
(* Small instances of PNPServer. *)
EXTENDS PNPServer
CONSTANTS x, y, a, b, i, j

Req(op, n, k, v, t, ip, bump) ==
  [op |-> op, name |-> n, key |-> k, value |-> v, updated |-> t, ip |-> ip,
   bump |-> bump, copy |-> 1]
Again(r) == [r EXCEPT !.copy = 2]

Names == {x, y}
Keys == {a, b}
Ips == {i, j}
IPv6 == {j}
Values == {"", "v", "w"}

\* Two owners want x; one of them also deletes it, twice, and moves it to the
\* IPv6 address of the other, who has y.
Requests ==
  LET del == Req("delete", x, a, "", 2, i, TRUE) IN
  {Req("write", x, a, "v", 0, i, TRUE), Req("write", x, a, "w", 3, j, FALSE),
   del, Again(del),
   Req("write", x, b, "w", 3, j, TRUE), Req("write", y, b, "v", 1, j, TRUE),
   Req("fetch", y, b, "", 1, i, FALSE)}
=============================================================================
