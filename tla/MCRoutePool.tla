---- MODULE MCRoutePool ----
(* Pools that sorted_search does not find its way in. *)
EXTENDS RoutePool
Pools == UNION {[1 .. n -> 1 .. 2] : n \in 6 .. 9}
====
