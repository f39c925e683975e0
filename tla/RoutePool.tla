------------------------------- MODULE RoutePool -------------------------------
(***************************************************************************)
(* The pool of an interface's routes (nic/route/route_defs.py), which is   *)
(* indexed "as if all WAN IPs were at their own index regardless of if     *)
(* they're in ranges": an index finds its route with sorted_search         *)
(* (utility/utils.py) in the running totals of the routes' hosts.          *)
(***************************************************************************)
EXTENDS Integers, Sequences, SequencesExt

CONSTANT Sizes   \* the pools: sequences of the numbers of hosts of routes

ASSUME RoutePoolAssumption == Sizes \subseteq Seq(Nat \ {0})

VARIABLES
  sizes,   \* the numbers of hosts of the routes
  popped   \* what pop returned: pop_pointer is its length

poolvars == <<sizes, popped>>

PoolInit == sizes \in Sizes /\ popped = <<>>

\* len_list and wan_hosts.
LenList(ns) == [k \in 1 .. Len(ns) |-> FoldSeq(+, 0, SubSeq(ns, 1, k))]
WanHosts(ns) == FoldSeq(+, 0, ns)

NotFound == -1
Raised == <<>>
Half(n) == IF n \div 2 = 0 THEN 1 ELSE n \div 2

\* A bug: an entry that is equal is passed.
AtLeastMore(n, i) == n > i

AtLeast(n, i) == n >= i

\* The number, from 0, of the first entry that is at least i, by what is meant
\* to halve the list: after as many looks as it has entries the search raises.
SortedSearch(ns, i) ==
  LET len == Len(ns)
      reached(start) == AtLeast(ns[start + 1], i)
      search[left \in 0 .. len] == [start \in 0 .. len - 1 |->
        IF left = 0 THEN NotFound
        ELSE IF start = 0 THEN 0
        ELSE IF reached(start) /\ ~reached(start - 1) THEN start
        ELSE LET next == IF reached(start) THEN start - Half(start) ELSE start + Half(start)
             IN IF next >= len - 1 THEN len - 1 ELSE search[left - 1][next]]
  IN search[len][len \div 2]

\* get_value of a range: the number of a host, from 1.
HostAt(size, i) ==
  LET n == (IF i < 0 THEN i ELSE i + 1) % (size + 1) IN
  IF size = 1 \/ n = 0 THEN 1 ELSE n

\* get_route_info: a route, from 0, and a host of it; its assertions raise.
RouteInfo(ns, route, host) ==
  LET before == IF route = 0 THEN 0 ELSE LenList(ns)[route]
      rel == host - before IN
  IF rel > LenList(ns)[route + 1] - 1 \/ rel + 1 > WanHosts(ns) THEN Raised
  ELSE <<route, HostAt(ns[route + 1], rel % WanHosts(ns))>>

\* __getitem__ of an integer.
Item(ns, key) ==
  LET k == IF key < 0 THEN key % WanHosts(ns) ELSE key
      route == SortedSearch(LenList(ns), k + 1) IN
  IF route = NotFound THEN Raised ELSE RouteInfo(ns, route, k)

\* RoutePoolIter: the route of the n-th host, from 0.
Iterated(ns) ==
  LET route[n \in 0 .. WanHosts(ns)] ==
        IF n = 0 THEN 0
        ELSE IF n >= LenList(ns)[route[n - 1] + 1] /\ route[n - 1] < Len(ns) - 1
               THEN route[n - 1] + 1 ELSE route[n - 1]
  IN [n \in 1 .. WanHosts(ns) |-> RouteInfo(ns, route[n - 1], n - 1)]

\* pop hides what it returned, and raises when there is nothing more.
Pop ==
  /\ Len(popped) < WanHosts(sizes)
  /\ popped' = Append(popped, Item(sizes, Len(popped)))
  /\ UNCHANGED sizes

PoolNext == Pop
PoolSpec == PoolInit /\ [][PoolNext]_poolvars

-----------------------------------------------------------------------------
(* Properties. *)

\* Every host of every route, in order.
AllHosts(ns) ==
  FlattenSeq([k \in 1 .. Len(ns) |-> [h \in 1 .. ns[k] |-> <<k - 1, h>>]])

\* Each WAN address is at its own index, from either end; iteration and pop go
\* over them all, each once and in order.
PoolIndexed ==
  LET all == AllHosts(sizes)
      n == Len(all) IN
  /\ Iterated(sizes) = all
  /\ \A k \in 0 .. n - 1 : Item(sizes, k) = all[k + 1] /\ Item(sizes, k - n) = all[k + 1]
  /\ popped = SubSeq(all, 1, Len(popped))
===============================================================================
