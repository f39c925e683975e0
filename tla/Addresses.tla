------------------------------- MODULE Addresses -------------------------------
(***************************************************************************)
(* Ranges of IP addresses (net/ip_range.py), and the address of a peer     *)
(* that an attempt dials (select_dest_ipr and sort_pairs_by_overlap of     *)
(* node/p2p_utils.py), which compares addresses as ranges.                 *)
(***************************************************************************)
EXTENDS Integers, Sequences, FiniteSets, SequencesExt

CONSTANTS Bits,     \* of an address: 32 or 128
          MaxSize   \* sys.maxsize: the most that len() may give

ASSUME AddressesAssumption == Bits \in Nat \ {0} /\ MaxSize \in Nat \ {0}

Ip == 0 .. 2 ^ Bits - 1
Cidr == 0 .. Bits

\* IPRange.__init__: the host bits of the address are cleared, so an address
\* with a netmask is its network, not one host.  A range of all addresses has
\* one host.
IPRange(ip, cidr) ==
  LET size == 2 ^ (Bits - cidr)
      nw == ip - (ip % size)
      hosts == IF cidr \in {0, Bits} THEN 1 ELSE size - 1 IN
  [cidr |-> cidr, nw |-> nw, host |-> ip % size, host_no |-> hosts,
   r |-> <<nw, IF cidr = Bits THEN nw ELSE nw + hosts>>]

\* A bug: no host is numbered 0, and the last one is left out.
GetValueShort(x, i) ==
  LET n == (IF i < 0 THEN i ELSE i + 1) % x.host_no IN
  IF x.cidr = Bits THEN x.nw ELSE x.nw + (IF n = 0 THEN 1 ELSE n)

\* get_value: indices count hosts from 1, wrap around, and may be negative.
GetValue(x, i) ==
  LET n == (IF i < 0 THEN i ELSE i + 1) % (x.host_no + 1) IN
  IF x.cidr = Bits THEN x.nw ELSE x.nw + (IF n = 0 THEN 1 ELSE n)

\* IPRangeIter, and its reverse, which asks for len() of the range and so
\* raises where there are too many hosts; __add__ and __sub__ of a range.
Overflow == "OverflowError"
Hosts(x) == [k \in 1 .. x.host_no |-> GetValue(x, k - 1)]
HostsReversed(x) ==
  IF x.host_no > MaxSize THEN Overflow
  ELSE [k \in 1 .. x.host_no |-> GetValue(x, (x.host_no - 1) - (k - 1))]
Plus(x, y) == GetValue(x, y.host)
Minus(x, y) == GetValue(x, -y.host)

\* A bug: the ranges are not put in order.
SameRangeUnsorted(x, y) == x.r = y.r \/ y.r[1] <= x.r[2]

\* __eq__ is range_intersects, which sorts the two ranges as lists.
SameRange(x, y) ==
  LET first == IF \/ x.r[1] < y.r[1] \/ (x.r[1] = y.r[1] /\ x.r[2] <= y.r[2])
                 THEN <<x.r, y.r>> ELSE <<y.r, x.r>> IN
  x.r = y.r \/ first[2][1] <= first[1][2]

\* A bug: the first of the two is taken.
LeastOfFirst(x, y) == x

\* __lt__ compares the ends; sorted of two keeps their order where it is even.
Less(x, y) == x.r[2] < y.r[2]
LeastOf(x, y) == IF Less(y, x) THEN y ELSE x

-----------------------------------------------------------------------------
(* Which address is dialed.  An info is [nic, ext, nid]: the addresses as    *)
(* single ones, and netiface_index.                                          *)

Nowhere == {}

\* One address type; nothing if it does not do.  same_lan is set to 1.
ByType(type, samePc, src, dest, hasSetBind) ==
  LET sameIf == src.nid = dest.nid IN
  IF type = "ext" THEN
    IF (samePc /\ sameIf) \/ SameRange(src.ext, dest.ext) THEN Nowhere ELSE {dest.ext}
  ELSE IF ~hasSetBind /\ samePc /\ ~sameIf THEN {LeastOf(dest.nic, src.nic)}
  ELSE {dest.nic}

\* select_dest_ipr: the first type that does.
SelectDest(types, samePc, src, dest, hasSetBind) ==
  LET ofType(k) == ByType(types[k], samePc, src, dest, hasSetBind)
      do == {k \in DOMAIN types : ofType(k) # Nowhere} IN
  IF do = {} THEN Nowhere ELSE ofType(CHOOSE k \in do : \A j \in do : k <= j)

\* sort_pairs_by_overlap, of two lists of infos: <<overlap, unique>>.
SortedPairs(srcs, dests) ==
  LET pairs == [k \in 1 .. Len(srcs) * Len(dests) |->
                 <<srcs[((k - 1) \div Len(dests)) + 1], dests[((k - 1) % Len(dests)) + 1]>>]
      overlaps(p) == SameRange(p[1].ext, p[2].ext) IN
  <<SelectSeq(pairs, overlaps), SelectSeq(pairs, LAMBDA p : ~overlaps(p))>>

-----------------------------------------------------------------------------
(* Any two ranges, and the other way round. *)

VARIABLES ipr1, ipr2

addrvars == <<ipr1, ipr2>>

AddrInit ==
  \E i, j \in Ip, c, d \in Cidr : ipr1 = IPRange(i, c) /\ ipr2 = IPRange(j, d)
AddrNext == ipr1' = ipr2 /\ ipr2' = ipr1
AddrSpec == AddrInit /\ [][AddrNext]_addrvars

-----------------------------------------------------------------------------
(* Properties. *)

Shorter == IF ipr1.cidr < ipr2.cidr THEN ipr1.cidr ELSE ipr2.cidr

\* Iteration gives each host of a range once, the reverse is the reverse if
\* len() can count the hosts (else it raises, on the first one), and negative
\* indices count from the end, up to the limits of the width.  Two
\* ranges are equal exactly if the shorter prefix is a prefix of both,
\* whichever is compared with the other (but a range of all addresses).
RangeIsHosts ==
  /\ Cardinality(Range(Hosts(ipr1))) = ipr1.host_no
  /\ \A a \in Range(Hosts(ipr1)) : SameRange(ipr1, IPRange(a, Bits)) /\ a \in Ip
  /\ IF ipr1.host_no <= MaxSize THEN HostsReversed(ipr1) = Reverse(Hosts(ipr1))
                                ELSE HostsReversed(ipr1) = Overflow
  /\ \A k \in 1 .. ipr1.host_no : GetValue(ipr1, -k) = GetValue(ipr1, ipr1.host_no - k)
  /\ Shorter > 0 =>
       (SameRange(ipr1, ipr2) <=>
          ipr1.nw \div 2 ^ (Bits - Shorter) = ipr2.nw \div 2 ^ (Bits - Shorter))

\* Two interfaces of one machine punch to the same one of their addresses,
\* each working it out for itself ("Choose the same NIC IP for both sides",
\* p2p_utils.py:122); an attempt over external addresses never dials our own.
BothChooseSame ==
  LET a == [nic |-> IPRange(ipr1.nw, Bits), ext |-> ipr1, nid |-> 1]
      b == [nic |-> IPRange(ipr2.nw, Bits), ext |-> ipr2, nid |-> 2] IN
  /\ SelectDest(<<"nic">>, TRUE, a, b, FALSE) = SelectDest(<<"nic">>, TRUE, b, a, FALSE)
  /\ \A x \in SelectDest(<<"ext">>, FALSE, a, b, FALSE) : ~SameRange(x, a.ext)
===============================================================================
