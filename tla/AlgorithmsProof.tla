---------------------------- MODULE AlgorithmsProof ---------------------------
(***************************************************************************)
(* Proofs about the algorithms that p2pd rests on, part by part.  They cite the *)
(* facts of DataProof about sums, powers, remainders and lists.            *)
(***************************************************************************)
EXTENDS Addresses, NatPredict, PeerAddr, Routes, RoutePool, ClockSkew, DeltaTest, DataProof

-----------------------------------------------------------------------------
(***************************************************************************)
(* Addresses, for any width of an address.                                 *)
(***************************************************************************)

\* What any range is made of.
LEMMA RangeShape ==
  ASSUME AddressesAssumption, NEW i \in Ip, NEW c \in Cidr, NEW x, x = IPRange(i, c),
         NEW S, S = 2 ^ (Bits - c)
  PROVE  /\ S \in Nat \ {0} /\ x.cidr = c /\ x.nw \in Nat /\ x.nw + S <= 2 ^ Bits
         /\ \E q \in Nat : x.nw = q * S
         /\ x.host_no \in Nat \ {0} /\ x.host_no = IF c \in {0, Bits} THEN 1 ELSE S - 1
         /\ x.r = <<x.nw, IF c = Bits THEN x.nw ELSE x.nw + x.host_no>>
         /\ c = Bits => S = 1 /\ x.nw = i
         /\ c # Bits => S >= 2
<1> DEFINE M == 2 ^ c
<1>0. Bits \in Nat \ {0} /\ c \in 0 .. Bits /\ Bits - c \in Nat /\ (Bits - c) + c = Bits /\ c \in Nat
  BY DEF AddressesAssumption, Cidr
<1>1. S \in Nat \ {0} /\ M \in Nat \ {0} /\ 2 ^ Bits \in Nat \ {0}
  BY <1>0, PowerCounts
<1>2. 2 ^ Bits = S * M
  BY <1>0, PowerSum
<1>3. c = Bits => S = 1
  <2>1. c = Bits => Bits - c = 0
    BY <1>0
  <2>2. 2 ^ 0 = 1
    OBVIOUS
  <2> QED BY <2>1, <2>2, Zenon
<1>4. c # Bits => S >= 2
  <2>1. CASE c # Bits
    <3>1. Bits - c - 1 \in Nat /\ (Bits - c - 1) + 1 = Bits - c
      BY <1>0, <2>1
    <3>2. S = 2 * 2 ^ (Bits - c - 1)
      BY <3>1, PowerStep
    <3>3. 2 ^ (Bits - c - 1) \in Nat \ {0}
      BY <3>1, PowerCounts
    <3>4. \A p \in Nat \ {0} : 2 * p >= 2
      OBVIOUS
    <3> QED BY <3>2, <3>3, <3>4
  <2> QED BY <2>1
<1>5. i \in Nat /\ i < S * M
  <2>1. i \in 0 .. 2 ^ Bits - 1
    BY DEF Ip
  <2> QED BY <1>1, <1>2, <2>1
<1> DEFINE q == i \div S
           rem == i % S
<1>6. q \in Nat /\ rem \in 0 .. S - 1 /\ i = q * S + rem
  BY <1>1, <1>5, Divided
<1>7. x.nw = i - rem /\ x.cidr = c
      /\ x.host_no = (IF c \in {0, Bits} THEN 1 ELSE S - 1)
      /\ x.r = <<x.nw, IF c = Bits THEN x.nw ELSE x.nw + x.host_no>>
  BY DEF IPRange
<1>8. c = Bits => x.nw = i
  BY <1>3, <1>5, <1>6, <1>7
<1> HIDE DEF M, q, rem
<1>9. x.nw = q * S
  BY <1>1, <1>6, <1>7
<1>10. q + 1 <= M
  <2>1. q * S + rem < M * S
    BY <1>1, <1>5, <1>6
  <2> QED BY <1>1, <1>6, <2>1, DividedOnce
<1>11. x.nw + S <= 2 ^ Bits
  <2>1. (q + 1) * S <= M * S
    BY <1>1, <1>6, <1>10, TimesMonotone
  <2>2. (q + 1) * S = q * S + S /\ M * S = S * M
    BY <1>1, <1>6
  <2> QED BY <1>1, <1>2, <1>6, <1>9, <2>1, <2>2
<1>12. x.nw \in Nat
  BY <1>1, <1>6, <1>9
<1>13. x.host_no \in Nat \ {0}
  BY <1>1, <1>4, <1>7
<1> QED BY <1>1, <1>3, <1>4, <1>6, <1>7, <1>9, <1>11, <1>8, <1>12, <1>13

\* IsRange(x): some range.  Its shape follows by RangeShape.
IsRange(x) == \E i \in Ip, c \in Cidr : x = IPRange(i, c)

\* The ends of a range, for comparisons.
LEMMA RangeEnds ==
  ASSUME AddressesAssumption, NEW x, IsRange(x)
  PROVE  x.r = <<x.r[1], x.r[2]>> /\ {x.r[1], x.r[2]} \subseteq Nat /\ x.r[1] <= x.r[2]
<1>1. PICK i \in Ip, c \in Cidr : x = IPRange(i, c)
  BY DEF IsRange
<1>2. /\ x.nw \in Nat /\ x.host_no \in Nat
      /\ x.r = <<x.nw, IF c = Bits THEN x.nw ELSE x.nw + x.host_no>>
  BY <1>1, RangeShape
<1> QED BY <1>2

\* Two ranges are equal exactly if one begins before the other ends, both ways.
LEMMA SameRangeIs ==
  ASSUME AddressesAssumption, NEW x, NEW y, IsRange(x), IsRange(y)
  PROVE  SameRange(x, y) <=> (x.r[1] <= y.r[2] /\ y.r[1] <= x.r[2])
<1>0. /\ x.r = <<x.r[1], x.r[2]>> /\ {x.r[1], x.r[2]} \subseteq Nat /\ x.r[1] <= x.r[2]
      /\ y.r = <<y.r[1], y.r[2]>> /\ {y.r[1], y.r[2]} \subseteq Nat /\ y.r[1] <= y.r[2]
  BY RangeEnds
<1>1. CASE x.r = y.r
  BY <1>0, <1>1 DEF SameRange
<1>2. CASE x.r # y.r
  BY <1>0, <1>2 DEF SameRange
<1> QED BY <1>1, <1>2

\* A host has a number, from 1.
LEMMA HostIs ==
  ASSUME AddressesAssumption, NEW i \in Ip, NEW c \in Cidr, NEW x, x = IPRange(i, c),
         NEW k \in 1 .. x.host_no
  PROVE  /\ GetValue(x, k - 1) = IF c = Bits THEN x.nw ELSE x.nw + k
         /\ GetValue(x, -k) = GetValue(x, x.host_no - k)
<1>1. /\ x.cidr = c /\ x.nw \in Nat /\ x.host_no \in Nat \ {0}
  BY RangeShape
<1> DEFINE m == x.host_no + 1
<1>2. m \in Nat \ {0} /\ k \in 0 .. m - 1 /\ m - k \in 0 .. m - 1 /\ k \in Nat /\ k # 0
  BY <1>1
<1>3. \A n \in 0 .. m - 1 : n % m = n
  BY <1>2
<1>4. k - 1 >= 0 /\ (k - 1) + 1 = k /\ x.host_no - k >= 0 /\ (x.host_no - k) + 1 = m - k /\ -k < 0
  BY <1>1
<1>5. k % m = k /\ (m - k) % m = m - k
  BY <1>2, <1>3
<1>6. (-k) % m = m - k
  BY <1>2
<1> HIDE DEF m
<1>7. GetValue(x, k - 1) = IF c = Bits THEN x.nw ELSE x.nw + k
  BY <1>1, <1>2, <1>4, <1>5 DEF GetValue, m
<1>8. GetValue(x, -k) = GetValue(x, x.host_no - k)
  <2>1. ~(x.host_no - k < 0)
    BY <1>1, <1>4
  <2> QED BY <1>1, <1>2, <1>4, <1>5, <1>6, <2>1 DEF GetValue, m
<1> QED BY <1>7, <1>8

\* Iteration, and the reverse of it.
LEMMA HostsAre ==
  ASSUME AddressesAssumption, NEW i \in Ip, NEW c \in Cidr, NEW x, x = IPRange(i, c)
  PROVE  /\ Cardinality(Range(Hosts(x))) = x.host_no
         /\ \A a \in Range(Hosts(x)) : SameRange(x, IPRange(a, Bits)) /\ a \in Ip
         /\ IF x.host_no <= MaxSize THEN HostsReversed(x) = Reverse(Hosts(x))
                                    ELSE HostsReversed(x) = Overflow
<1> DEFINE S == 2 ^ (Bits - c)
           N == x.host_no
           h == Hosts(x)
           R == Range(h)
<1>1. /\ S \in Nat \ {0} /\ x.nw \in Nat /\ x.nw + S <= 2 ^ Bits
      /\ N \in Nat \ {0} /\ N = IF c \in {0, Bits} THEN 1 ELSE S - 1
      /\ x.r = <<x.nw, IF c = Bits THEN x.nw ELSE x.nw + N>>
      /\ c # Bits => S >= 2
  BY RangeShape
<1> HIDE DEF S, N
<1>2. h = [k \in 1 .. N |-> IF c = Bits THEN x.nw ELSE x.nw + k]
  <2>1. \A k \in 1 .. N : GetValue(x, k - 1) = IF c = Bits THEN x.nw ELSE x.nw + k
    BY HostIs DEF N
  <2> QED BY <2>1 DEF Hosts, N
<1>3. Cardinality(R) = N
  <2>1. h \in [1 .. N -> R]
    BY <1>2 DEF Range
  <2>2. \A k, l \in 1 .. N : h[k] = h[l] => k = l
    BY <1>1, <1>2
  <2>3. \A a \in R : \E k \in 1 .. N : h[k] = a
    BY <1>2 DEF Range
  <2> HIDE DEF h, R
  <2>4. h \in Bijection(1 .. N, R)
    BY <2>1, <2>2, <2>3 DEF Bijection, Injection, Surjection, IsInjective
  <2>5. IsFiniteSet(1 .. N) /\ Cardinality(1 .. N) = N
    <3>1. IsFiniteSet(1 .. N) /\ Cardinality(1 .. N) = IF 1 > N THEN 0 ELSE N - 1 + 1
      <4>1. 1 \in Int /\ N \in Int
        BY <1>1
      <4> QED BY <4>1, FS_Interval
    <3> QED BY <1>1, <3>1
  <2> QED BY <2>4, <2>5, FS_Bijection DEF ExistsBijection
<1>4. ASSUME NEW a \in R PROVE SameRange(x, IPRange(a, Bits)) /\ a \in Ip
  <2>1. PICK k \in 1 .. N : a = IF c = Bits THEN x.nw ELSE x.nw + k
    BY <1>2 DEF Range
  <2>2. a \in Nat /\ a >= x.nw /\ a <= x.nw + S - 1 /\ a <= x.r[2] /\ x.r[1] = x.nw
    BY <1>1, <2>1
  <2>3. a \in Ip
    <3>1. 2 ^ Bits \in Nat
      BY PowerCounts DEF AddressesAssumption
    <3> QED BY <1>1, <2>2, <3>1 DEF Ip
  <2> DEFINE y == IPRange(a, Bits)
  <2>4. Bits \in Cidr
    BY DEF AddressesAssumption, Cidr
  <2>5. y.r[1] = a /\ y.r[2] = a
    BY <2>3, <2>4, RangeShape
  <2>6. IsRange(x) /\ IsRange(y)
    BY <2>3, <2>4 DEF IsRange
  <2> HIDE DEF y
  <2>7. SameRange(x, y)
    BY <1>1, <2>2, <2>5, <2>6, SameRangeIs
  <2> QED BY <2>3, <2>7 DEF y
<1>5. ASSUME N <= MaxSize PROVE HostsReversed(x) = Reverse(h)
  <2>1. Len(h) = N
    BY <1>1, <1>2
  <2>2. \A k \in 1 .. N : /\ (N - k) + 1 \in 1 .. N
                         /\ (N - 1) - (k - 1) = ((N - k) + 1) - 1
    BY <1>1
  <2>3. \A k \in 1 .. N : h[(N - k) + 1] = GetValue(x, ((N - k) + 1) - 1)
    BY <2>2 DEF Hosts, N
  <2>4. HostsReversed(x) = [k \in 1 .. N |-> GetValue(x, (N - 1) - (k - 1))]
    BY <1>1, <1>5 DEF HostsReversed, N, AddressesAssumption
  <2>5. Reverse(h) = [k \in 1 .. N |-> h[(N - k) + 1]]
    BY <2>1 DEF Reverse
  <2> HIDE DEF h
  <2> QED BY <2>2, <2>3, <2>4, <2>5
<1>6. ASSUME ~(N <= MaxSize) PROVE HostsReversed(x) = Overflow
  BY <1>1, <1>6 DEF HostsReversed, N, AddressesAssumption
<1> QED BY <1>3, <1>4, <1>5, <1>6 DEF N

\* A prefix that is no longer than the other: the other range begins in the
\* same block of its size, or is apart from it.
LEMMA PrefixIs ==
  ASSUME AddressesAssumption, NEW i \in Ip, NEW j \in Ip, NEW c \in Cidr, NEW d \in Cidr,
         c <= d, 0 < c, NEW x, x = IPRange(i, c), NEW y, y = IPRange(j, d)
  PROVE  SameRange(x, y) <=> x.nw \div 2 ^ (Bits - c) = y.nw \div 2 ^ (Bits - c)
<1> DEFINE S == 2 ^ (Bits - c)
           T == 2 ^ (Bits - d)
           K == 2 ^ (d - c)
           w == y.nw \div S
           rem == y.nw % S
<1>1. S \in Nat \ {0} /\ T \in Nat \ {0} /\ K \in Nat \ {0} /\ S = T * K
  <2>1. Bits - c \in Nat /\ Bits - d \in Nat /\ d - c \in Nat /\ Bits - c = (Bits - d) + (d - c)
    BY DEF AddressesAssumption, Cidr
  <2>2. 2 ^ ((Bits - d) + (d - c)) = T * K
    BY <2>1, PowerSum
  <2> QED BY <2>1, <2>2, PowerCounts
<1>2. /\ x.nw \in Nat /\ x.r[1] = x.nw /\ x.r[2] = x.nw + S - 1
      /\ \E q \in Nat : x.nw = q * S
  <2>1. /\ x.nw \in Nat /\ \E q \in Nat : x.nw = q * S
        /\ x.host_no = IF c \in {0, Bits} THEN 1 ELSE S - 1
        /\ x.r = <<x.nw, IF c = Bits THEN x.nw ELSE x.nw + x.host_no>>
        /\ c = Bits => S = 1
    BY RangeShape
  <2>2. 0 < c /\ S \in Nat
    BY <1>1 DEF Cidr
  <2> HIDE DEF S
  <2> QED BY <2>1, <2>2
<1>3. /\ y.nw \in Nat /\ y.r[1] = y.nw /\ y.r[2] = y.nw + T - 1
      /\ \E q \in Nat : y.nw = q * T
  <2>1. /\ y.nw \in Nat /\ \E q \in Nat : y.nw = q * T
        /\ y.host_no = IF d \in {0, Bits} THEN 1 ELSE T - 1
        /\ y.r = <<y.nw, IF d = Bits THEN y.nw ELSE y.nw + y.host_no>>
        /\ d = Bits => T = 1
    BY RangeShape
  <2>2. 0 < d /\ T \in Nat
    BY <1>1 DEF Cidr
  <2> HIDE DEF T
  <2> QED BY <2>1, <2>2
<1>4. PICK q \in Nat : x.nw = q * S
  BY <1>2
<1>5. PICK p \in Nat : y.nw = p * T
  BY <1>3
<1>6. w \in Nat /\ rem \in 0 .. S - 1 /\ y.nw = w * S + rem
  BY <1>1, <1>3, Divided
<1>7. x.nw \div S = q
  <2>1. 0 \in 0 .. S - 1 /\ x.nw = q * S + 0
    BY <1>1, <1>2, <1>4
  <2> QED BY <1>1, <2>1, DivideIs
<1>8. SameRange(x, y) <=> (x.nw <= y.nw + T - 1 /\ y.nw <= x.nw + S - 1)
  <2>1. IsRange(x) /\ IsRange(y)
    BY DEF IsRange
  <2> HIDE DEF S, T
  <2> QED BY <1>2, <1>3, <2>1, SameRangeIs
<1> HIDE DEF S, T, K, w, rem
<1>9. ASSUME q = w PROVE SameRange(x, y)
  BY <1>1, <1>2, <1>3, <1>4, <1>6, <1>8, <1>9
<1>10. ASSUME SameRange(x, y) PROVE q = w
  <2>1. x.nw <= y.nw + T - 1 /\ y.nw <= x.nw + S - 1
    BY <1>8, <1>10
  <2>2. x.nw <= y.nw
    <3> SUFFICES ASSUME y.nw < x.nw PROVE FALSE
      BY <1>2, <1>3
    <3>1. x.nw = (q * K) * T
      BY <1>1, <1>4
    <3>2. q * K \in Nat
      BY <1>1
    <3>3. p < q * K
      <4>1. p * T + 0 < (q * K) * T /\ 0 \in 0 .. T - 1
        BY <1>1, <1>3, <1>5, <3>1
      <4> QED BY <1>1, <3>2, <4>1, DividedOnce
    <3>4. (p + 1) * T <= (q * K) * T
      BY <1>1, <3>2, <3>3, TimesMonotone
    <3>5. (p + 1) * T = y.nw + T
      BY <1>1, <1>5
    <3> QED BY <1>1, <1>3, <2>1, <3>1, <3>4, <3>5
  <2>3. y.nw - x.nw \in 0 .. S - 1 /\ y.nw = q * S + (y.nw - x.nw)
    BY <1>1, <1>2, <1>3, <1>4, <2>1, <2>2
  <2> QED BY <1>1, <2>3, DivideIs DEF w
<1> QED BY <1>7, <1>9, <1>10 DEF S, w

AddrTypeOK == IsRange(ipr1) /\ IsRange(ipr2)

LEMMA AddrTypeHolds == AddrSpec => []AddrTypeOK
<1>1. AddrInit => AddrTypeOK
  BY DEF AddrInit, AddrTypeOK, IsRange
<1>2. AddrTypeOK /\ [AddrNext]_addrvars => AddrTypeOK'
  BY DEF AddrTypeOK, IsRange, AddrNext, addrvars
<1> QED BY <1>1, <1>2, PTL DEF AddrSpec

LEMMA RangesAreHosts ==
  ASSUME AddressesAssumption, AddrTypeOK
  PROVE  RangeIsHosts
<1>1. PICK i \in Ip, c \in Cidr : ipr1 = IPRange(i, c)
  BY DEF AddrTypeOK, IsRange
<1>2. PICK j \in Ip, d \in Cidr : ipr2 = IPRange(j, d)
  BY DEF AddrTypeOK, IsRange
<1>3. /\ Cardinality(Range(Hosts(ipr1))) = ipr1.host_no
      /\ \A a \in Range(Hosts(ipr1)) : SameRange(ipr1, IPRange(a, Bits)) /\ a \in Ip
      /\ IF ipr1.host_no <= MaxSize THEN HostsReversed(ipr1) = Reverse(Hosts(ipr1))
                                    ELSE HostsReversed(ipr1) = Overflow
  BY <1>1, HostsAre
<1>4. \A k \in 1 .. ipr1.host_no : GetValue(ipr1, -k) = GetValue(ipr1, ipr1.host_no - k)
  BY <1>1, HostIs
<1>5. ipr1.cidr = c /\ ipr2.cidr = d /\ c \in Nat /\ d \in Nat
  BY <1>1, <1>2 DEF IPRange, Cidr
<1>6. ASSUME Shorter > 0
      PROVE  SameRange(ipr1, ipr2) <=>
               ipr1.nw \div 2 ^ (Bits - Shorter) = ipr2.nw \div 2 ^ (Bits - Shorter)
  <2>1. CASE c < d
    <3>1. Shorter = c
      BY <1>5, <2>1 DEF Shorter
    <3> QED BY <1>1, <1>2, <1>5, <1>6, <2>1, <3>1, PrefixIs
  <2>2. CASE d <= c
    <3>1. Shorter = d
      BY <1>5, <2>2 DEF Shorter
    <3>2. SameRange(ipr2, ipr1) <=>
            ipr2.nw \div 2 ^ (Bits - d) = ipr1.nw \div 2 ^ (Bits - d)
      BY <1>1, <1>2, <1>5, <1>6, <2>2, <3>1, PrefixIs
    <3>3. SameRange(ipr1, ipr2) <=> SameRange(ipr2, ipr1)
      BY SameRangeIs DEF AddrTypeOK
    <3> QED BY <3>1, <3>2, <3>3
  <2> QED BY <1>5, <2>1, <2>2
<1> QED BY <1>3, <1>4, <1>6 DEF RangeIsHosts

\* An IPRange of any width is the hosts that its iterator gives, each once and
\* in the order that negative indices turn round, and __reversed__ too unless
\* len() cannot count them; ranges are equal exactly if the shorter prefix is a
\* prefix of both.
THEOREM RangeIsHostsHolds == AddrSpec => []RangeIsHosts
<1> USE AddressesAssumption
<1> QED BY AddrTypeHolds, RangesAreHosts, PTL

\* A search of one address type.
LEMMA OneType ==
  ASSUME NEW t, NEW samePc, NEW src, NEW dest, NEW bind
  PROVE  SelectDest(<<t>>, samePc, src, dest, bind) = ByType(t, samePc, src, dest, bind)
<1> DEFINE types == <<t>>
           ofType(k) == ByType(types[k], samePc, src, dest, bind)
           do == {k \in DOMAIN types : ofType(k) # Nowhere}
<1>1. SelectDest(<<t>>, samePc, src, dest, bind) =
        IF do = {} THEN Nowhere ELSE ofType(CHOOSE k \in do : \A j \in do : k <= j)
  BY DEF SelectDest
<1>2. DOMAIN types = {1} /\ types[1] = t
  OBVIOUS
<1> HIDE DEF types
<1>3. ofType(1) = ByType(t, samePc, src, dest, bind)
  BY <1>2
<1> HIDE DEF ofType
<1>4. CASE ofType(1) = Nowhere
  BY <1>1, <1>2, <1>3, <1>4
<1>5. CASE ofType(1) # Nowhere
  <2>1. do = {1}
    BY <1>2, <1>5
  <2> HIDE DEF do
  <2>2. (CHOOSE k \in do : \A j \in do : k <= j) = 1
    <3>1. \A k \in do : (\A j \in do : k <= j) <=> k = 1
      BY <2>1
    <3>2. 1 \in do
      BY <2>1
    <3> QED BY <3>1, <3>2
  <2>3. do # {}
    BY <2>1
  <2> QED BY <1>1, <1>3, <2>2, <2>3
<1> QED BY <1>4, <1>5

\* Of two single addresses, the least is the same from both sides.
LEMMA LeastOfTwo ==
  ASSUME AddressesAssumption, NEW i \in Ip, NEW j \in Ip, NEW x, x = IPRange(i, Bits),
         NEW y, y = IPRange(j, Bits)
  PROVE  LeastOf(x, y) = LeastOf(y, x)
<1>1. Bits \in Cidr
  BY DEF AddressesAssumption, Cidr
<1>2. x.r[2] = i /\ y.r[2] = j
  BY <1>1, RangeShape
<1>3. i \in Int /\ j \in Int
  <2>1. 2 ^ Bits \in Nat
    BY PowerCounts DEF AddressesAssumption
  <2> QED BY <2>1 DEF Ip
<1>4. CASE i = j
  BY <1>4 DEF LeastOf
<1>5. CASE i < j
  BY <1>2, <1>3, <1>5 DEF LeastOf, Less
<1>6. CASE j < i
  BY <1>2, <1>3, <1>6 DEF LeastOf, Less
<1> QED BY <1>3, <1>4, <1>5, <1>6

LEMMA ChosenAlike ==
  ASSUME AddressesAssumption, AddrTypeOK
  PROVE  BothChooseSame
<1> DEFINE a == [nic |-> IPRange(ipr1.nw, Bits), ext |-> ipr1, nid |-> 1]
           b == [nic |-> IPRange(ipr2.nw, Bits), ext |-> ipr2, nid |-> 2]
<1>1. SelectDest(<<"nic">>, TRUE, a, b, FALSE) = SelectDest(<<"nic">>, TRUE, b, a, FALSE)
  <2>1. /\ ByType("nic", TRUE, a, b, FALSE) = {LeastOf(b.nic, a.nic)}
        /\ ByType("nic", TRUE, b, a, FALSE) = {LeastOf(a.nic, b.nic)}
    BY DEF ByType
  <2>2. ipr1.nw \in Ip /\ ipr2.nw \in Ip
    <3>1. \A x : IsRange(x) => x.nw \in Ip
      <4> SUFFICES ASSUME NEW i \in Ip, NEW c \in Cidr, NEW x, x = IPRange(i, c)
                   PROVE  x.nw \in Ip
        BY DEF IsRange
      <4> DEFINE S == 2 ^ (Bits - c)
      <4>1. S \in Nat \ {0} /\ x.nw \in Nat /\ x.nw + S <= 2 ^ Bits
        BY RangeShape
      <4>2. 2 ^ Bits \in Nat
        BY PowerCounts DEF AddressesAssumption
      <4> HIDE DEF S
      <4> QED BY <4>1, <4>2 DEF Ip
    <3> QED BY <3>1 DEF AddrTypeOK
  <2>3. LeastOf(b.nic, a.nic) = LeastOf(a.nic, b.nic)
    BY <2>2, LeastOfTwo
  <2> HIDE DEF a, b
  <2> QED BY <2>1, <2>3, OneType
<1>2. ASSUME NEW x \in SelectDest(<<"ext">>, FALSE, a, b, FALSE) PROVE ~SameRange(x, a.ext)
  <2>1. x \in ByType("ext", FALSE, a, b, FALSE)
    BY <1>2, OneType
  <2>2. ~SameRange(ipr1, ipr2) /\ x = ipr2
    BY <2>1 DEF ByType, Nowhere
  <2>3. ~SameRange(ipr2, ipr1)
    BY <2>2, SameRangeIs DEF AddrTypeOK
  <2> QED BY <2>2, <2>3
<1> QED BY <1>1, <1>2 DEF BothChooseSame

\* select_dest_ipr gives both interfaces of a machine the same address, whatever
\* the two ranges and the width of an address; over external addresses it never
\* gives our own.
THEOREM BothChooseSameHolds == AddrSpec => []BothChooseSame
<1> USE AddressesAssumption
<1> QED BY AddrTypeHolds, ChosenAlike, PTL

-----------------------------------------------------------------------------
(***************************************************************************)
(* NatPredict, for any ports and deltas.                                   *)
(***************************************************************************)

Ports == LowPort .. MaxPort

\* What never changes, and the mapping each message carries.
PredTypeOK ==
  /\ mode \in Mode
  /\ behind \in [Peer -> NatKind]
  /\ mode # "remote" => \A s \in Peer : behind[s] = NatInfo("open", "equal", 0)
  /\ preload \in [Peer -> [local : Sample, remote : Sample]]

\* The mappings a side may have predicted from what it had been sent.
Begun == send = [s \in Peer |-> {}]

Sent == \E x \in Predictions("initiator", {}) :
          /\ send["initiator"] = {x}
          /\ send["recipient"] = {}
          /\ exchange = "sent" => recv["initiator"] = {Placeholder(x)}

Replied ==
  \E x \in Predictions("initiator", {}) : \E y \in Predictions("recipient", {x}) :
    /\ send["initiator"] = {x} /\ send["recipient"] = {y}
    /\ recv["recipient"] = {x}
    /\ exchange = "replied" => recv["initiator"] = {Placeholder(x)}
    /\ exchange = "updated" /\ Nat4("initiator").delta # "preserv" => recv["initiator"] = {y}

Exchanged ==
  /\ exchange \in {"begin", "sent", "replied", "updated", "raised"}
  /\ exchange = "begin" => Begun
  /\ exchange = "sent" => Sent
  /\ exchange \in {"replied", "updated"} => Replied

PredInv == PredTypeOK /\ Exchanged /\ DOMAIN send = Peer /\ DOMAIN recv = Peer

LEMMA PeerIs == /\ Peer = {"initiator", "recipient"}
                /\ Other("initiator") = "recipient" /\ Other("recipient") = "initiator"
  BY DEF Peer, Other

LEMMA PredictInitHolds == PredictInit => PredInv
<1> SUFFICES ASSUME PredictInit PROVE PredInv
  OBVIOUS
<1>1. PredTypeOK
  <2>1. mode \in Mode /\ preload \in [Peer -> [local : Sample, remote : Sample]]
    BY DEF PredictInit
  <2>2. NatInfo("open", "equal", 0) \in NatKind
    BY DEF NatKind
  <2>3. behind \in [Peer -> NatKind]
    BY <2>2 DEF PredictInit
  <2>4. mode # "remote" => \A s \in Peer : behind[s] = NatInfo("open", "equal", 0)
    BY DEF PredictInit
  <2> QED BY <2>1, <2>3, <2>4 DEF PredTypeOK
<1>2. Exchanged
  BY DEF PredictInit, Exchanged, Begun
<1> QED BY <1>1, <1>2 DEF PredInv, PredictInit

LEMMA InitiateStep ==
  ASSUME PredInv, Initiate
  PROVE  PredInv'
<1>1. UNCHANGED <<mode, behind, preload, another>>
  BY DEF Initiate, Raise
<1>2. PredTypeOK'
  BY <1>1 DEF PredInv, PredTypeOK
<1>3. CASE Raise
  BY <1>2, <1>3 DEF Raise, PredInv, Exchanged
<1>4. ASSUME NEW x \in Predictions("initiator", {}),
             exchange' = "sent",
             send' = [send EXCEPT !["initiator"] = {x}],
             recv' = [recv EXCEPT !["initiator"] = {Placeholder(x)}]
      PROVE  PredInv'
  <2>1. x \in Predictions("initiator", {})' /\ Placeholder(x)' = Placeholder(x)
    BY <1>1 DEF Predictions, CannotPredict, Nat4, Templates, UseStunPort, SingleMapping, Placeholder
  <2>2. send["recipient"] = {}
    BY DEF PredInv, Exchanged, Begun, Peer, Initiate
  <2>3. send'["initiator"] = {x} /\ send'["recipient"] = {} /\ recv'["initiator"] = {Placeholder(x)}
    BY <1>4, <2>2, PeerIs DEF PredInv
  <2>4. Sent'
    BY <2>1, <2>3 DEF Sent
  <2> QED BY <1>2, <1>4, <2>4 DEF PredInv, Exchanged
<1> QED BY <1>1, <1>3, <1>4 DEF Initiate

LEMMA PredictionsStay ==
  ASSUME UNCHANGED <<mode, behind, preload>>, NEW s, NEW r, NEW x
  PROVE  /\ Predictions(s, r)' = Predictions(s, r)
         /\ Placeholder(x)' = Placeholder(x) /\ Nat4(s)' = Nat4(s)
  BY DEF Predictions, CannotPredict, Nat4, Templates, UseStunPort, SingleMapping, Placeholder

LEMMA ReceiveStep ==
  ASSUME PredInv, Receive
  PROVE  PredInv'
<1>1. UNCHANGED <<mode, behind, preload, another>>
  BY DEF Receive, Raise
<1>2. PredTypeOK'
  BY <1>1 DEF PredInv, PredTypeOK
<1>3. CASE Raise
  BY <1>2, <1>3 DEF Raise, PredInv, Exchanged
<1>4. ASSUME NEW y \in Predictions("recipient", send["initiator"]),
             exchange' = "replied",
             send' = [send EXCEPT !["recipient"] = {y}],
             recv' = [recv EXCEPT !["recipient"] = send["initiator"]]
      PROVE  PredInv'
  <2>1. PICK x \in Predictions("initiator", {}) :
          send["initiator"] = {x} /\ recv["initiator"] = {Placeholder(x)}
    BY DEF PredInv, Exchanged, Sent, Receive
  <2>2. /\ send'["initiator"] = {x} /\ send'["recipient"] = {y}
        /\ recv'["recipient"] = {x} /\ recv'["initiator"] = {Placeholder(x)}
    BY <1>4, <2>1, PeerIs DEF PredInv
  <2>3. x \in Predictions("initiator", {})' /\ y \in Predictions("recipient", {x})'
        /\ Placeholder(x)' = Placeholder(x)
    BY <1>1, <2>1, PredictionsStay
  <2>4. Replied'
    BY <1>4, <2>2, <2>3 DEF Replied
  <2> QED BY <1>2, <1>4, <2>4 DEF PredInv, Exchanged
<1> QED BY <1>1, <1>3, <1>4 DEF Receive

LEMMA UpdateStep ==
  ASSUME PredInv, Update
  PROVE  PredInv'
<1>1. UNCHANGED <<mode, behind, preload, another, send>> /\ exchange = "replied" /\ exchange' = "updated"
  BY DEF Update
<1>2. PredTypeOK'
  BY <1>1 DEF PredInv, PredTypeOK
<1>3. PICK x \in Predictions("initiator", {}) : \E y \in Predictions("recipient", {x}) :
        /\ send["initiator"] = {x} /\ send["recipient"] = {y}
        /\ recv["recipient"] = {x}
  BY <1>1 DEF PredInv, Exchanged, Replied
<1>4. PICK y \in Predictions("recipient", {x}) :
        /\ send["initiator"] = {x} /\ send["recipient"] = {y}
        /\ recv["recipient"] = {x}
  BY <1>3
<1>5. x \in Predictions("initiator", {})' /\ y \in Predictions("recipient", {x})'
      /\ Nat4("initiator")' = Nat4("initiator")
  BY <1>1, <1>3, <1>4, PredictionsStay
<1>6. /\ DOMAIN recv' = Peer /\ recv'["recipient"] = {x}
      /\ Nat4("initiator").delta # "preserv" => recv'["initiator"] = {y}
  <2>1. \E z : /\ recv' = [recv EXCEPT !["initiator"] = {z}]
               /\ Nat4("initiator").delta # "preserv" => z = y
    <3>1. CASE mode = "self" \/ x.reply = 0 \/ Nat4("initiator").delta # "preserv"
      BY <1>4, <3>1 DEF Update
    <3>2. CASE ~(mode = "self" \/ x.reply = 0 \/ Nat4("initiator").delta # "preserv")
      BY <1>4, <3>2 DEF Update
    <3> QED BY <3>1, <3>2
  <2> QED BY <1>4, <2>1, PeerIs DEF PredInv
<1>7. Replied'
  BY <1>1, <1>4, <1>5, <1>6 DEF Replied
<1> QED BY <1>1, <1>2, <1>6, <1>7 DEF PredInv, Exchanged

\* The state of an exchange of predictions follows from the NATs, the preloaded
\* mappings and how far the exchange is: what each side has sent and taken in.
THEOREM PredInvHolds == PredictSpec => []PredInv
<1>1. ASSUME PredInv, [PredictNext]_predictvars PROVE PredInv'
  <2>1. CASE UNCHANGED predictvars
    <3>1. UNCHANGED <<mode, behind, preload, exchange, send, recv>>
      BY <2>1 DEF predictvars
    <3>2. PredTypeOK'
      BY <1>1, <3>1 DEF PredInv, PredTypeOK
    <3>3. Begun' = Begun
      BY <3>1 DEF Begun
    <3>4. Sent => Sent'
      BY <3>1, PredictionsStay DEF Sent
    <3>5. ASSUME Replied PROVE Replied'
      <4>1. PICK x \in Predictions("initiator", {}) : \E y \in Predictions("recipient", {x}) :
              /\ send["initiator"] = {x} /\ send["recipient"] = {y}
              /\ recv["recipient"] = {x}
              /\ exchange = "replied" => recv["initiator"] = {Placeholder(x)}
              /\ exchange = "updated" /\ Nat4("initiator").delta # "preserv" =>
                   recv["initiator"] = {y}
        BY <3>5 DEF Replied
      <4>2. PICK y \in Predictions("recipient", {x}) :
              /\ send["initiator"] = {x} /\ send["recipient"] = {y}
              /\ recv["recipient"] = {x}
              /\ exchange = "replied" => recv["initiator"] = {Placeholder(x)}
              /\ exchange = "updated" /\ Nat4("initiator").delta # "preserv" =>
                   recv["initiator"] = {y}
        BY <4>1
      <4>3. /\ x \in Predictions("initiator", {})' /\ y \in Predictions("recipient", {x})'
            /\ Placeholder(x)' = Placeholder(x) /\ Nat4("initiator")' = Nat4("initiator")
        BY <3>1, <4>1, <4>2, PredictionsStay
      <4> QED BY <3>1, <4>2, <4>3 DEF Replied
    <3> QED BY <1>1, <3>1, <3>2, <3>3, <3>4, <3>5 DEF PredInv, Exchanged
  <2> QED BY <1>1, <2>1, InitiateStep, ReceiveStep, UpdateStep DEF PredictNext
<1> QED BY <1>1, PredictInitHolds, PTL DEF PredictSpec

-----------------------------------------------------------------------------

\* The remainder of a port that is less than twice around.
LEMMA FieldWrapIs ==
  ASSUME NatPredictAssumption, NEW p \in Nat, p <= 2 * MaxPort + 1, NEW low \in Nat
  PROVE  FieldWrap(p, low) =
           IF p <= MaxPort THEN (IF p < low THEN p + low ELSE p)
           ELSE IF p - MaxPort - 1 < low THEN p - MaxPort - 1 + low ELSE p - MaxPort - 1
<1> DEFINE m == MaxPort + 1
<1>1. m \in Nat \ {0}
  BY DEF NatPredictAssumption
<1>2. p <= MaxPort => p % m = p
  BY <1>1
<1>3. p > MaxPort => p % m = p - m
  <2> SUFFICES ASSUME p > MaxPort PROVE p % m = p - m
    OBVIOUS
  <2>1. p - m \in 0 .. m - 1
    BY <1>1
  <2>2. (p - m) + m = p
    BY <1>1
  <2>3. \A q \in 0 .. m - 1 : (q + m) % m = q
    BY <1>1
  <2> QED BY <2>1, <2>2, <2>3
<1> HIDE DEF m
<1>4. m = MaxPort + 1 /\ MaxPort \in Nat
  BY DEF m, NatPredictAssumption
<1> QED BY <1>2, <1>3, <1>4 DEF FieldWrap, m

\* A prediction is one for some mapping of the peer's, or for a template.
LEMMA PredictionIs ==
  ASSUME NEW s, NEW r, NEW x \in Predictions(s, r)
  PROVE  \E t \in IF r = {} THEN Templates(Nat4(s), Nat4(Other(s))) ELSE r :
           x \in SingleMapping(t, Nat4(s), preload[s])
BY DEF Predictions

\* The NATs of the two sides.
LEMMA NatIs ==
  ASSUME PredTypeOK, NEW s \in Peer
  PROVE  /\ Nat4(s) \in NatKind
         /\ mode # "remote" => Nat4(s) = NatInfo("open", "equal", 0)
<1>1. NatInfo("open", "equal", 0) \in NatKind
  BY DEF NatKind
<1> QED BY <1>1 DEF PredTypeOK, Nat4

LEMMA KindIs ==
  ASSUME NEW n \in NatKind
  PROVE  \/ n.delta = "equal"
         \/ IsOpen(n) /\ n.delta = "random"
         \/ ~IsOpen(n) /\ n.delta \in {"preserv", "random"}
         \/ ~IsOpen(n) /\ n.delta \in {"independent", "dependent"} /\ n.value \in Delta
<1>1. CASE n = NatInfo("open", "equal", 0)
  BY <1>1 DEF NatInfo
<1>2. CASE n \in [type : Cone \cup {"symmetric"}, delta : {"equal", "preserv", "random"}, value : {0}]
  BY <1>2 DEF Cone, IsOpen
<1>3. CASE n \in [type : Cone \cup {"symmetric"}, delta : {"independent", "dependent"}, value : Delta]
  BY <1>3 DEF Cone, IsOpen
<1>4. CASE n \in {NatInfo("firewall", d, 0) : d \in {"equal", "random"}}
  BY <1>4 DEF NatInfo, IsOpen
<1> QED BY <1>1, <1>2, <1>3, <1>4 DEF NatKind

\* A NAT goes on from 1 behind its last port.
LEMMA NatWrapIs ==
  ASSUME NatPredictAssumption, NEW p \in Nat \ {0}, p <= 2 * MaxPort
  PROVE  NatWrap(p) = IF p <= MaxPort THEN p ELSE p - MaxPort
<1> DEFINE m == MaxPort
           q == p - 1
<1>1. m \in Nat \ {0} /\ q \in Nat /\ q < m + m /\ p = q + 1
  BY DEF NatPredictAssumption
<1> HIDE DEF m, q
<1>2. q % m = IF q < m THEN q ELSE q - m
  <2>1. CASE q < m
    BY <1>1, <2>1
  <2>2. CASE ~(q < m)
    <3>1. q - m \in 0 .. m - 1 /\ (q - m) + m = q
      BY <1>1, <2>2
    <3>2. \A r \in 0 .. m - 1 : (r + m) % m = r
      BY <1>1
    <3> QED BY <2>2, <3>1, <3>2
  <2> QED BY <2>1, <2>2
<1>3. NatWrap(p) = (q % m) + 1
  BY DEF NatWrap, m, q
<1>4. m = MaxPort
  BY DEF m
<1> QED BY <1>1, <1>2, <1>3, <1>4

\* What is predicted of a NAT that has been taken for predictable is right, or
\* off by what lies below LowPort where the NAT wraps around.
LEMMA PredictionRight ==
  ASSUME NatPredictAssumption, PredTypeOK, NEW s \in Peer, NEW r,
         NEW x \in SingleMapping(r, Nat4(s), preload[s]), Predictable(s)
  PROVE  (IF mode = "lan" THEN x.local ELSE x.remote) =
           IF WrapsAround(s) THEN MappedPort(s, x.local) + (LowPort - 1)
                             ELSE MappedPort(s, x.local)
<1> DEFINE n == Nat4(s)
           last == preload[s]
           next == last.remote + n.value
<1>1. n \in NatKind /\ (mode # "remote" => n = NatInfo("open", "equal", 0))
  BY NatIs
<1>2. last \in [local : Sample, remote : Sample]
  BY DEF PredTypeOK
<1>3. n.delta # "preserv"
  BY DEF Predictable
<1>a. Sample \subseteq LowPort .. MaxPort /\ LowPort \in Nat \ {0} /\ MaxPort \in Nat \ {0}
  BY DEF NatPredictAssumption
<1>4. CASE IsOpen(n) \/ n.delta = "equal"
  <2>1. x.local = x.remote
    <3>1. CASE mode = "self"
      BY <3>1 DEF SingleMapping, Mapping4
    <3>2. CASE mode # "self"
      <4>1. x = Mapping4(BindPort(r), 0, BindPort(r))
        BY <1>4, <3>2 DEF SingleMapping
      <4> QED BY <4>1 DEF Mapping4
    <3> QED BY <3>1, <3>2
  <2>2. MappedPort(s, x.local) = x.local
    BY <1>4 DEF MappedPort
  <2>3. n.delta \in {"equal", "random"}
    <3> HIDE DEF n
    <3> QED BY <1>1, <1>4, KindIs
  <2>4. ~WrapsAround(s)
    BY <2>3 DEF WrapsAround
  <2> QED BY <2>1, <2>2, <2>4
<1>5. CASE ~(IsOpen(n) \/ n.delta = "equal")
  <2>0. /\ ~IsOpen(n) /\ n.delta # "equal"
        /\ \/ n.delta = "random"
           \/ n.delta \in {"independent", "dependent"} /\ n.value \in Delta
    <3> HIDE DEF n
    <3> QED BY <1>1, <1>3, <1>5, KindIs
  <2>1. mode = "remote"
    <3>1. NatInfo("open", "equal", 0).delta = "equal"
      BY DEF NatInfo
    <3> HIDE DEF n
    <3> QED BY <1>1, <2>0, <3>1
  <2>2. CASE n.delta = "random"
    <3>1. x.remote = last.remote
      BY <2>0, <2>1, <2>2 DEF SingleMapping, Mapping4
    <3>2. MappedPort(s, x.local) = last.remote
      BY <2>0, <2>2 DEF MappedPort
    <3>3. ~WrapsAround(s)
      BY <2>2 DEF WrapsAround
    <3> QED BY <2>1, <3>1, <3>2, <3>3
  <2>3. CASE n.delta # "random"
    <3>1. n.delta \in {"independent", "dependent"} /\ n.value \in Delta
      BY <2>0, <2>3
    <3>2. x.remote = FieldWrap(next, LowPort)
      <4>1. CASE n.delta = "independent"
        BY <2>0, <2>1, <4>1 DEF SingleMapping, Mapping4
      <4>2. CASE n.delta = "dependent"
        BY <2>0, <2>1, <4>2 DEF SingleMapping, Mapping4
      <4> QED BY <3>1, <4>1, <4>2
    <3>3. /\ MappedPort(s, x.local) = NatWrap(next)
          /\ WrapsAround(s) <=> next > MaxPort
      BY <2>0, <3>1 DEF MappedPort, WrapsAround
    <3>4. /\ last.remote \in LowPort .. MaxPort /\ n.value \in 1 .. LowPort
          /\ MaxPort \in Nat /\ LowPort \in Nat /\ LowPort <= MaxPort
      <4>1. last.remote \in Sample
        BY <1>2
      <4> HIDE DEF last, n
      <4>2. last.remote \in LowPort .. MaxPort /\ n.value \in 1 .. LowPort
        BY <3>1, <4>1 DEF NatPredictAssumption
      <4>3. MaxPort \in Nat /\ LowPort \in Nat /\ LowPort <= MaxPort
        BY DEF NatPredictAssumption
      <4> QED BY <4>2, <4>3
    <3> HIDE DEF last, n
    <3>5. /\ next \in Nat \ {0} /\ next <= 2 * MaxPort /\ next <= 2 * MaxPort + 1
          /\ LowPort <= next /\ next - MaxPort - 1 < LowPort
      BY <3>4, <1>a
    <3> HIDE DEF next
    <3>6. FieldWrap(next, LowPort) = IF next > MaxPort THEN next - MaxPort - 1 + LowPort ELSE next
      BY <3>4, <3>5, FieldWrapIs
    <3>7. NatWrap(next) = IF next <= MaxPort THEN next ELSE next - MaxPort
      BY <3>5, NatWrapIs
    <3>8. FieldWrap(next, LowPort) = IF next > MaxPort THEN NatWrap(next) + (LowPort - 1)
                                                        ELSE NatWrap(next)
      BY <3>4, <3>5, <3>6, <3>7
    <3> QED BY <2>1, <3>2, <3>3, <3>8
  <2> QED BY <2>2, <2>3
<1> QED BY <1>4, <1>5

\* In a self punch a side adds to the port of the other, and never comes back
\* to it.
LEMMA SelfPortsDiffer ==
  ASSUME NatPredictAssumption, PredTypeOK, mode = "self",
         NEW x \in Predictions("initiator", {}), NEW y \in Predictions("recipient", {x})
  PROVE  x.local # y.local
<1>1. PICK t \in Templates(Nat4("initiator"), Nat4(Other("initiator"))) :
        x \in SingleMapping(t, Nat4("initiator"), preload["initiator"])
  BY PredictionIs
<1>2. y \in SingleMapping(x, Nat4("recipient"), preload["recipient"])
  <2>1. {x} # {}
    OBVIOUS
  <2> QED BY <2>1, PredictionIs
<1> DEFINE p == FieldWrap(t.remote + Step, SelfLow)
           q == FieldWrap(p + Step, SelfLow)
<1>3. x.local = p /\ x.remote = p /\ y.local = FieldWrap(x.remote + Step, SelfLow)
  BY <1>1, <1>2 DEF SingleMapping, Mapping4
<1>4. t.remote \in LowPort .. MaxPort
  BY DEF Templates, Mapping4, NatPredictAssumption
<1>5. /\ MaxPort \in Nat /\ SelfLow \in Nat \ {0} /\ Step \in Nat \ {0} /\ LowPort \in Nat
      /\ 2 * SelfLow <= MaxPort /\ Step + SelfLow <= MaxPort
  BY DEF NatPredictAssumption
<1> DEFINE a == t.remote + Step
           b == p + Step
<1>6. a \in Nat /\ a <= 2 * MaxPort + 1
  BY <1>4, <1>5
<1>7. p \in SelfLow .. MaxPort
  <2>1. p = FieldWrap(a, SelfLow)
    OBVIOUS
  <2> HIDE DEF a, p
  <2> QED BY <1>5, <1>6, <2>1, FieldWrapIs, SMTT(30)
<1> HIDE DEF p
<1>8. b \in Nat /\ b <= 2 * MaxPort + 1 /\ b > SelfLow
  BY <1>5, <1>7
<1>9. q # p
  <2>0. q = FieldWrap(b, SelfLow)
    OBVIOUS
  <2> HIDE DEF q
  <2>1. CASE b <= MaxPort
    <3>1. q = b
      BY <1>5, <1>8, <2>0, <2>1, FieldWrapIs, SMTT(30)
    <3> QED BY <1>5, <1>7, <3>1
  <2>2. CASE b > MaxPort /\ b - MaxPort - 1 < SelfLow
    <3>1. q = b - MaxPort - 1 + SelfLow
      BY <1>5, <1>8, <2>0, <2>2, FieldWrapIs, SMTT(30)
    <3> QED BY <1>5, <1>7, <3>1
  <2>3. CASE b > MaxPort /\ b - MaxPort - 1 >= SelfLow
    <3>1. q = b - MaxPort - 1
      BY <1>5, <1>8, <2>0, <2>3, FieldWrapIs
    <3> QED BY <1>5, <1>7, <3>1
  <2> QED BY <1>5, <1>8, <2>1, <2>2, <2>3
<1> QED BY <1>3, <1>9

LEMMA InvMeets ==
  ASSUME NatPredictAssumption, PredInv
  PROVE  PunchMeets
<1> DEFINE Comes(p, local) == IF WrapsAround(p) THEN MappedPort(p, local) + (LowPort - 1)
                                              ELSE MappedPort(p, local)
<1> SUFFICES ASSUME exchange \in {"replied", "updated"}, NEW s \in Peer,
                    s = "recipient" \/ exchange = "updated" \/ Mirrors,
                    Predictable(s), Predictable(Other(s)), NEW z \in send[Other(s)]
             PROVE  /\ Dialed(s) = {Comes(Other(s), z.local)}
                    /\ mode = "self" => \A w \in send[s] : z.local # w.local
  BY DEF PunchMeets
<1> DEFINE dialed(u) == IF mode = "lan" THEN u.local ELSE u.remote
<1>1. PredTypeOK
  BY DEF PredInv
<1>2. PICK x \in Predictions("initiator", {}) : \E y \in Predictions("recipient", {x}) :
        /\ send["initiator"] = {x} /\ send["recipient"] = {y}
        /\ recv["recipient"] = {x}
        /\ exchange = "replied" => recv["initiator"] = {Placeholder(x)}
        /\ exchange = "updated" /\ Nat4("initiator").delta # "preserv" => recv["initiator"] = {y}
  BY DEF PredInv, Exchanged, Replied
<1>3. PICK y \in Predictions("recipient", {x}) :
        /\ send["initiator"] = {x} /\ send["recipient"] = {y}
        /\ recv["recipient"] = {x}
        /\ exchange = "replied" => recv["initiator"] = {Placeholder(x)}
        /\ exchange = "updated" /\ Nat4("initiator").delta # "preserv" => recv["initiator"] = {y}
  BY <1>2
<1>4. PICK t : x \in SingleMapping(t, Nat4("initiator"), preload["initiator"])
  BY PredictionIs
<1>5. y \in SingleMapping(x, Nat4("recipient"), preload["recipient"])
  <2>1. {x} # {}
    OBVIOUS
  <2> QED BY <2>1, PredictionIs
<1>6. mode = "self" => x.local # y.local
  BY <1>1, SelfPortsDiffer
<1>7. CASE s = "recipient"
  <2>1. z = x /\ send[s] = {y} /\ Dialed(s) = {dialed(x)}
    BY <1>3, <1>7, PeerIs DEF Dialed
  <2>2. dialed(x) = Comes("initiator", x.local)
    BY <1>1, <1>4, <1>7, PeerIs, PredictionRight
  <2> QED BY <1>6, <1>7, <2>1, <2>2, PeerIs
<1>8. CASE s = "initiator"
  <2>1. z = y /\ send[s] = {x}
    BY <1>3, <1>8, PeerIs
  <2>2. dialed(y) = Comes("recipient", y.local)
    BY <1>1, <1>5, <1>8, PeerIs, PredictionRight
  <2>3. CASE exchange = "updated"
    <3>1. recv["initiator"] = {y}
      BY <1>3, <1>8, <2>3 DEF Predictable
    <3>2. Dialed(s) = {dialed(y)}
      BY <1>8, <3>1 DEF Dialed
    <3> QED BY <1>6, <1>8, <2>1, <2>2, <3>2, PeerIs
  <2>4. CASE exchange = "replied" /\ Mirrors
    <3>1. mode # "self" /\ x.reply = 0
      BY <1>3, <2>4 DEF Mirrors
    <3>2. recv["initiator"] = {x}
      BY <1>3, <2>4, <3>1 DEF Placeholder
    <3>3. y = Mapping4(x.remote, 0, x.remote)
      BY <1>5, <2>4, <3>1 DEF Mirrors, SingleMapping, BindPort
    <3>4. dialed(x) = dialed(y)
      <4>1. CASE mode = "lan"
        <5>1. Nat4("initiator") = NatInfo("open", "equal", 0)
          BY <4>1 DEF Nat4
        <5>2. x = Mapping4(BindPort(t), 0, BindPort(t))
          BY <1>4, <3>1, <5>1 DEF SingleMapping, NatInfo, IsOpen
        <5> QED BY <3>3, <4>1, <5>2 DEF Mapping4
      <4>2. CASE mode # "lan"
        BY <3>3, <4>2 DEF Mapping4
      <4> QED BY <4>1, <4>2
    <3>5. Dialed(s) = {dialed(x)}
      BY <1>8, <3>2 DEF Dialed
    <3> QED BY <1>6, <1>8, <2>1, <2>2, <3>1, <3>4, <3>5, PeerIs
  <2> QED BY <1>8, <2>3, <2>4
<1> QED BY <1>7, <1>8, PeerIs

\* get_single_mapping and update_for_reply_ports make both sides dial the port
\* that the other's NAT will open, for any ports, deltas and pair of NATs that
\* nats_can_predict takes, and miss it by LowPort - 1 where that NAT wraps
\* around; a self punch binds two ports.
THEOREM PunchMeetsHolds == PredictSpec => []PunchMeets
<1> USE NatPredictAssumption
<1> QED BY PredInvHolds, InvMeets, PTL

-----------------------------------------------------------------------------
(***************************************************************************)
(* PeerAddr, for any number of interfaces and routes.                      *)
(***************************************************************************)

ReadRight ==
  /\ Len(ifs) \in Nat \ {0} /\ ifs \in [1 .. Len(ifs) -> Nic]
  /\ read # NotRead => read = ParsePeerAddr(MakePeerAddr)

LEMMA ReadRightHolds == PeerAddrSpec => []ReadRight
<1>1. ASSUME PeerAddrInit PROVE ReadRight
  <2>1. PICK n \in 1 .. MaxNics : ifs \in [1 .. n -> Nic]
    BY <1>1 DEF PeerAddrInit
  <2>2. n \in Nat \ {0}
    BY <2>1 DEF PeerAddrAssumption
  <2>3. Len(ifs) = n
    BY <2>1, <2>2
  <2> QED BY <1>1, <2>1, <2>2, <2>3 DEF PeerAddrInit, ReadRight
<1>2. ASSUME ReadRight, [PeerAddrNext]_peeraddrvars PROVE ReadRight'
  <2>1. UNCHANGED <<ifs, signal>>
    BY <1>2 DEF PeerAddrNext, ReadAddr, peeraddrvars
  <2>2. MakePeerAddr' = MakePeerAddr /\ \A addr : ParsePeerAddr(addr)' = ParsePeerAddr(addr)
    <3>1. \A af : Supporting(af)' = Supporting(af)
      BY <2>1 DEF Supporting, WithRoutes
    <3>2. \A i, n, af : Segment(i, n, af)' = Segment(i, n, af)
      BY DEF Segment, RouteOf, IntIp
    <3>3. \A af : Segments(af)' = Segments(af)
      BY <2>1, <3>1, <3>2 DEF Segments
    <3>4. MakePeerAddr' = MakePeerAddr
      BY <2>1, <3>3 DEF MakePeerAddr
    <3>5. \A addr : ParsePeerAddr(addr)' = ParsePeerAddr(addr)
      BY DEF ParsePeerAddr, InfosOf
    <3> QED BY <3>4, <3>5
  <2>3. read' = read \/ read' = ParsePeerAddr(MakePeerAddr)
    BY <1>2 DEF PeerAddrNext, ReadAddr, peeraddrvars
  <2> QED BY <1>2, <2>1, <2>2, <2>3 DEF ReadRight
<1> QED BY <1>1, <1>2, PTL DEF PeerAddrSpec

\* Segments are of the interfaces with routes, all of them, under their numbers.
LEMMA SegmentsAre ==
  ASSUME ReadRight, NEW af \in Af
  PROVE  /\ Len(Segments(af)) \in Nat /\ DOMAIN Segments(af) = 1 .. Len(Segments(af))
         /\ \A k \in DOMAIN Segments(af) :
              \E i \in WithRoutes(af) : Segments(af)[k] = Segment(i, ifs[i + 1], af)
         /\ \A i \in WithRoutes(af) :
              \E k \in DOMAIN Segments(af) : Segments(af)[k] = Segment(i, ifs[i + 1], af)
<1> DEFINE all == [i \in 1 .. Len(ifs) |-> i - 1]
           kept == Supporting(af)
<1>1. Len(ifs) \in Nat /\ all \in Seq(Nat) /\ DOMAIN all = 1 .. Len(ifs) /\ \A i \in 1 .. Len(ifs) : all[i] = i - 1
  BY DEF ReadRight
<1> HIDE DEF all
<1>2. kept = Keep(all, WithRoutes(af))
  BY DEF Supporting, all
<1>3. /\ kept \in Seq(Nat \cap WithRoutes(af))
      /\ \A j \in DOMAIN all : all[j] \in WithRoutes(af) => \E k \in DOMAIN kept : kept[k] = all[j]
  BY <1>1, <1>2, KeepIs, SMTT(30)
<1> HIDE DEF kept
<1>4. Segments(af) = [k \in 1 .. Len(kept) |-> Segment(kept[k], ifs[kept[k] + 1], af)]
  BY DEF Segments, kept
<1>5. /\ Len(kept) \in Nat /\ DOMAIN kept = 1 .. Len(kept)
      /\ \A k \in 1 .. Len(kept) : kept[k] \in WithRoutes(af)
  BY <1>3
<1>6. Len(Segments(af)) = Len(kept) /\ DOMAIN Segments(af) = 1 .. Len(kept)
  BY <1>4, <1>5
<1>7. ASSUME NEW i \in WithRoutes(af)
      PROVE  \E k \in DOMAIN Segments(af) : Segments(af)[k] = Segment(i, ifs[i + 1], af)
  <2>1. i + 1 \in DOMAIN all /\ all[i + 1] = i
    BY <1>1 DEF WithRoutes
  <2>2. PICK k \in DOMAIN kept : kept[k] = i
    BY <1>3, <2>1
  <2> QED BY <1>4, <1>5, <1>6, <2>2
<1> QED BY <1>4, <1>5, <1>6, <1>7

\* Reading the segments of a family gives the one of each interface.
LEMMA InfosAre ==
  ASSUME ReadRight, NEW af \in Af
  PROVE  /\ DOMAIN InfosOf(Segments(af)) = WithRoutes(af)
         /\ \A i \in WithRoutes(af) : InfosOf(Segments(af))[i] = Segment(i, ifs[i + 1], af)
<1> DEFINE text == Segments(af)
           numbers == {text[k].if_index : k \in DOMAIN text}
<1>1. /\ Len(text) \in Nat /\ DOMAIN text = 1 .. Len(text)
      /\ \A k \in DOMAIN text : \E i \in WithRoutes(af) : text[k] = Segment(i, ifs[i + 1], af)
      /\ \A i \in WithRoutes(af) : \E k \in DOMAIN text : text[k] = Segment(i, ifs[i + 1], af)
  BY SegmentsAre
<1> HIDE DEF text
<1>2. \A i, n : Segment(i, n, af).if_index = i
  BY DEF Segment
<1>3. numbers = WithRoutes(af)
  BY <1>1, <1>2
<1>4. ASSUME NEW i \in WithRoutes(af)
      PROVE  InfosOf(text)[i] = Segment(i, ifs[i + 1], af)
  <2> DEFINE of == {k \in DOMAIN text : text[k].if_index = i}
             is(k) == /\ text[k].if_index = i
                      /\ \A j \in DOMAIN text : text[j].if_index = i => j <= k
             last == CHOOSE k \in DOMAIN text : is(k)
  <2>1. \E k \in DOMAIN text : is(k)
    <3>1. of # {} /\ of \subseteq 0 .. Len(text)
      BY <1>1, <1>2
    <3>2. PICK k \in of : \A j \in of : j <= k
      BY <1>1, <3>1, Greatest
    <3> QED BY <3>2
  <2> HIDE DEF is
  <2>2. last \in DOMAIN text /\ is(last)
    BY <2>1
  <2>3. InfosOf(text)[i] = text[last]
    BY <1>3 DEF InfosOf, is
  <2> HIDE DEF last
  <2>4. text[last].if_index = i
    BY <2>2 DEF is
  <2> QED BY <1>1, <1>2, <2>2, <2>3, <2>4
<1>5. DOMAIN InfosOf(text) = WithRoutes(af)
  BY <1>3 DEF InfosOf
<1> QED BY <1>4, <1>5 DEF text

LEMMA ReadRightSuffices ==
  ASSUME PeerAddrAssumption, ReadRight
  PROVE  AddrRoundTrip
<1> SUFFICES ASSUME read # NotRead, \A k \in DOMAIN ifs : ifs[k].value >= 0,
                    NEW addr \in read, NEW af \in Af
             PROVE  /\ DOMAIN addr.infos[af] = WithRoutes(af)
                    /\ \A i \in WithRoutes(af) :
                         LET s == addr.infos[af][i]
                             r == RouteOf(ifs[i + 1], af) IN
                         /\ s.netiface_index = ifs[i + 1].index /\ s.ext = r.ext
                         /\ <<s.nat, s.delta, s.value>> =
                              <<ifs[i + 1].nat, ifs[i + 1].delta, ifs[i + 1].value>>
                         /\ s.nic \in IF af = "ip4" THEN {r.nic} ELSE {r.ext} \cup Range(r.links)
  BY ZenonT(40) DEF AddrRoundTrip, WithRoutes
<1>1. \A f \in Af : {k \in DOMAIN Segments(f) : Segments(f)[k].value < 0} = {}
  <2> SUFFICES ASSUME NEW f \in Af, NEW k \in DOMAIN Segments(f) PROVE ~(Segments(f)[k].value < 0)
    OBVIOUS
  <2>1. PICK i \in WithRoutes(f) : Segments(f)[k] = Segment(i, ifs[i + 1], f)
    BY SegmentsAre
  <2>2. i + 1 \in DOMAIN ifs /\ ifs[i + 1] \in Nic
    BY DEF WithRoutes, ReadRight
  <2>3. ifs[i + 1].value \in Int /\ ifs[i + 1].value >= 0
    BY <2>2 DEF PeerAddrAssumption, Interface
  <2> QED BY <2>1, <2>3 DEF Segment
<1>2. MakePeerAddr.parts = 5 /\ MakePeerAddr.text = [f \in Af |-> Segments(f)]
  <2> DEFINE text == [f \in Af |-> Segments(f)]
             negative(f) == {k \in DOMAIN text[f] : text[f][k].value < 0}
  <2>1. MakePeerAddr = [signal |-> signal, text |-> text,
          parts |-> 5 + Cardinality(negative("ip4")) + Cardinality(negative("ip6"))]
    BY DEF MakePeerAddr
  <2>2. negative("ip4") = {} /\ negative("ip6") = {}
    BY <1>1 DEF Af
  <2>3. Cardinality(negative("ip4")) = 0 /\ Cardinality(negative("ip6")) = 0
    BY <2>2, FS_EmptySet
  <2> HIDE DEF text, negative
  <2> QED BY <2>1, <2>3 DEF text
<1>3. addr.infos = [f \in Af |-> InfosOf(Segments(f))]
  <2>1. \A a : a.parts = 5 /\ addr \in ParsePeerAddr(a) => addr.infos = [f \in Af |-> InfosOf(a.text[f])]
    BY DEF ParsePeerAddr
  <2>2. addr.infos = [f \in Af |-> InfosOf(MakePeerAddr.text[f])]
    BY <1>2, <2>1 DEF ReadRight
  <2>3. \A f \in Af : MakePeerAddr.text[f] = Segments(f)
    BY <1>2
  <2> QED BY <2>2, <2>3
<1>4. addr.infos[af] = InfosOf(Segments(af))
  BY <1>3
<1>5. DOMAIN addr.infos[af] = WithRoutes(af)
  BY <1>4, InfosAre
<1>6. ASSUME NEW i \in WithRoutes(af)
      PROVE  LET s == addr.infos[af][i]
                 r == RouteOf(ifs[i + 1], af) IN
             /\ s.netiface_index = ifs[i + 1].index /\ s.ext = r.ext
             /\ <<s.nat, s.delta, s.value>> =
                  <<ifs[i + 1].nat, ifs[i + 1].delta, ifs[i + 1].value>>
             /\ s.nic \in IF af = "ip4" THEN {r.nic} ELSE {r.ext} \cup Range(r.links)
  <2> DEFINE n == ifs[i + 1]
             r == RouteOf(n, af)
  <2>1. addr.infos[af][i] = Segment(i, n, af)
    BY <1>4, InfosAre
  <2>2. n \in Nic /\ n.rp[af] # {}
    BY DEF WithRoutes, ReadRight
  <2>3. r \in RouteAddrs
    <3>1. n \in Interface
      BY <2>2 DEF PeerAddrAssumption
    <3>2. r \in n.rp[af]
      BY <2>2 DEF RouteOf
    <3> QED BY <3>1, <3>2 DEF Interface
  <2> HIDE DEF n, r
  <2>4. IntIp(r, af) \in IF af = "ip4" THEN {r.nic} ELSE {r.ext} \cup Range(r.links)
    <3>1. r.links # <<>> => r.links[1] \in Range(r.links)
      BY <2>3 DEF RouteAddrs, Range
    <3> QED BY <3>1 DEF IntIp
  <2> QED BY <2>1, <2>4 DEF Segment, n, r
<1> QED BY <1>5, <1>6

\* parse_peer_addr finds in what make_peer_addr wrote, for any number of
\* interfaces and routes, the interface of each number and its families, and
\* nothing else.
THEOREM AddrRoundTripHolds == PeerAddrSpec => []AddrRoundTrip
<1> USE PeerAddrAssumption
<1> QED BY ReadRightHolds, ReadRightSuffices, PTL

-----------------------------------------------------------------------------
(***************************************************************************)
(* Routes, for any addresses and any order of the STUN answers.            *)
(***************************************************************************)

Address == Private \cup External \cup {Foreign}
Lookup == {NoRoute} \cup [src : Address, ext : External]
AreTrue == ~guessed /\ MaxWrong < MinAgree

\* An address that is neither the default nor the first private one.
IsOwn(a) == a # default /\ (Privates = <<>> \/ a # Privates[1])

RoutesInv ==
  /\ nics \in Seq(Private \cup LinkLocal \cup External) /\ IsInjective(nics)
  /\ default \in {NoIp, Foreign} \cup (Range(nics) \ LinkLocal)
  /\ wan \in [Address -> External]
  /\ \A a, b \in Private \cup {Foreign} : wan[a] = wan[b]
  /\ counts \in [External \cup {NoIp} -> Nat]
  /\ lookedUp \in Seq(Lookup)
  /\ AreTrue => \A k \in DOMAIN lookedUp :
                  \/ lookedUp[k] = NoRoute
                  \/ /\ k \in DOMAIN Lookups
                     /\ lookedUp[k] = [src |-> Lookups[k], ext |-> wan[Lookups[k]]]

LEMMA LookupsAre ==
  ASSUME RoutesAssumption, RoutesInv
  PROVE  /\ Privates \in Seq(Private) /\ Lookups \in Seq(Address)
         /\ \A k \in DOMAIN Lookups : IsOwn(Lookups[k]) => Lookups[k] \in External
         /\ \A j, k \in DOMAIN Lookups : j # k /\ IsOwn(Lookups[j]) /\ IsOwn(Lookups[k])
              => Lookups[j] # Lookups[k]
<1> DEFINE X == Private \cup LinkLocal \cup External
           pub == Keep(nics, External)
           def == IF default = NoIp THEN <<>> ELSE <<default>>
           first == IF Privates = <<>> THEN <<>> ELSE <<Privates[1]>>
           n == Len(pub)
<1>1. nics \in Seq(X) /\ IsInjective(nics)
  BY DEF RoutesInv
<1>2. Privates \in Seq(Private)
  <2>1. Privates \in Seq(X \cap Private)
    BY <1>1, KeepIs DEF Privates
  <2>2. X \cap Private = Private
    OBVIOUS
  <2> QED BY <2>1, <2>2
<1>3. pub \in Seq(External)
  <2>1. pub \in Seq(X \cap External)
    BY <1>1, KeepIs
  <2>2. X \cap External = External
    OBVIOUS
  <2> QED BY <2>1, <2>2
<1>4. \A j, k \in 1 .. n : j # k => pub[j] # pub[k]
  <2>1. PICK w \in [DOMAIN pub -> DOMAIN nics] :
          /\ \A k \in DOMAIN pub : pub[k] = nics[w[k]]
          /\ \A j, k \in DOMAIN pub : j # k => w[j] # w[k]
    BY <1>1, KeepPicks
  <2>2. DOMAIN pub = 1 .. n
    BY <1>3
  <2> HIDE DEF pub
  <2> QED BY <1>1, <2>1, <2>2 DEF IsInjective
<1> HIDE DEF pub
<1>5. default = NoIp \/ default \in Address
  <2>1. \A a \in Range(nics) : a \in X
    BY <1>1 DEF Range
  <2> QED BY <2>1 DEF RoutesInv, Address
<1>6. def \in Seq(Address) /\ Len(def) \in 0 .. 1 /\ \A k \in 1 .. Len(def) : def[k] = default
  BY <1>5
<1>7. first \in Seq(Address) /\ Len(first) \in 0 .. 1
      /\ \A k \in 1 .. Len(first) : Privates # <<>> /\ first[k] = Privates[1]
  <2>1. CASE Privates = <<>>
    BY <2>1
  <2>2. CASE Privates # <<>>
    <3>1. Privates[1] \in Private
      BY <1>2, <2>2
    <3> QED BY <2>2, <3>1 DEF Address
  <2> QED BY <2>1, <2>2
<1> HIDE DEF def, first
<1>8. pub \in Seq(Address) /\ n \in Nat /\ \A k \in 1 .. n : pub[k] \in External
  BY <1>3 DEF Address
<1>9. Lookups = (pub \o def) \o first
  BY DEF Lookups, pub, def, first
<1>10. /\ Lookups \in Seq(Address)
       /\ DOMAIN Lookups = 1 .. n + Len(def) + Len(first)
       /\ \A k \in 1 .. n + Len(def) + Len(first) :
            Lookups[k] = IF k <= n THEN pub[k]
                         ELSE IF k <= n + Len(def) THEN def[k - n]
                         ELSE first[k - (n + Len(def))]
  <2> DEFINE both == pub \o def
  <2>1. /\ both \in Seq(Address) /\ Len(both) = n + Len(def)
        /\ \A k \in 1 .. n + Len(def) : both[k] = IF k <= n THEN pub[k] ELSE def[k - n]
    BY <1>6, <1>8, ConcatProperties
  <2>2. Lookups = both \o first
    BY <1>9
  <2> HIDE DEF both
  <2>3. /\ Lookups \in Seq(Address) /\ Len(Lookups) = n + Len(def) + Len(first)
        /\ \A k \in 1 .. n + Len(def) + Len(first) :
             Lookups[k] = IF k <= n + Len(def) THEN both[k] ELSE first[k - (n + Len(def))]
    <3>1. both \in Seq(Address) /\ first \in Seq(Address)
      BY <1>7, <2>1
    <3>2. /\ both \o first \in Seq(Address) /\ Len(both \o first) = Len(both) + Len(first)
          /\ \A k \in 1 .. Len(both) + Len(first) :
               (both \o first)[k] = IF k <= Len(both) THEN both[k] ELSE first[k - Len(both)]
      BY <3>1, ConcatProperties
    <3> QED BY <2>1, <2>2, <3>2
  <2>4. \A k \in 1 .. n + Len(def) + Len(first) : k <= n + Len(def) => k \in 1 .. n + Len(def)
    BY <1>6, <1>7, <1>8
  <2>5. \A k \in 1 .. n + Len(def) + Len(first) : k <= n => k <= n + Len(def)
    BY <1>6, <1>7, <1>8
  <2> QED BY <2>1, <2>3, <2>4, <2>5
<1>11. ASSUME NEW k \in DOMAIN Lookups, IsOwn(Lookups[k])
       PROVE  k \in 1 .. n /\ Lookups[k] = pub[k]
  <2>1. ~(k > n /\ k <= n + Len(def))
    <3> SUFFICES ASSUME k > n /\ k <= n + Len(def) PROVE FALSE
      OBVIOUS
    <3>1. k - n \in 1 .. Len(def) /\ Lookups[k] = def[k - n]
      BY <1>6, <1>8, <1>10
    <3> QED BY <1>6, <1>11, <3>1 DEF IsOwn
  <2>2. ~(k > n + Len(def))
    <3> SUFFICES ASSUME k > n + Len(def) PROVE FALSE
      OBVIOUS
    <3>1. k - (n + Len(def)) \in 1 .. Len(first) /\ Lookups[k] = first[k - (n + Len(def))]
      BY <1>6, <1>7, <1>8, <1>10
    <3> QED BY <1>7, <1>11, <3>1 DEF IsOwn
  <2> QED BY <1>6, <1>7, <1>8, <1>10, <2>1, <2>2
<1> QED BY <1>2, <1>4, <1>8, <1>10, <1>11

\* Each answer in Found is of a lookup of its own, and true.
LEMMA FoundAre ==
  ASSUME RoutesAssumption, RoutesInv, AreTrue
  PROVE  /\ Found \in Seq(Lookup)
         /\ \E w \in [DOMAIN Found -> DOMAIN Lookups] :
              /\ \A k \in DOMAIN Found :
                   Found[k] = [src |-> Lookups[w[k]], ext |-> wan[Lookups[w[k]]]]
              /\ \A j, k \in DOMAIN Found : j # k => w[j] # w[k]
<1> DEFINE real == Range(lookedUp) \ {NoRoute}
<1>1. lookedUp \in Seq(Lookup) /\ Found = Keep(lookedUp, real)
  BY DEF RoutesInv, Found
<1>7. NoRoute \notin real
  OBVIOUS
<1> HIDE DEF real
<1>2. Found \in Seq(Lookup \cap real)
  BY <1>1, KeepIs
<1>3. PICK w \in [DOMAIN Found -> DOMAIN lookedUp] :
        /\ \A k \in DOMAIN Found : Found[k] = lookedUp[w[k]]
        /\ \A j, k \in DOMAIN Found : j # k => w[j] # w[k]
  BY <1>1, KeepPicks
<1>4. Found \in Seq(Lookup) /\ \A k \in DOMAIN Found : Found[k] # NoRoute
  BY <1>2, <1>7
<1>5. \A k \in DOMAIN Found : /\ w[k] \in DOMAIN Lookups
                             /\ Found[k] = [src |-> Lookups[w[k]], ext |-> wan[Lookups[w[k]]]]
  BY <1>3, <1>4 DEF RoutesInv
<1>6. w \in [DOMAIN Found -> DOMAIN Lookups]
  BY <1>3, <1>5
<1> QED BY <1>3, <1>4, <1>5, <1>6

LEMMA ExtOfIs ==
  ASSUME RoutesAssumption, RoutesInv, AreTrue, NEW a
  PROVE  /\ ExtOf(a) = {} \/ (a \in Address /\ wan[a] \in External /\ ExtOf(a) = {wan[a]})
         /\ (\E r \in Range(Found) : r.src = a) => ExtOf(a) # {}
<1> DEFINE those == {r \in Range(Found) : r.src = a}
           of == Keep(Found, those)
<1>1. PICK w \in [DOMAIN Found -> DOMAIN Lookups] :
        \A k \in DOMAIN Found : Found[k] = [src |-> Lookups[w[k]], ext |-> wan[Lookups[w[k]]]]
  BY FoundAre
<1>2. Found \in Seq(Lookup)
  BY FoundAre
<1>9. Lookups \in Seq(Address)
  BY LookupsAre
<1>7. \A r : r \in those <=> r \in Range(Found) /\ r.src = a
  OBVIOUS
<1>4. ExtOf(a) = IF of = <<>> THEN {} ELSE {of[1].ext}
  BY DEF ExtOf
<1>8. of = Keep(Found, those)
  OBVIOUS
<1> HIDE DEF those, of
<1>3. /\ of \in Seq(Lookup \cap those)
      /\ \A i \in DOMAIN Found : Found[i] \in those => \E k \in DOMAIN of : of[k] = Found[i]
  <2>1. Keep(Found, those) \in Seq(Lookup \cap those)
    BY <1>2, KeepIs
  <2>2. ASSUME NEW i \in DOMAIN Found, Found[i] \in those
        PROVE  \E k \in DOMAIN Keep(Found, those) : Keep(Found, those)[k] = Found[i]
    BY <1>2, <2>2, KeepHas
  <2> QED BY <1>8, <2>1, <2>2
<1>5. ASSUME of # <<>> PROVE a \in Address /\ wan[a] \in External /\ of[1].ext = wan[a]
  <2>1. of[1] \in those
    BY <1>3, <1>5
  <2>2. PICK k \in DOMAIN Found : of[1] = Found[k]
    BY <1>7, <2>1 DEF Range
  <2>3. w[k] \in DOMAIN Lookups /\ Lookups[w[k]] \in Address
    BY <1>1, <1>9
  <2>4. of[1].src = Lookups[w[k]] /\ of[1].ext = wan[Lookups[w[k]]]
    BY <1>1, <2>2
  <2>5. a = Lookups[w[k]]
    BY <1>7, <2>1, <2>4
  <2> QED BY <2>3, <2>4, <2>5 DEF RoutesInv
<1>6. ASSUME NEW r \in Range(Found), r.src = a PROVE of # <<>>
  <2>1. PICK i \in DOMAIN Found : Found[i] = r
    BY DEF Range
  <2>2. Found[i] \in those
    BY <1>6, <1>7, <2>1
  <2>3. PICK k \in DOMAIN of : of[k] = Found[i]
    BY <1>3, <2>2
  <2> QED BY <2>3
<1> QED BY <1>4, <1>5, <1>6

LEMMA OwnRoutesAre ==
  ASSUME RoutesAssumption, RoutesInv, AreTrue
  PROVE  \E n \in Nat : \E srcs \in [1 .. n -> External] :
           /\ \A j, k \in 1 .. n : j # k => srcs[j] # srcs[k]
           /\ OwnRoutes = [k \in 1 .. n |-> [nics |-> <<srcs[k]>>, ext |-> wan[srcs[k]]]]
           /\ \A r \in Range(Found) : IsOwn(r.src) => \E k \in 1 .. n : srcs[k] = r.src
<1> DEFINE own == {r \in Range(Found) : r.src # default /\ (Privates = <<>> \/ r.src # Privates[1])}
           listed == Keep(Found, own)
           n == Len(listed)
           srcs == [k \in 1 .. n |-> listed[k].src]
<1>1. PICK w \in [DOMAIN Found -> DOMAIN Lookups] :
        /\ \A k \in DOMAIN Found : Found[k] = [src |-> Lookups[w[k]], ext |-> wan[Lookups[w[k]]]]
        /\ \A j, k \in DOMAIN Found : j # k => w[j] # w[k]
  BY FoundAre
<1>2. Found \in Seq(Lookup)
  BY FoundAre
<1>3. /\ \A k \in DOMAIN Lookups : IsOwn(Lookups[k]) => Lookups[k] \in External
      /\ \A j, k \in DOMAIN Lookups : j # k /\ IsOwn(Lookups[j]) /\ IsOwn(Lookups[k])
           => Lookups[j] # Lookups[k]
  BY LookupsAre
<1>6. OwnRoutes = [k \in 1 .. n |-> [nics |-> <<listed[k].src>>, ext |-> listed[k].ext]]
  BY DEF OwnRoutes
<1>7. \A r \in own : r \in Range(Found) /\ IsOwn(r.src)
  BY DEF IsOwn
<1>8. \A r \in Range(Found) : IsOwn(r.src) => r \in own
  BY DEF IsOwn
<1> HIDE DEF own
<1>4. /\ listed \in Seq(Lookup \cap own)
      /\ \A i \in DOMAIN Found : Found[i] \in own => \E k \in DOMAIN listed : listed[k] = Found[i]
  <2>1. Keep(Found, own) \in Seq(Lookup \cap own)
    BY <1>2, KeepIs
  <2>2. ASSUME NEW i \in DOMAIN Found, Found[i] \in own
        PROVE  \E k \in DOMAIN Keep(Found, own) : Keep(Found, own)[k] = Found[i]
    BY <1>2, <2>2, KeepHas
  <2> QED BY <2>1, <2>2
<1>5. PICK u \in [DOMAIN listed -> DOMAIN Found] :
        /\ \A k \in DOMAIN listed : listed[k] = Found[u[k]]
        /\ \A j, k \in DOMAIN listed : j # k => u[j] # u[k]
  BY <1>2, KeepPicks
<1> HIDE DEF listed
<1>9. n \in Nat /\ DOMAIN listed = 1 .. n /\ \A k \in 1 .. n : listed[k] \in own
  BY <1>4
<1> HIDE DEF n
<1>10. ASSUME NEW k \in 1 .. n
       PROVE  /\ w[u[k]] \in DOMAIN Lookups
              /\ srcs[k] = Lookups[w[u[k]]] /\ listed[k].src = srcs[k]
              /\ listed[k].ext = wan[srcs[k]] /\ IsOwn(srcs[k])
  <2>1. u[k] \in DOMAIN Found /\ listed[k] = Found[u[k]] /\ w[u[k]] \in DOMAIN Lookups
    BY <1>1, <1>5, <1>9
  <2>2. listed[k] = [src |-> Lookups[w[u[k]]], ext |-> wan[Lookups[w[u[k]]]]]
    BY <1>1, <2>1
  <2>3. srcs[k] = listed[k].src
    OBVIOUS
  <2> QED BY <1>7, <1>9, <2>1, <2>2, <2>3
<1> HIDE DEF srcs
<1>11. srcs \in [1 .. n -> External]
  <2>1. \A k \in 1 .. n : srcs[k] \in External
    BY <1>3, <1>10
  <2> QED BY <2>1 DEF srcs
<1>12. ASSUME NEW j \in 1 .. n, NEW k \in 1 .. n, j # k PROVE srcs[j] # srcs[k]
  <2>1. u[j] \in DOMAIN Found /\ u[k] \in DOMAIN Found /\ u[j] # u[k]
    BY <1>5, <1>9, <1>12
  <2>2. w[u[j]] # w[u[k]]
    BY <1>1, <2>1
  <2> QED BY <1>3, <1>10, <2>2
<1>13. OwnRoutes = [k \in 1 .. n |-> [nics |-> <<srcs[k]>>, ext |-> wan[srcs[k]]]]
  BY <1>6, <1>10
<1>14. ASSUME NEW r \in Range(Found), IsOwn(r.src) PROVE \E k \in 1 .. n : srcs[k] = r.src
  <2>1. PICK i \in DOMAIN Found : Found[i] = r
    BY DEF Range
  <2>2. PICK k \in DOMAIN listed : listed[k] = r
    BY <1>4, <1>8, <1>14, <2>1
  <2> QED BY <1>9, <1>10, <2>2
<1> QED BY <1>9, <1>11, <1>12, <1>13, <1>14

\* The external address of the default is that of an address of the NIC.
LEMMA DefaultExtIs ==
  ASSUME RoutesAssumption, RoutesInv, AreTrue
  PROVE  /\ DefaultExt = {} \/ (DefaultExt = {wan[default]} /\ wan[default] \in External)
         /\ DefaultExt # {} => default \in Private \cup External
         /\ default \in Range(nics) /\ (\E r \in Range(Found) : r.src = default) => DefaultExt # {}
<1>1. /\ ExtOf(default) = {} \/ (wan[default] \in External /\ ExtOf(default) = {wan[default]})
      /\ (\E r \in Range(Found) : r.src = default) => ExtOf(default) # {}
  BY ExtOfIs
<1>2. DefaultExt = IF default \in Range(nics) THEN ExtOf(default) ELSE {}
  BY DEF DefaultExt
<1>3. default \in Range(nics) => default \in Private \cup External
  <2>1. \A a \in Range(nics) : a \in Private \cup LinkLocal \cup External
    BY DEF RoutesInv, Range
  <2>2. NoIp \notin Private \cup LinkLocal \cup External
    BY DEF RoutesAssumption, NoIp
  <2> QED BY <2>1, <2>2 DEF RoutesInv, RoutesAssumption
<1> QED BY <1>1, <1>2, <1>3

LEMMA PrivateRoutesAre ==
  ASSUME RoutesAssumption, RoutesInv, AreTrue
  PROVE  \/ PrivateRoutes = <<>>
         \/ \E e \in External : /\ PrivateRoutes = <<[nics |-> Privates, ext |-> e]>>
                                /\ IsPublic(default) \/ \A a \in Private : e = wan[a]
<1> DEFINE ext == IF DefaultExt # {} THEN DefaultExt ELSE ExtOf(Privates[1])
           e == CHOOSE x \in ext : TRUE
<1>1. PrivateRoutes = IF Privates = <<>> \/ ext = {} THEN <<>>
                      ELSE <<[nics |-> Privates, ext |-> e]>>
  BY DEF PrivateRoutes
<1>2. SUFFICES ASSUME Privates # <<>>, ext # {}
               PROVE  e \in External /\ (IsPublic(default) \/ \A a \in Private : e = wan[a])
  <2> HIDE DEF e, ext
  <2> QED BY <1>1
<1>3. Privates[1] \in Private
  <2>1. Privates \in Seq(Private)
    BY LookupsAre
  <2> QED BY <1>2, <2>1
<1>4. \A a, b \in Private : wan[a] = wan[b]
  BY DEF RoutesInv
<1>5. CASE DefaultExt # {}
  <2>1. DefaultExt = {wan[default]} /\ wan[default] \in External /\ default \in Private \cup External
    BY <1>5, DefaultExtIs
  <2>2. e = wan[default]
    BY <1>5, <2>1
  <2> QED BY <1>4, <2>1, <2>2 DEF IsPublic
<1>6. CASE DefaultExt = {}
  <2>1. ext = ExtOf(Privates[1])
    BY <1>6
  <2>2. ext = {wan[Privates[1]]} /\ wan[Privates[1]] \in External
    BY <1>2, <2>1, ExtOfIs
  <2>3. e = wan[Privates[1]]
    BY <2>2
  <2> QED BY <1>3, <1>4, <2>2, <2>3
<1> QED BY <1>5, <1>6

\* What the list is made of: routes of their own addresses, and true ones.
NicsOf(r) == Range(r.nics)
IsTrue(r) == \A a \in NicsOf(r) : r.ext = wan[a] \/ (a \in Private /\ IsPublic(default))

LEMMA FoundRoutesAre ==
  ASSUME RoutesAssumption, RoutesInv, AreTrue, NEW found, found = OwnRoutes \o PrivateRoutes
  PROVE  /\ Len(found) \in Nat /\ DOMAIN found = 1 .. Len(found)
         /\ \A k \in DOMAIN found : IsTrue(found[k]) /\ found[k].ext \in Nat
         /\ \A j, k \in DOMAIN found : j # k => NicsOf(found[j]) \cap NicsOf(found[k]) = {}
         /\ \A r \in Range(Found) : IsOwn(r.src) =>
              \E k \in DOMAIN found : r.src \in NicsOf(found[k])
<1> DEFINE Numbered == Len(found) \in Nat /\ DOMAIN found = 1 .. Len(found)
           AllTrue == \A k \in DOMAIN found : IsTrue(found[k]) /\ found[k].ext \in Nat
           Disjoint == \A j, k \in DOMAIN found :
                         j # k => NicsOf(found[j]) \cap NicsOf(found[k]) = {}
           Complete == \A r \in Range(Found) : IsOwn(r.src) =>
                         \E k \in DOMAIN found : r.src \in NicsOf(found[k])
<1>1. PICK n \in Nat : \E srcs \in [1 .. n -> External] :
        /\ \A j, k \in 1 .. n : j # k => srcs[j] # srcs[k]
        /\ OwnRoutes = [k \in 1 .. n |-> [nics |-> <<srcs[k]>>, ext |-> wan[srcs[k]]]]
        /\ \A r \in Range(Found) : IsOwn(r.src) => \E k \in 1 .. n : srcs[k] = r.src
  BY OwnRoutesAre
<1>2. PICK srcs \in [1 .. n -> External] :
        /\ \A j, k \in 1 .. n : j # k => srcs[j] # srcs[k]
        /\ OwnRoutes = [k \in 1 .. n |-> [nics |-> <<srcs[k]>>, ext |-> wan[srcs[k]]]]
        /\ \A r \in Range(Found) : IsOwn(r.src) => \E k \in 1 .. n : srcs[k] = r.src
  BY <1>1
<1> DEFINE route(k) == [nics |-> <<srcs[k]>>, ext |-> wan[srcs[k]]]
<1>3. \A k \in 1 .. n : srcs[k] \in External /\ wan[srcs[k]] \in External
  BY <1>2 DEF RoutesInv, Address
<1>4. \A a : Range(<<a>>) = {a}
  BY DEF Range
<1>5. External \subseteq Nat /\ Private \cap External = {}
  BY DEF RoutesAssumption
<1>6. ASSUME NEW k \in 1 .. n
      PROVE  /\ route(k).ext \in Nat /\ NicsOf(route(k)) = {srcs[k]} /\ IsTrue(route(k))
  <2>1. route(k).ext = wan[srcs[k]] /\ route(k).nics = <<srcs[k]>>
    OBVIOUS
  <2>2. NicsOf(route(k)) = {srcs[k]}
    BY <1>4, <2>1 DEF NicsOf
  <2> HIDE DEF route
  <2> QED BY <1>3, <1>5, <2>1, <2>2 DEF IsTrue
<1>7. /\ OwnRoutes \in Seq(Range(OwnRoutes)) /\ Len(OwnRoutes) = n
      /\ \A k \in 1 .. n : OwnRoutes[k] = route(k)
  <2> DEFINE own == OwnRoutes
  <2>1. own = [k \in 1 .. n |-> route(k)]
    BY <1>2
  <2> HIDE DEF own, route
  <2>2. /\ DOMAIN own = 1 .. n /\ \A k \in 1 .. n : own[k] \in Range(own) /\ own[k] = route(k)
    BY <2>1 DEF Range
  <2>3. own \in [1 .. n -> Range(own)]
    BY <2>1, <2>2
  <2>4. own \in Seq(Range(own)) /\ Len(own) = n
    BY <2>3
  <2> QED BY <2>2, <2>4 DEF own
<1> HIDE DEF route
<1>8. ASSUME PrivateRoutes = <<>> PROVE Numbered /\ AllTrue /\ Disjoint /\ Complete
  <2>1. found = OwnRoutes
    BY <1>7, <1>8
  <2>2. /\ Len(found) = n /\ DOMAIN found = 1 .. n
        /\ \A k \in 1 .. n : found[k] = route(k)
    BY <1>7, <2>1
  <2>3. Numbered /\ AllTrue
    BY <1>6, <2>2
  <2>4. Disjoint
    BY <1>2, <1>6, <2>2
  <2>5. ASSUME NEW r \in Range(Found), IsOwn(r.src)
        PROVE  \E k \in DOMAIN found : r.src \in NicsOf(found[k])
    <3>1. PICK k \in 1 .. n : srcs[k] = r.src
      BY <1>2, <2>5
    <3>2. k \in DOMAIN found /\ r.src \in NicsOf(found[k])
      BY <1>6, <2>2, <3>1
    <3> QED BY <3>2
  <2>6. Complete
    BY <2>5
  <2> HIDE DEF Numbered, AllTrue, Disjoint, Complete
  <2> QED BY <2>3, <2>4, <2>6
<1>9. ASSUME NEW e \in External, PrivateRoutes = <<[nics |-> Privates, ext |-> e]>>,
             IsPublic(default) \/ \A a \in Private : e = wan[a]
      PROVE  Numbered /\ AllTrue /\ Disjoint /\ Complete
  <2> DEFINE last == [nics |-> Privates, ext |-> e]
  <2>1. Range(Privates) \subseteq Private
    <3>1. Privates \in Seq(Private)
      BY LookupsAre
    <3> QED BY <3>1 DEF Range
  <2>2. last.ext = e /\ last.nics = Privates /\ PrivateRoutes = <<last>>
    BY <1>9
  <2>0. NicsOf(last) \subseteq Private
    BY <2>1 DEF NicsOf
  <2> HIDE DEF last
  <2>3. IsTrue(last) /\ last.ext \in Nat
    BY <1>5, <1>9, <2>0, <2>2 DEF IsTrue
  <2>4. found = Append(OwnRoutes, last)
    BY <1>7, <2>2
  <2>5. /\ Len(found) = n + 1 /\ DOMAIN found = 1 .. n + 1 /\ found[n + 1] = last
        /\ \A k \in 1 .. n : found[k] = route(k)
    BY <1>7, <2>4
  <2>6. \A k \in 1 .. n + 1 : k = n + 1 \/ k \in 1 .. n
    OBVIOUS
  <2>7. \A k \in DOMAIN found : IsTrue(found[k]) /\ found[k].ext \in Nat
    BY <1>6, <2>3, <2>5, <2>6
  <2>8. ASSUME NEW j \in DOMAIN found, NEW k \in DOMAIN found, j # k
        PROVE  NicsOf(found[j]) \cap NicsOf(found[k]) = {}
    <3>1. CASE j \in 1 .. n /\ k \in 1 .. n
      BY <1>2, <1>6, <2>5, <2>8, <3>1, SMTT(30)
    <3>2. CASE j = n + 1 /\ k \in 1 .. n
      BY <1>3, <1>5, <1>6, <2>0, <2>5, <3>2, SMTT(30)
    <3>3. CASE j \in 1 .. n /\ k = n + 1
      BY <1>3, <1>5, <1>6, <2>0, <2>5, <3>3, SMTT(30)
    <3> QED BY <2>5, <2>6, <2>8, <3>1, <3>2, <3>3
  <2>9. ASSUME NEW r \in Range(Found), IsOwn(r.src)
        PROVE  \E k \in DOMAIN found : r.src \in NicsOf(found[k])
    <3>1. PICK k \in 1 .. n : srcs[k] = r.src
      BY <1>2, <2>9
    <3>2. k \in DOMAIN found /\ r.src \in NicsOf(found[k])
      BY <1>6, <2>5, <3>1
    <3> QED BY <3>2
  <2>10. Numbered
    BY <2>5
  <2>11. AllTrue
    BY <2>7
  <2>12. Disjoint
    BY <2>8
  <2>13. Complete
    BY <2>9
  <2> HIDE DEF Numbered, AllTrue, Disjoint, Complete
  <2> QED BY <2>10, <2>11, <2>12, <2>13
<1>10. Numbered /\ AllTrue /\ Disjoint /\ Complete
  <2> HIDE DEF Numbered, AllTrue, Disjoint, Complete
  <2> QED BY <1>8, <1>9, PrivateRoutesAre
<1> QED BY <1>10

\* The list that is set is one.
LEMMA SetRoutesTrue ==
  ASSUME RoutesAssumption, RoutesInv, SetRoutes
  PROVE  RoutesAreTrue'
<1> DEFINE found == OwnRoutes \o PrivateRoutes
           only == IF DefaultExt = {} THEN <<>>
                   ELSE <<[nics |-> <<default>>, ext |-> CHOOSE e \in DefaultExt : TRUE]>>
<1>1. PICK p \in Bijection(DOMAIN found, DOMAIN found) :
        /\ routes' = {IF found # <<>> THEN [k \in DOMAIN found |-> found[p[k]]] ELSE only}
  BY DEF SetRoutes
<1> DEFINE list == IF found # <<>> THEN [k \in DOMAIN found |-> found[p[k]]] ELSE only
<1>2. /\ nics' = nics /\ default' = default /\ wan' = wan
      /\ lookedUp' = lookedUp /\ guessed' = guessed /\ Found' = Found
  BY DEF SetRoutes, Found
<1>3. SUFFICES ASSUME AreTrue
               PROVE  /\ \A k \in DOMAIN list : IsTrue(list[k])
                      /\ \A k \in DOMAIN list : \A a \in NicsOf(list[k]) :
                           \A j \in DOMAIN list \ {k} : a \notin NicsOf(list[j])
                      /\ \A r \in Range(Found) :
                           IsPublic(r.src) /\ r.src \in Range(nics) /\ (r.src = default => list = <<>>) =>
                             \E k \in DOMAIN list : r.src \in NicsOf(list[k])
  <2> HIDE DEF list
  <2>1. routes' = {list}
    BY <1>1 DEF list
  <2> QED BY <1>2, <2>1 DEF RoutesAreTrue, AreTrue, IsTrue, NicsOf, IsPublic
<1>4. /\ p \in [DOMAIN found -> DOMAIN found] /\ \A j, k \in DOMAIN found : p[j] = p[k] => j = k
      /\ \A i \in DOMAIN found : \E k \in DOMAIN found : p[k] = i
  BY DEF Bijection, Injection, Surjection, IsInjective
<1>5. /\ Len(found) \in Nat /\ DOMAIN found = 1 .. Len(found)
      /\ \A k \in DOMAIN found : IsTrue(found[k]) /\ found[k].ext \in Nat
      /\ \A j, k \in DOMAIN found : j # k => NicsOf(found[j]) \cap NicsOf(found[k]) = {}
      /\ \A r \in Range(Found) : IsOwn(r.src) =>
           \E k \in DOMAIN found : r.src \in NicsOf(found[k])
  BY <1>3, FoundRoutesAre
<1>6. \A r \in Range(Found) : IsPublic(r.src) /\ r.src # default => IsOwn(r.src)
  <2>1. Privates # <<>> => Privates[1] \in Private
    <3>1. Privates \in Seq(Private)
      BY LookupsAre
    <3> QED BY <3>1
  <2> QED BY <2>1 DEF IsPublic, IsOwn, RoutesAssumption
<1> HIDE DEF found, only
<1>7. CASE found # <<>>
  <2>1. DOMAIN list = DOMAIN found /\ \A k \in DOMAIN found : list[k] = found[p[k]]
    BY <1>7
  <2>2. list # <<>>
    <3>1. DOMAIN found # {}
      BY <1>5, <1>7
    <3> QED BY <2>1, <3>1
  <2> HIDE DEF list
  <2>3. ASSUME NEW r \in Range(Found), IsPublic(r.src), r.src # default
        PROVE  \E k \in DOMAIN list : r.src \in NicsOf(list[k])
    <3>1. PICK i \in DOMAIN found : r.src \in NicsOf(found[i])
      BY <1>5, <1>6, <2>3
    <3>2. PICK k \in DOMAIN found : p[k] = i
      BY <1>4
    <3> QED BY <2>1, <3>1, <3>2
  <2>4. \A k \in DOMAIN list : IsTrue(list[k])
    BY <1>4, <1>5, <2>1
  <2>5. ASSUME NEW k \in DOMAIN list, NEW a \in NicsOf(list[k]), NEW j \in DOMAIN list \ {k}
        PROVE  a \notin NicsOf(list[j])
    <3>1. p[j] # p[k] /\ p[j] \in DOMAIN found /\ p[k] \in DOMAIN found
      BY <1>4, <2>1
    <3> QED BY <1>5, <2>1, <3>1
  <2> QED BY <2>2, <2>3, <2>4, <2>5
<1>8. CASE found = <<>>
  <2>1. list = only /\ DOMAIN found = {}
    BY <1>8
  <2>2. \A r \in Range(Found) : ~IsOwn(r.src)
    BY <1>5, <2>1
  <2> HIDE DEF list
  <2>3. CASE DefaultExt = {}
    <3>1. list = <<>>
      BY <2>1, <2>3 DEF only
    <3>2. ASSUME NEW r \in Range(Found), IsPublic(r.src), r.src \in Range(nics) PROVE FALSE
      <4>1. r.src = default
        BY <1>6, <2>2, <3>2
      <4> QED BY <1>3, <2>3, <3>2, <4>1, DefaultExtIs
    <3> QED BY <3>1, <3>2
  <2>4. CASE DefaultExt # {}
    <3> DEFINE e == CHOOSE x \in DefaultExt : TRUE
               r == [nics |-> <<default>>, ext |-> e]
    <3>1. e = wan[default]
      BY <1>3, <2>4, DefaultExtIs
    <3>2. r.ext = e /\ NicsOf(r) = {default}
      BY DEF Range, NicsOf
    <3>3. list = <<r>>
      BY <2>1, <2>4 DEF only
    <3> HIDE DEF r, e
    <3>4. DOMAIN list = {1} /\ list[1] = r /\ list # <<>>
      BY <3>3
    <3>5. IsTrue(r)
      BY <3>1, <3>2 DEF IsTrue
    <3>6. ASSUME NEW x \in Range(Found), IsPublic(x.src), x.src # default PROVE FALSE
      BY <1>6, <2>2, <3>6
    <3> QED BY <3>4, <3>5, <3>6
  <2> QED BY <2>3, <2>4
<1> QED BY <1>7, <1>8

LEMMA SameLookups ==
  ASSUME nics' = nics, default' = default
  PROVE  Lookups' = Lookups
BY DEF Lookups, Privates

\* A lookup that ends without a wrong answer.
LEMMA EndedKeeps ==
  ASSUME RoutesAssumption, RoutesInv, Running, NEW v \in External \cup {NoIp}, Ended(v),
         nics' = nics, default' = default, wan' = wan,
         AreTrue' => AreTrue /\ v \in {NoIp, wan[Src]}
  PROVE  RoutesInv'
<1>1. Lookups \in Seq(Address) /\ Lookups' = Lookups
  BY LookupsAre, SameLookups
<1>2. /\ lookedUp \in Seq(Lookup) /\ Len(lookedUp) \in Nat
      /\ DOMAIN lookedUp = 1 .. Len(lookedUp)
  BY DEF RoutesInv
<1> DEFINE n == Len(lookedUp)
           entry == IF v = NoIp THEN NoRoute ELSE [src |-> Src, ext |-> v]
<1>3. n + 1 \in DOMAIN Lookups /\ Src = Lookups[n + 1] /\ Src \in Address
  BY <1>1, <1>2 DEF Running, Src
<1>4. lookedUp' = Append(lookedUp, entry)
  BY DEF Ended
<1>5. entry \in Lookup
  BY <1>3 DEF Lookup
<1>6. entry = NoRoute \/ (v # NoIp /\ entry = [src |-> Lookups[n + 1], ext |-> v])
  BY <1>3
<1> HIDE DEF entry
<1>7. /\ lookedUp' \in Seq(Lookup) /\ DOMAIN lookedUp' = 1 .. n + 1
      /\ lookedUp'[n + 1] = entry /\ \A k \in 1 .. n : lookedUp'[k] = lookedUp[k]
  BY <1>2, <1>4, <1>5
<1>8. counts' \in [External \cup {NoIp} -> Nat]
  BY DEF Ended, Unanswered
<1>9. ASSUME AreTrue', NEW k \in DOMAIN lookedUp'
      PROVE  \/ lookedUp'[k] = NoRoute
             \/ /\ k \in DOMAIN Lookups
                /\ lookedUp'[k] = [src |-> Lookups[k], ext |-> wan[Lookups[k]]]
  <2>1. CASE k = n + 1
    BY <1>3, <1>6, <1>7, <1>9, <2>1
  <2>2. CASE k \in 1 .. n
    BY <1>2, <1>7, <1>9, <2>2 DEF RoutesInv
  <2> QED BY <1>2, <1>7, <2>1, <2>2
<1> QED BY <1>1, <1>7, <1>8, <1>9 DEF RoutesInv

\* A wrong answer is too rare to be agreed on.
LEMMA WrongNotAgreed ==
  ASSUME RoutesAssumption, RoutesInv, NEW v \in External, v # wan[Src],
         WrongAnswers < MaxWrong, MaxWrong < MinAgree
  PROVE  ~Agreed(counts[v] + 1)
<1> DEFINE wrong == External \ {wan[Src]}
<1>1. \A u \in External : counts[u] \in Nat
  BY DEF RoutesInv
<1>2. IsFiniteSet(External) /\ MaxWrong \in Nat /\ MinAgree \in Nat
  BY DEF RoutesAssumption
<1>3. SumOn(counts, wrong) \in Nat /\ counts[v] <= SumOn(counts, wrong)
  <2>1. wrong \in SUBSET External /\ v \in wrong
    OBVIOUS
  <2> HIDE DEF wrong
  <2>2. \A T \in SUBSET External :
          SumOn(counts, T) \in Nat /\ \A x \in T : counts[x] <= SumOn(counts, T)
    BY <1>1, <1>2, SumBounds
  <2> QED BY <2>1, <2>2
<1>4. SumOn(counts, wrong) = WrongAnswers
  BY DEF SumOn, WrongAnswers
<1> HIDE DEF wrong
<1>5. counts[v] + 1 <= MaxWrong
  BY <1>1, <1>2, <1>3, <1>4
<1> QED BY <1>1, <1>2, <1>5 DEF Agreed

LEMMA RoutesInvHolds == RoutesSpec => [](RoutesInv /\ RoutesAreTrue)
<1>1. ASSUME RoutesInit PROVE RoutesInv /\ RoutesAreTrue
  <2>1. /\ nics \in Nics /\ default \in {NoIp, Foreign} \cup (Range(nics) \ LinkLocal)
        /\ counts = Unanswered /\ lookedUp = <<>> /\ routes = {}
    BY <1>1 DEF RoutesInit
  <2>2. PICK router \in External :
          wan \in {w \in [Private \cup External \cup {Foreign} -> External] :
                     /\ \A a \in Private \cup {Foreign} : w[a] = router
                     /\ \A a \in External : w[a] \in {a, router}}
    BY <1>1 DEF RoutesInit
  <2>3. /\ wan \in [Address -> External] /\ \A a, b \in Private \cup {Foreign} : wan[a] = wan[b]
    BY <2>2 DEF Address
  <2>4. nics \in Seq(Private \cup LinkLocal \cup External) /\ IsInjective(nics)
    BY <2>1, RoutesAssumption DEF RoutesAssumption
  <2>5. counts \in [External \cup {NoIp} -> Nat]
    BY <2>1 DEF Unanswered
  <2>6. lookedUp \in Seq(Lookup) /\ DOMAIN lookedUp = {}
    BY <2>1
  <2> QED BY <2>1, <2>3, <2>4, <2>5, <2>6 DEF RoutesInv, RoutesAreTrue
<1>2. ASSUME RoutesInv, RoutesAreTrue, [RoutesNext]_routevars PROVE RoutesInv' /\ RoutesAreTrue'
  <2> USE <1>2, RoutesAssumption
  <2>1. ASSUME NEW v \in External \cup {NoIp}, StunAnswer(v) PROVE RoutesInv' /\ RoutesAreTrue'
    <3>1. Running /\ (v \in {NoIp, wan[Src]} \/ WrongAnswers < MaxWrong)
          /\ nics' = nics /\ default' = default /\ wan' = wan /\ guessed' = guessed /\ routes' = routes
      BY <2>1 DEF StunAnswer
    <3>2. AreTrue' => AreTrue
      BY <3>1 DEF AreTrue
    <3>3. RoutesAreTrue'
      BY <3>1 DEF RoutesAreTrue, Running
    <3>4. CASE Agreed(counts[v] + 1)
      <4>1. Ended(v)
        BY <2>1, <3>4 DEF StunAnswer
      <4>2. AreTrue' => v \in {NoIp, wan[Src]}
        BY <3>1, <3>2, <3>4, WrongNotAgreed DEF AreTrue
      <4> QED BY <3>1, <3>2, <3>3, <4>1, <4>2, EndedKeeps
    <3>5. CASE ~Agreed(counts[v] + 1) /\ Answered + 1 = StunClients
      <4>1. Ended(NoIp)
        BY <2>1, <3>5 DEF StunAnswer
      <4> QED BY <3>1, <3>2, <3>3, <4>1, EndedKeeps
    <3>6. CASE ~Agreed(counts[v] + 1) /\ Answered + 1 # StunClients
      <4>1. counts' = [counts EXCEPT ![v] = @ + 1] /\ lookedUp' = lookedUp
        BY <2>1, <3>6 DEF StunAnswer
      <4>2. counts' \in [External \cup {NoIp} -> Nat]
        BY <4>1 DEF RoutesInv
      <4>3. Lookups' = Lookups
        BY <3>1, SameLookups
      <4> QED BY <3>1, <3>2, <3>3, <4>1, <4>2, <4>3 DEF RoutesInv
    <3> QED BY <3>4, <3>5, <3>6
  <2>2. CASE StunTimeout
    <3>1. Running /\ nics' = nics /\ default' = default /\ wan' = wan /\ guessed' = TRUE /\ routes' = routes
      BY <2>2 DEF StunTimeout
    <3>2. PICK best \in {v \in DOMAIN counts : \A u \in DOMAIN counts : counts[u] <= counts[v]} :
            Ended(IF Answered = 0 THEN NoIp ELSE best)
      BY <2>2 DEF StunTimeout
    <3>3. PICK v \in External \cup {NoIp} : Ended(v)
      <4>1. best \in External \cup {NoIp}
        BY <3>2 DEF RoutesInv
      <4> QED BY <3>2, <4>1
    <3>4. ~AreTrue'
      BY <3>1 DEF AreTrue
    <3>5. RoutesAreTrue'
      BY <3>1 DEF RoutesAreTrue, Running
    <3> QED BY <3>1, <3>3, <3>4, <3>5, EndedKeeps
  <2>3. CASE BindFails
    <3>1. Running /\ nics' = nics /\ default' = default /\ wan' = wan /\ guessed' = guessed
          /\ routes' = routes /\ Ended(NoIp)
      BY <2>3 DEF BindFails
    <3>2. AreTrue' => AreTrue
      BY <3>1 DEF AreTrue
    <3>3. RoutesAreTrue'
      BY <3>1 DEF RoutesAreTrue, Running
    <3> QED BY <3>1, <3>2, <3>3, EndedKeeps
  <2>4. CASE SetRoutes
    <3>1. UNCHANGED <<nics, default, wan, counts, lookedUp, guessed>>
      BY <2>4 DEF SetRoutes
    <3>2. Lookups' = Lookups
      BY <3>1, SameLookups
    <3>3. RoutesInv'
      BY <3>1, <3>2 DEF RoutesInv, AreTrue
    <3> QED BY <2>4, <3>3, SetRoutesTrue
  <2>5. CASE UNCHANGED routevars
    <3>1. UNCHANGED <<nics, default, wan, counts, lookedUp, guessed, routes>>
      BY <2>5 DEF routevars
    <3>2. Lookups' = Lookups
      BY <3>1, SameLookups
    <3>3. RoutesInv'
      BY <3>1, <3>2, SMTT(30) DEF RoutesInv, AreTrue
    <3>4. Found' = Found
      BY <3>1 DEF Found
    <3>5. RoutesAreTrue'
      BY <3>1, <3>4, ZenonT(40) DEF RoutesAreTrue
    <3> QED BY <3>3, <3>5
  <2> QED BY <2>1, <2>2, <2>3, <2>4, <2>5 DEF RoutesNext
<1> QED BY <1>1, <1>2, PTL DEF RoutesSpec

\* A NIC's routes have the external addresses that its addresses really have, no
\* address has two, and none that was seen is left out: get_routes_with_res with
\* fewer wrong STUN servers than have to agree, for any number of addresses.
THEOREM RoutesAreTrueHolds == RoutesSpec => []RoutesAreTrue
BY RoutesInvHolds, PTL

-----------------------------------------------------------------------------
(***************************************************************************)
(* ClockSkew, for any number of NTP answers.  The square of the deviation of *)
(* any answer from the average is at most the sum of the squares, and so an *)
(* average that wrong answers are part of is not steady.                   *)
(***************************************************************************)

Numbers == [Offset -> Nat]

LEMMA SumsAre ==
  ASSUME NEW d
  PROVE  /\ Number(d) = SumOn(d, DOMAIN d)
         /\ Total(d) = SumOn([o \in Offset |-> o * d[o]], Offset)
         /\ Squares(d) = SumOn([o \in Offset |-> o * o * d[o]], Offset)
         /\ \A os : Count(d, os) = SumOn(d, os)
BY DEF Number, Total, Squares, SumOver, FoldFunction, SumOn, Count

\* The square is at least half that of the difference.
LEMMA TwoSquares ==
  ASSUME NEW a \in Int, NEW b \in Int
  PROVE  (a - b) * (a - b) <= 2 * (a * a) + 2 * (b * b)
<1>1. (a + b) * (a + b) >= 0
  <2> DEFINE c == a + b
  <2>1. c \in Int
    OBVIOUS
  <2> HIDE DEF c
  <2>2. c * c >= 0
    <3>1. CASE c >= 0
      BY <2>1, <3>1
    <3>2. CASE c < 0
      BY <2>1, <3>2
    <3> QED BY <2>1, <3>1, <3>2
  <2> QED BY <2>2 DEF c
<1>2. (a + b) * (a + b) = a * a + 2 * (a * b) + b * b
  OBVIOUS
<1>3. (a - b) * (a - b) = a * a - 2 * (a * b) + b * b
  OBVIOUS
<1>4. a * a \in Int /\ a * b \in Int /\ b * b \in Int
  OBVIOUS
<1> QED BY <1>1, <1>2, <1>3, <1>4

LEMMA SquareIs ==
  ASSUME NEW a \in Int
  PROVE  a * a \in Nat
<1>1. CASE a >= 0
  BY <1>1
<1>2. CASE a < 0
  BY <1>2
<1> QED BY <1>1, <1>2

LEMMA Cancel ==
  ASSUME NEW n \in Nat \ {0}, NEW a \in Int, NEW b \in Int, n * a <= n * b
  PROVE  a <= b
<1> SUFFICES ASSUME b + 1 <= a PROVE FALSE
  OBVIOUS
<1>1. (b + 1) * n <= a * n
  BY TimesMonotone
<1>2. (b + 1) * n = n * b + n /\ a * n = n * a
  OBVIOUS
<1>3. n * b \in Int /\ n * a \in Int
  OBVIOUS
<1> QED BY <1>1, <1>2, <1>3

Deviations(d) ==
  [o \in Offset |-> d[o] * ((Number(d) * o - Total(d)) * (Number(d) * o - Total(d)))]

\* n * spread is the sum of the squares of n times what is between an answer and
\* the average.
LEMMA SpreadIs ==
  ASSUME IsFiniteSet(Offset), Offset \subseteq Int, NEW d \in Numbers
  PROVE  /\ Number(d) \in Nat /\ Total(d) \in Int /\ Spread(d) \in Int
         /\ \A o \in Offset : Deviations(d)[o] \in Nat
         /\ SumOn(Deviations(d), Offset) = Number(d) * Spread(d)
<1> DEFINE n == Number(d)
           s == Total(d)
           dev == Deviations(d)
<1>0. dev = [o \in Offset |-> d[o] * ((n * o - s) * (n * o - s))]
  BY DEF Deviations
<1> DEFINE f1 == [o \in Offset |-> o * d[o]]
           f2 == [o \in Offset |-> o * o * d[o]]
           q == Squares(d)
<1>1. DOMAIN d = Offset /\ \A o \in Offset : d[o] \in Nat /\ o \in Int
  BY DEF Numbers
<1>2. n = SumOn(d, Offset) /\ s = SumOn(f1, Offset) /\ q = SumOn(f2, Offset)
  BY <1>1, SumsAre
<1>3. \A o \in Offset : d[o] \in Int /\ f1[o] = o * d[o] /\ f2[o] = o * o * d[o]
  BY <1>1
<1>4. \A o \in Offset : f1[o] \in Int /\ f2[o] \in Int
  BY <1>1, <1>3
<1> HIDE DEF f1, f2
<1>5. n \in Nat /\ s \in Int /\ q \in Int
  <2>1. n \in Nat
    <3>1. \A T \in SUBSET Offset : SumOn(d, T) \in Nat /\ \A x \in T : d[x] <= SumOn(d, T)
      BY <1>1, SumBounds
    <3> QED BY <1>2, <3>1
  <2>2. ASSUME NEW f, \A o \in Offset : f[o] \in Int PROVE SumOn(f, Offset) \in Int
    BY <2>2, SumIs
  <2> QED BY <1>2, <1>4, <2>1, <2>2
<1> HIDE DEF q, n, s, dev
<1>6. Spread(d) = n * q - s * s /\ Spread(d) \in Int
  BY <1>5 DEF Spread, q, n, s
<1>7. \A o \in Offset : dev[o] \in Nat
  <2> SUFFICES ASSUME NEW o \in Offset PROVE dev[o] \in Nat
    OBVIOUS
  <2> DEFINE a == n * o - s
  <2>1. a \in Int /\ d[o] \in Nat /\ dev[o] = d[o] * (a * a)
    BY <1>0, <1>1, <1>5
  <2> HIDE DEF a
  <2>2. a * a \in Nat
    BY <2>1, SquareIs
  <2> QED BY <2>1, <2>2
<1> DEFINE f3 == [o \in Offset |-> n * f2[o] - 2 * s * f1[o]]
<1>8. \A o \in Offset : f3[o] = n * f2[o] + (0 - 2 * s) * f1[o]
  BY <1>4, <1>5
<1>9. \A o \in Offset : f3[o] \in Int
  BY <1>4, <1>5
<1>10. SumOn(f3, Offset) = n * q + (0 - 2 * s) * s
  <2> HIDE DEF f3
  <2>1. n \in Int /\ 0 - 2 * s \in Int
    BY <1>5
  <2>2. f1 \in [Offset -> Int] /\ f2 \in [Offset -> Int] /\ f3 \in [Offset -> Int]
    BY <1>4, <1>9 DEF f1, f2, f3
  <2> DEFINE b == 0 - 2 * s
  <2>3. b \in Int /\ Combines(f3, Offset, n, f2, b, f1)
    BY <1>8, <2>1 DEF Combines, Combined
  <2> HIDE DEF b
  <2>4. Combined(SumOn(f3, Offset), n, SumOn(f2, Offset), b, SumOn(f1, Offset))
    BY <2>1, <2>2, <2>3, SumLinear
  <2> QED BY <1>2, <2>4 DEF b, Combined
<1>11. \A o \in Offset : dev[o] = n * f3[o] + (s * s) * d[o]
  <2> SUFFICES ASSUME NEW o \in Offset PROVE dev[o] = n * f3[o] + (s * s) * d[o]
    OBVIOUS
  <2> DEFINE c == d[o]
  <2>1. dev[o] = c * ((n * o - s) * (n * o - s))
    BY <1>0
  <2>2. f3[o] = n * (o * o * c) - 2 * s * (o * c)
    BY <1>3
  <2>3. c \in Int /\ o \in Int
    BY <1>1
  <2> HIDE DEF c
  <2>4. c * ((n * o - s) * (n * o - s)) = n * (n * (o * o * c) - 2 * s * (o * c)) + (s * s) * c
    BY <1>5, <2>3
  <2> QED BY <2>1, <2>2, <2>4 DEF c
<1> HIDE DEF f3
<1>12. SumOn(dev, Offset) = n * (n * q + (0 - 2 * s) * s) + (s * s) * n
  <2> DEFINE b == s * s
  <2>1. n \in Int /\ b \in Int /\ Combines(dev, Offset, n, f3, b, d)
    BY <1>5, <1>11 DEF Combines, Combined
  <2>2. d \in [Offset -> Int] /\ dev \in [Offset -> Int] /\ f3 \in [Offset -> Int]
    BY <1>0, <1>7, <1>9 DEF Numbers, f3
  <2> HIDE DEF b
  <2>3. Combined(SumOn(dev, Offset), n, SumOn(f3, Offset), b, SumOn(d, Offset))
    BY <2>1, <2>2, SumLinear
  <2> QED BY <1>2, <1>10, <2>3 DEF b, Combined
<1>13. n * (n * q + (0 - 2 * s) * s) + (s * s) * n = n * (n * q - s * s)
  BY <1>5
<1> QED BY <1>5, <1>6, <1>7, <1>12, <1>13 DEF n, s, dev

\* An answer far from another makes the points spread.
LEMMA SpreadBounds ==
  ASSUME IsFiniteSet(Offset), Offset \subseteq Int, NEW d \in Numbers,
         NEW o \in Offset, NEW r \in Offset, o # r, d[o] # 0, d[r] # 0
  PROVE  /\ Number(d) \in Nat \ {0} /\ Spread(d) \in Int
         /\ Number(d) * ((o - r) * (o - r)) <= 2 * Spread(d)
<1> DEFINE n == Number(d)
           s == Total(d)
           dev == Deviations(d)
           a == n * o - s
           b == n * r - s
<1>1. /\ n \in Nat /\ s \in Int /\ Spread(d) \in Int
      /\ \A x \in Offset : dev[x] \in Nat
      /\ SumOn(dev, Offset) = n * Spread(d)
  BY SpreadIs
<1>2. o \in Int /\ r \in Int /\ d[o] \in Nat \ {0} /\ d[r] \in Nat \ {0}
  BY DEF Numbers
<1>3. dev[o] = d[o] * (a * a) /\ dev[r] = d[r] * (b * b)
  BY DEF Deviations
<1>4. n # 0
  <2>1. n = SumOn(d, Offset)
    BY SumsAre DEF Numbers
  <2>2. \A x \in Offset : d[x] \in Nat
    BY DEF Numbers
  <2>3. \A T \in SUBSET Offset : SumOn(d, T) \in Nat /\ \A x \in T : d[x] <= SumOn(d, T)
    BY <2>2, SumBounds
  <2>4. d[o] <= n
    BY <2>1, <2>3
  <2> HIDE DEF n
  <2> QED BY <1>1, <1>2, <2>4
<1> HIDE DEF n, s, dev
<1>16. \A x \in Offset : dev[x] \in Nat
  BY <1>1
<1>5. a \in Int /\ b \in Int /\ a - b = n * (o - r)
  BY <1>1, <1>2
<1> HIDE DEF a, b
<1>6. a * a \in Nat /\ b * b \in Nat
  BY <1>5, SquareIs
<1>7. a * a <= dev[o] /\ b * b <= dev[r]
  <2>1. ASSUME NEW c \in Nat \ {0}, NEW x \in Nat PROVE x <= c * x
    <3>1. 1 * x <= c * x
      BY TimesMonotone
    <3> QED BY <3>1
  <2> QED BY <1>2, <1>3, <1>6, <2>1
<1>8. dev[o] + dev[r] <= SumOn(dev, Offset)
  BY <1>16, SumBoundsTwo
<1>9. (a - b) * (a - b) <= 2 * (a * a) + 2 * (b * b)
  BY <1>5, TwoSquares
<1>10. (a - b) * (a - b) <= 2 * (n * Spread(d))
  <2>1. dev[o] \in Nat /\ dev[r] \in Nat /\ n * Spread(d) \in Int /\ (a - b) * (a - b) \in Int
    BY <1>1, <1>5
  <2> QED BY <1>1, <1>6, <1>7, <1>8, <1>9, <2>1
<1> DEFINE D == (o - r) * (o - r)
           sp == Spread(d)
<1>11. (a - b) * (a - b) = n * (n * D)
  <2>1. n * (o - r) * (n * (o - r)) = n * (n * ((o - r) * (o - r)))
    BY <1>1, <1>2
  <2> QED BY <1>5, <2>1
<1>12. D \in Int /\ sp \in Int
  BY <1>1, <1>2
<1>13. 2 * (n * sp) = n * (2 * sp)
  BY <1>1, <1>12
<1>14. n * (n * D) <= n * (2 * sp)
  BY <1>10, <1>11, <1>13
<1>15. n * D <= 2 * sp
  <2> HIDE DEF D, sp
  <2>1. n \in Nat \ {0} /\ n * D \in Int /\ 2 * sp \in Int
    BY <1>1, <1>4, <1>12
  <2> QED BY <1>14, <2>1, Cancel
<1> QED BY <1>1, <1>4, <1>15 DEF n

Below(d, e) == \A o \in Offset : d[o] <= e[o]

\* Cleaning never adds.
LEMMA CleanedIs ==
  ASSUME NEW d \in Numbers
  PROVE  Cleaned(d) \in Numbers /\ Below(Cleaned(d), d)
<1>1. \A o \in Offset : Cleaned(d)[o] = d[o] \/ Cleaned(d)[o] = 0
  BY DEF Cleaned
<1>2. DOMAIN Cleaned(d) = Offset /\ Cleaned(d) = [o \in Offset |-> Cleaned(d)[o]]
  BY DEF Cleaned
<1>3. \A o \in Offset : d[o] \in Nat
  BY DEF Numbers
<1> QED BY <1>1, <1>2, <1>3 DEF Numbers, Below

LEMMA BelowIs ==
  ASSUME NEW d \in Numbers, NEW e \in Numbers, NEW f \in Numbers, Below(d, e), Below(e, f)
  PROVE  Below(d, f)
<1> SUFFICES ASSUME NEW o \in Offset PROVE d[o] <= f[o]
  BY DEF Below
<1>1. d[o] \in Nat /\ e[o] \in Nat /\ f[o] \in Nat /\ d[o] <= e[o] /\ e[o] <= f[o]
  BY DEF Numbers, Below
<1> QED BY <1>1

LEMMA CleanestIs ==
  ASSUME NEW d \in Numbers
  PROVE  Cleanest(d) \in Numbers /\ Below(Cleanest(d), d)
<1> DEFINE d1 == Cleaned(d)
           d2 == Cleaned(d1)
           d3 == Cleaned(d2)
<1>1. d1 \in Numbers /\ Below(d1, d)
  BY CleanedIs
<1>2. d2 \in Numbers /\ Below(d2, d1)
  BY <1>1, CleanedIs
<1>3. d3 \in Numbers /\ Below(d3, d2)
  BY <1>2, CleanedIs
<1>4. Cleanest(d) = d1 \/ Cleanest(d) = d2 \/ Cleanest(d) = d3
  BY DEF Cleanest
<1> HIDE DEF d1, d2, d3
<1>5. Below(d2, d)
  BY <1>1, <1>2, BelowIs
<1>6. Below(d3, d)
  BY <1>2, <1>3, <1>5, BelowIs
<1> QED BY <1>1, <1>2, <1>3, <1>4, <1>5, <1>6

LEMMA AddedIs ==
  ASSUME ClockSkewAssumption, NEW d \in Numbers, NEW e \in Numbers
  PROVE  /\ Added(d, e) \in Numbers /\ Below(d, Added(d, e))
         /\ Number(Added(d, e)) = Number(d) + Number(e)
         /\ Number(d) \in Nat /\ Number(e) \in Nat
<1> DEFINE a == Added(d, e)
<1>1. \A o \in Offset : d[o] \in Nat /\ e[o] \in Nat /\ a[o] = d[o] + e[o]
  BY DEF Numbers, Added
<1>2. DOMAIN d = Offset /\ DOMAIN e = Offset /\ DOMAIN a = Offset /\ IsFiniteSet(Offset)
  BY DEF Numbers, Added, ClockSkewAssumption
<1>3. a \in Numbers /\ Below(d, a)
  <2>1. a = [o \in Offset |-> a[o]]
    BY DEF Added
  <2> HIDE DEF a
  <2> QED BY <1>1, <2>1 DEF Numbers, Below
<1> HIDE DEF a
<1>4. Number(d) = SumOn(d, Offset) /\ Number(e) = SumOn(e, Offset) /\ Number(a) = SumOn(a, Offset)
  BY <1>2, SumsAre
<1>5. d \in [Offset -> Int] /\ e \in [Offset -> Int] /\ a \in [Offset -> Int]
  BY <1>3 DEF Numbers
<1>6. Combines(a, Offset, 1, d, 1, e)
  BY <1>1 DEF Combines, Combined
<1>7. 1 \in Int
  OBVIOUS
<1>8. Combined(SumOn(a, Offset), 1, SumOn(d, Offset), 1, SumOn(e, Offset))
  BY <1>2, <1>5, <1>6, <1>7, SumLinear
<1>9. Number(d) \in Nat
  <2>1. \A o \in Offset : d[o] \in Nat
    BY <1>1
  <2>2. \A T \in SUBSET Offset : SumOn(d, T) \in Nat
    BY <1>2, <2>1, SumBounds
  <2> QED BY <1>4, <2>2
<1>10. Number(e) \in Nat
  <2>1. \A o \in Offset : e[o] \in Nat
    BY <1>1
  <2>2. \A T \in SUBSET Offset : SumOn(e, T) \in Nat
    BY <1>2, <2>1, SumBounds
  <2> QED BY <1>4, <2>2
<1>11. Number(a) = 1 * Number(d) + 1 * Number(e)
  BY <1>4, <1>8 DEF Combined
<1>12. Number(a) = Number(d) + Number(e)
  BY <1>9, <1>10, <1>11
<1> QED BY <1>3, <1>9, <1>10, <1>12 DEF a

-----------------------------------------------------------------------------
\* The points are among the answers that came, of which there are at most three
\* rounds; a skew is of points that are enough, and steady.
SkewInv ==
  /\ asked \in 0 .. 3 /\ data \in Numbers /\ got \in Numbers /\ Below(data, got)
  /\ Number(got) <= asked * EnoughData
  /\ \A d \in skew : d \in Numbers /\ Below(d, got) /\ Steady(d) /\ Number(d) >= MinData

LEMMA SkewInvHolds == SkewSpec => []SkewInv
<1> USE ClockSkewAssumption
<1>1. ASSUME SkewInit PROVE SkewInv
  <2>1. Nothing \in Numbers /\ Below(Nothing, Nothing)
    BY DEF Nothing, Numbers, Below
  <2>2. Added(Nothing, Nothing) = Nothing
    BY DEF Added, Nothing
  <2>3. Number(Nothing) = 0
    <3>1. Number(Nothing) \in Nat /\ Number(Nothing) = Number(Nothing) + Number(Nothing)
      BY <2>1, <2>2, AddedIs
    <3> QED BY <3>1
  <2>4. 0 * EnoughData = 0
    BY DEF ClockSkewAssumption
  <2> QED BY <1>1, <2>1, <2>3, <2>4 DEF SkewInit, SkewInv
<1>2. ASSUME SkewInv, [SkewNext]_skewvars PROVE SkewInv'
  <2> USE <1>2 DEF SkewInv
  <2>1. ASSUME NEW answers \in [Offset -> 0 .. EnoughData], Number(answers) <= EnoughData,
               Round(answers)
        PROVE  SkewInv'
    <3> DEFINE points == Added(data, answers)
               clean == Cleanest(points)
    <3>1. answers \in Numbers
      BY DEF ClockSkewAssumption, Numbers
    <3>2. points \in Numbers /\ Below(data, points)
      BY <3>1, AddedIs
    <3>3. clean \in Numbers /\ Below(clean, points)
      BY <3>2, CleanestIs
    <3>4. /\ got' = Added(got, answers) /\ asked < 3 /\ asked' = asked + 1
          /\ \/ data' = data /\ skew' = skew
             \/ data' = points /\ skew' = skew
             \/ data' = clean /\ skew' = skew
             \/ data' = clean /\ skew' = {clean} /\ Steady(clean) /\ Number(clean) >= MinData
      BY <2>1 DEF Round
    <3>5. /\ got' \in Numbers /\ Below(got, got')
          /\ Number(got') = Number(got) + Number(answers)
          /\ Number(got) \in Nat /\ Number(answers) \in Nat
      BY <3>1, <3>4, AddedIs
    <3>6. Below(points, got')
      <4> SUFFICES ASSUME NEW o \in Offset PROVE points[o] <= got'[o]
        BY DEF Below
      <4>1. points[o] = data[o] + answers[o] /\ got'[o] = got[o] + answers[o] /\ data[o] <= got[o]
        BY <3>4 DEF Added, Below
      <4>2. data[o] \in Nat /\ got[o] \in Nat /\ answers[o] \in Nat
        BY <3>1 DEF Numbers
      <4> QED BY <4>1, <4>2
    <3> HIDE DEF points, clean
    <3>7. Below(data, got') /\ Below(clean, got')
      BY <3>2, <3>3, <3>5, <3>6, BelowIs
    <3>8. asked' \in 0 .. 3 /\ Number(got') <= asked' * EnoughData
      <4>1. (asked + 1) * EnoughData = asked * EnoughData + EnoughData /\ asked * EnoughData \in Nat
        BY DEF ClockSkewAssumption
      <4> QED BY <2>1, <3>4, <3>5, <4>1 DEF ClockSkewAssumption
    <3>9. data' \in Numbers /\ Below(data', got')
      BY <3>2, <3>3, <3>4, <3>6, <3>7
    <3>10. ASSUME NEW d \in skew'
           PROVE  d \in Numbers /\ Below(d, got') /\ Steady(d) /\ Number(d) >= MinData
      <4>1. CASE d \in skew
        <5>1. d \in Numbers /\ Below(d, got) /\ Steady(d) /\ Number(d) >= MinData
          BY <4>1
        <5> QED BY <3>5, <5>1, BelowIs
      <4>2. CASE d = clean /\ Steady(clean) /\ Number(clean) >= MinData
        BY <3>3, <3>7, <4>2
      <4> QED BY <3>4, <3>10, <4>1, <4>2
    <3>11. /\ Below(data, got)' /\ (Number(got) <= asked * EnoughData)'
           /\ \A d \in skew' : Below(d, got)' /\ Steady(d)' /\ Number(d)' >= MinData
      <4>1. ASSUME NEW CONSTANT d PROVE (Steady(d)' <=> Steady(d)) /\ Number(d)' = Number(d)
        OBVIOUS
      <4> QED BY <3>8, <3>9, <3>10, <4>1 DEF Below
    <3> QED BY <3>5, <3>8, <3>9, <3>10, <3>11
  <2>2. CASE GiveUpSkew \/ UNCHANGED skewvars
    <3>1. UNCHANGED <<asked, data, got, skew>>
      BY <2>2 DEF GiveUpSkew, skewvars
    <3>2. ASSUME NEW CONSTANT d PROVE (Steady(d)' <=> Steady(d)) /\ Number(d)' = Number(d)
      OBVIOUS
    <3> QED BY <3>1, <3>2 DEF Below
  <2> QED BY <1>2, <2>1, <2>2 DEF SkewNext
<1> QED BY <1>1, <1>2, PTL DEF SkewSpec

LEMMA RightOnly ==
  ASSUME ClockSkewAssumption, SkewInv, Far, Count(got, Wrong) < MinData,
         NEW d \in skew, NEW o \in Wrong
  PROVE  d[o] = 0
<1> SUFFICES ASSUME d[o] # 0 PROVE FALSE
  OBVIOUS
<1>1. IsFiniteSet(Offset) /\ Offset \subseteq Int /\ Wrong \subseteq Offset /\ o \in Offset
  BY DEF ClockSkewAssumption, Offset
<1>2. d \in Numbers /\ Below(d, got) /\ Steady(d) /\ Number(d) >= MinData
      /\ got \in Numbers /\ asked \in 0 .. 3 /\ Number(got) <= asked * EnoughData
  BY DEF SkewInv
<1>3. \A x \in Offset : d[x] \in Nat /\ got[x] \in Nat /\ d[x] <= got[x]
  BY <1>2 DEF Numbers, Below
<1>4. /\ Number(d) = SumOn(d, Offset) /\ Number(got) = SumOn(got, Offset)
      /\ Count(got, Wrong) = SumOn(got, Wrong)
  BY <1>2, SumsAre DEF Numbers
<1>5. /\ \A T \in SUBSET Offset : SumOn(d, T) <= SumOn(got, T)
      /\ \A T \in SUBSET Offset : SumOn(d, T) \in Nat
      /\ \A T \in SUBSET Offset : SumOn(got, T) \in Nat
  <2>1. \A x \in Offset : d[x] \in Int /\ got[x] \in Int /\ d[x] <= got[x]
    BY <1>3
  <2>2. \A x \in Offset : d[x] \in Nat
    BY <1>3
  <2>3. \A x \in Offset : got[x] \in Nat
    BY <1>3
  <2>4. \A T \in SUBSET Offset : SumOn(d, T) <= SumOn(got, T)
    BY <1>1, <2>1, SumMonotone
  <2>5. \A T \in SUBSET Offset : SumOn(d, T) \in Nat
    BY <1>1, <2>2, SumBounds
  <2>6. \A T \in SUBSET Offset : SumOn(got, T) \in Nat
    BY <1>1, <2>3, SumBounds
  <2> QED BY <2>4, <2>5, <2>6
\* A right one is among them: there are more than wrong ones.
<1>6. PICK r \in Right : d[r] # 0
  <2> SUFFICES ASSUME \A r \in Right : d[r] = 0 PROVE FALSE
    OBVIOUS
  <2>1. SumOn(d, Offset) = SumOn(d, Wrong)
    <3>1. (\A x \in Offset : d[x] \in Int) /\ \A x \in Offset \ Wrong : d[x] = 0
      BY <1>3 DEF Offset
    <3> QED BY <1>1, <3>1, SumOfRest
  <2>2. SumOn(d, Wrong) <= SumOn(got, Wrong) /\ SumOn(d, Wrong) \in Nat /\ SumOn(got, Wrong) \in Nat
    BY <1>1, <1>5
  <2>3. MinData \in Nat
    BY DEF ClockSkewAssumption
  <2> QED BY <1>2, <1>4, <2>1, <2>2, <2>3
<1> DEFINE D == (o - r) * (o - r)
           n == Number(d)
           sp == Spread(d)
           M == MaxSdev * MaxSdev
<1>7. r \in Offset /\ r # o
  BY DEF ClockSkewAssumption, Offset
<1>8. n \in Nat \ {0} /\ sp \in Int /\ n * D <= 2 * sp
  BY <1>1, <1>2, <1>6, <1>7, SpreadBounds
<1>9. sp <= M * n * n
  BY <1>2 DEF Steady
<1>10. D > 6 * MaxSdev * MaxSdev * EnoughData
  BY DEF Far
<1>11. M \in Nat /\ EnoughData \in Nat /\ D \in Int
  <2>1. o \in Int /\ r \in Int /\ MaxSdev \in Nat /\ EnoughData \in Nat
    BY <1>1, <1>7 DEF ClockSkewAssumption
  <2> QED BY <2>1
<1>12. 6 * MaxSdev * MaxSdev * EnoughData = 2 * M * (3 * EnoughData)
  BY DEF ClockSkewAssumption
<1>13. n <= 3 * EnoughData
  <2>1. SumOn(d, Offset) <= SumOn(got, Offset) /\ SumOn(got, Offset) \in Nat
    BY <1>5
  <2>2. asked * EnoughData <= 3 * EnoughData
    BY <1>2, <1>11, TimesMonotone
  <2>3. asked * EnoughData \in Nat
    BY <1>2, <1>11
  <2> QED BY <1>2, <1>4, <1>8, <1>11, <2>1, <2>2, <2>3
<1> HIDE DEF D, n, sp, M
<1>14. n * D <= n * (2 * M * n)
  <2>1. M * n * n \in Nat /\ n * D \in Int /\ n * (2 * M * n) = 2 * (M * n * n)
    BY <1>8, <1>11
  <2> QED BY <1>8, <1>9, <2>1
<1>15. D <= 2 * M * n
  <2>1. 2 * M * n \in Int
    BY <1>8, <1>11
  <2> QED BY <1>8, <1>11, <1>14, <2>1, Cancel
<1>16. 2 * M * n <= 2 * M * (3 * EnoughData)
  <2> DEFINE m == 2 * M
             e == 3 * EnoughData
  <2>1. m \in Nat /\ e \in Int /\ n \in Int /\ n <= e
    BY <1>8, <1>11, <1>13
  <2> HIDE DEF m, e
  <2>2. n * m <= e * m
    BY <2>1, TimesMonotone
  <2>3. n * m = m * n /\ e * m = m * e
    BY <2>1
  <2>4. m * n <= m * e
    BY <2>2, <2>3
  <2> QED BY <2>4 DEF m, e
<1>17. 2 * M * n \in Int /\ 2 * M * (3 * EnoughData) \in Int
  BY <1>8, <1>11
<1> QED BY <1>10, <1>11, <1>12, <1>15, <1>16, <1>17 DEF D

\* A skew that is taken is an average of right offsets only: clock_skew.py with
\* fewer wrong answers than MinData, each farther from the right ones than what
\* MaxSdev lets pass, whatever was lost and cleaned away before.
THEOREM SkewIsRightHolds == SkewSpec => []SkewIsRight
<1>1. SkewInv => SkewIsRight
  BY ClockSkewAssumption, RightOnly DEF SkewIsRight
<1> QED BY <1>1, SkewInvHolds, PTL

-----------------------------------------------------------------------------
(***************************************************************************)
(* DeltaTest, for any number of tests and any rule of the NAT.             *)
(***************************************************************************)

LEMMA ModIs ==
  ASSUME NEW q \in Nat, NEW m \in Nat \ {0}, NEW r \in 0 .. m - 1
  PROVE  (q * m + r) % m = r
<1> DEFINE n == q * m + r
<1>1. n \in Nat
  OBVIOUS
<1>2. n \div m = q
  BY DivideIs
<1> HIDE DEF n
<1>3. n % m \in 0 .. m - 1 /\ n = (n \div m) * m + (n % m)
  BY <1>1, Divided
<1>4. q * m \in Nat
  OBVIOUS
<1>5. n % m = r
  <2>1. n = q * m + (n % m)
    BY <1>2, <1>3
  <2>2. n = q * m + r
    BY DEF n
  <2> HIDE DEF n
  <2> DEFINE k == n % m
             p == q * m
  <2>3. k \in Int /\ p \in Int /\ n = p + k /\ n = p + r
    BY <1>3, <1>4, <2>1, <2>2
  <2> HIDE DEF k, p
  <2>4. k = r
    BY <2>3
  <2> QED BY <2>4 DEF k
<1> QED BY <1>5 DEF n

\* The next port, around the end.
LEMMA NextMod ==
  ASSUME NEW n \in Nat, NEW m \in Nat \ {0}, NEW v \in 0 .. m - 1
  PROVE  /\ n % m \in 0 .. m - 1
         /\ (n + v) % m = IF (n % m) + v < m THEN (n % m) + v ELSE (n % m) + v - m
<1> DEFINE q == n \div m
           r == n % m
<1>1. q \in Nat /\ r \in 0 .. m - 1 /\ n = q * m + r
  BY Divided
<1> HIDE DEF q, r
<1>2. CASE r + v < m
  <2>1. n + v = q * m + (r + v) /\ r + v \in 0 .. m - 1
    <3>1. q * m \in Nat
      BY <1>1
    <3> QED BY <1>1, <1>2, <3>1
  <2>2. (q * m + (r + v)) % m = r + v
    BY <1>1, <2>1, ModIs
  <2> QED BY <1>1, <1>2, <2>1, <2>2 DEF r
<1>3. CASE r + v >= m
  <2> DEFINE p == q + 1
             s == r + v - m
  <2>1. s \in 0 .. m - 1 /\ p \in Nat
    BY <1>1, <1>3
  <2>2. n + v = p * m + s
    <3>1. (q + 1) * m = q * m + m /\ q * m \in Nat
      BY <1>1
    <3> QED BY <1>1, <3>1
  <2> HIDE DEF p, s
  <2>3. (p * m + s) % m = s
    BY <2>1, ModIs
  <2>4. ~(r + v < m)
    BY <1>1, <1>3
  <2> QED BY <1>1, <2>2, <2>3, <2>4 DEF r, s
<1> QED BY <1>1, <1>2, <1>3

LEMMA LastPortIs == LastPort \in Nat /\ LastPort > 4 /\ TestNo \in Nat /\ TestNo > 3
BY DeltaTestAssumption DEF DeltaTestAssumption

Port == 1 .. LastPort

LEMMA FieldDistIs ==
  ASSUME NEW x \in Port, NEW y \in Port, NEW d \in Nat, d = x - y \/ d = y - x
  PROVE  FieldDist(x, y) = (IF 2 * d <= LastPort THEN d ELSE LastPort - d) /\ FieldDist(x, y) \in 0 .. LastPort
<1> DEFINE e == LastPort - d
<1>1. LastPort \in Nat /\ x \in Nat /\ y \in Nat /\ e \in 0 .. LastPort
  BY LastPortIs DEF Port
<1>2. d = IF x < y THEN y - x ELSE x - y
  BY <1>1
<1>3. FieldDist(x, y) = Min({d, LastPort - d})
  BY <1>2 DEF FieldDist
<1> HIDE DEF e
<1>4. Min({d, e}) = IF d <= e THEN d ELSE e
  BY <1>1 DEF Min
<1> QED BY <1>1, <1>3, <1>4 DEF e

-----------------------------------------------------------------------------
\* The answers of a round.
LEMMA AnswersAre ==
  ASSUME NEW r \in Rule, NEW local \in [Test -> Port], NEW lost \in SUBSET Test,
         NEW rs, rs = Answers(r, local, lost)
  PROVE  \A i \in Test : /\ rs[i] = NoAnswer <=> i \in lost
                         /\ i \notin lost => /\ Pair(rs, i).local = local[i]
                                             /\ Pair(rs, i).mapped = MappedBy(r, local, i)
<1> SUFFICES ASSUME NEW i \in Test
             PROVE  /\ rs[i] = NoAnswer <=> i \in lost
                    /\ i \notin lost => /\ Pair(rs, i).local = local[i]
                                        /\ Pair(rs, i).mapped = MappedBy(r, local, i)
  OBVIOUS
<1> DEFINE x == [local |-> local[i], mapped |-> MappedBy(r, local, i)]
<1>1. rs[i] = IF i \in lost THEN NoAnswer ELSE {x}
  BY DEF Answers
<1>2. x.local = local[i] /\ x.mapped = MappedBy(r, local, i)
  OBVIOUS
<1> HIDE DEF x
<1>3. i \notin lost => Pair(rs, i) = x
  BY <1>1 DEF Pair
<1> QED BY <1>1, <1>2, <1>3 DEF NoAnswer

\* Enough pairs are compared.
LEMMA ComparedAre ==
  ASSUME NEW lost \in SUBSET Test, NEW rs, \A i \in Test : rs[i] = NoAnswer <=> i \in lost
  PROVE  /\ Compared(rs) = {i \in Test : i # 1 /\ i \notin lost /\ i - 1 \notin lost}
         /\ Compared(rs) \subseteq Counted(rs) /\ Counted(rs) \subseteq Test \ lost
         /\ IsFiniteSet(Counted(rs)) /\ IsFiniteSet(Compared(rs))
         /\ Enough(rs) => Cardinality(Compared(rs)) >= Threshold
         /\ Threshold \in Nat \ {0}
<1> DEFINE cs == Compared(rs)
           shifted == {i \in Test : i - 1 \in lost}
           others == {1} \cup (lost \cup shifted)
<1>1. TestNo \in Nat /\ TestNo > 3 /\ Test = 1 .. TestNo
  BY LastPortIs DEF Test
<1>2. \A i \in Test : i # 1 => i - 1 \in Test
  BY <1>1
<1>3. cs = {i \in Test : i # 1 /\ i \notin lost /\ i - 1 \notin lost}
  BY <1>2 DEF Compared, Counted
<1>4. cs \subseteq Counted(rs) /\ Counted(rs) \subseteq Test \ lost
  BY DEF Compared, Counted
<1>5. IsFiniteSet(Test) /\ Cardinality(Test) = TestNo
  <2>1. 1 \in Int /\ TestNo \in Int
    BY <1>1
  <2>2. IsFiniteSet(1 .. TestNo) /\ Cardinality(1 .. TestNo) = IF 1 > TestNo THEN 0 ELSE TestNo - 1 + 1
    BY <2>1, FS_Interval
  <2> QED BY <1>1, <2>2
<1>6. IsFiniteSet(Counted(rs)) /\ IsFiniteSet(cs)
  <2>1. Counted(rs) \subseteq Test /\ cs \subseteq Test
    BY <1>3, <1>4
  <2> HIDE DEF cs
  <2> QED BY <1>5, <2>1, FS_Subset
<1>7. Threshold \in Nat \ {0}
  <2>1. TestNo \div 2 \in Nat /\ TestNo \div 2 > 1
    BY <1>1
  <2> QED BY <2>1 DEF Threshold
<1>8. IsFiniteSet(lost) /\ Cardinality(lost) \in Nat
  BY <1>5, FS_Subset, FS_CardinalityType
<1>9. IsFiniteSet(shifted) /\ Cardinality(shifted) <= Cardinality(lost) /\ Cardinality(shifted) \in Nat
  <2> DEFINE f == [i \in shifted |-> i - 1]
  <2>1. shifted \subseteq Int
    BY <1>1
  <2>2. f \in Injection(shifted, lost)
    BY <2>1 DEF Injection, IsInjective
  <2> HIDE DEF f, shifted
  <2>3. IsFiniteSet(shifted) /\ Cardinality(shifted) <= Cardinality(lost)
    BY <1>8, <2>2, FS_Injection
  <2> QED BY <2>3, FS_CardinalityType
<1> HIDE DEF shifted
<1>10. IsFiniteSet(others) /\ Cardinality(others) <= 1 + 2 * Cardinality(lost) /\ Cardinality(others) \in Nat
  <2> DEFINE both == lost \cup shifted
  <2>1. IsFiniteSet(both) /\ Cardinality(both) = Cardinality(lost) + Cardinality(shifted) - Cardinality(lost \cap shifted)
    BY <1>8, <1>9, FS_Union
  <2>2. IsFiniteSet(lost \cap shifted) /\ Cardinality(lost \cap shifted) \in Nat
    BY <1>8, FS_Intersection, FS_CardinalityType
  <2> HIDE DEF both
  <2>3. IsFiniteSet({1}) /\ Cardinality({1}) = 1
    BY FS_Singleton
  <2>4. /\ IsFiniteSet({1} \cup both)
        /\ Cardinality({1} \cup both) = Cardinality({1}) + Cardinality(both) - Cardinality({1} \cap both)
    BY <2>1, <2>3, FS_Union
  <2>5. IsFiniteSet({1} \cap both) /\ Cardinality({1} \cap both) \in Nat /\ Cardinality(both) \in Nat
    BY <2>1, <2>3, FS_Intersection, FS_CardinalityType
  <2>6. Cardinality({1} \cup both) <= 1 + 2 * Cardinality(lost) /\ Cardinality({1} \cup both) \in Nat
    BY <1>8, <1>9, <2>1, <2>2, <2>3, <2>4, <2>5, FS_CardinalityType
  <2> QED BY <2>4, <2>6 DEF both
<1>11. cs = Test \ others
  BY <1>3 DEF shifted
<1>12. ASSUME Enough(rs) PROVE Cardinality(cs) >= Threshold
  <2>1. {i \in Test : rs[i] = NoAnswer} = lost
    OBVIOUS
  <2>2. TestNo - 1 - 2 * Cardinality(lost) >= Threshold
    BY <1>12, <2>1 DEF Enough
  <2> HIDE DEF others, cs
  <2>3. Cardinality(cs) = Cardinality(Test) - Cardinality(Test \cap others)
    BY <1>5, <1>11, FS_Difference
  <2>4. Cardinality(Test \cap others) <= Cardinality(others) /\ Cardinality(Test \cap others) \in Nat
    <3>1. Test \cap others \subseteq others
      OBVIOUS
    <3> QED BY <1>10, <3>1, FS_Subset, FS_CardinalityType
  <2>5. Cardinality(Test) = TestNo
    BY <1>5
  <2> QED BY <1>1, <1>7, <1>8, <1>10, <2>2, <2>3, <2>4, <2>5
<1> QED BY <1>3, <1>4, <1>6, <1>7, <1>12

-----------------------------------------------------------------------------
(* The distances that the rules make. *)

LEMMA StepDist ==
  ASSUME NEW n \in Nat, NEW v \in Nat, 2 * v <= LastPort
  PROVE  /\ (n % LastPort) + 1 \in Port /\ ((n + v) % LastPort) + 1 \in Port
         /\ FieldDist(((n + v) % LastPort) + 1, (n % LastPort) + 1) = v
<1> DEFINE x == (n % LastPort) + 1
           y == ((n + v) % LastPort) + 1
<1>1. LastPort \in Nat \ {0} /\ v \in 0 .. LastPort - 1
  BY LastPortIs
<1>2. /\ n % LastPort \in 0 .. LastPort - 1
      /\ (n + v) % LastPort = IF (n % LastPort) + v < LastPort THEN (n % LastPort) + v
                              ELSE (n % LastPort) + v - LastPort
  BY <1>1, NextMod
<1>3. x \in Port /\ y \in Port /\ (y - x = v \/ x - y = LastPort - v)
  <2> DEFINE a == n % LastPort
             b == (n + v) % LastPort
  <2>1. a \in 0 .. LastPort - 1 /\ b = IF a + v < LastPort THEN a + v ELSE a + v - LastPort
    BY <1>2
  <2>2. x = a + 1 /\ y = b + 1
    OBVIOUS
  <2> HIDE DEF a, b, x, y
  <2> QED BY <1>1, <2>1, <2>2 DEF Port
<1> HIDE DEF x, y
<1>4. CASE y - x = v
  <2>1. FieldDist(y, x) = IF 2 * v <= LastPort THEN v ELSE LastPort - v
    BY <1>3, <1>4, FieldDistIs
  <2> QED BY <1>3, <2>1 DEF x, y
<1>5. CASE x - y = LastPort - v
  <2> DEFINE d == LastPort - v
  <2>1. d \in Nat /\ d = x - y
    BY <1>1, <1>5
  <2> HIDE DEF d
  <2>2. FieldDist(y, x) = IF 2 * d <= LastPort THEN d ELSE LastPort - d
    BY <1>3, <2>1, FieldDistIs
  <2>3. (IF 2 * d <= LastPort THEN d ELSE LastPort - d) = v
    BY <1>1 DEF d
  <2> QED BY <1>3, <2>2, <2>3 DEF x, y
<1> QED BY <1>3, <1>4, <1>5

LEMMA WrapOf ==
  ASSUME NEW p, NEW n, p - 1 = n
  PROVE  Wrap(p) = (n % LastPort) + 1
BY Zenon DEF Wrap

LEMMA WrapIs ==
  ASSUME NEW a \in Port, NEW v \in 1 .. LastPort - 1
  PROVE  /\ Wrap(a + v) = IF a + v <= LastPort THEN a + v ELSE a + v - LastPort
         /\ Wrap(a + v) \in Port /\ Wrap(a + v) # a
<1> DEFINE n == a - 1
<1>1. LastPort \in Nat \ {0} /\ n \in Nat /\ n < LastPort /\ v \in 0 .. LastPort - 1
  BY LastPortIs DEF Port
<1>2. (a + v) - 1 = n + v
  BY <1>1 DEF Port
<1> HIDE DEF n
<1>3. (n + v) % LastPort = IF n + v < LastPort THEN n + v ELSE n + v - LastPort
  <2>1. n % LastPort = n
    BY <1>1
  <2> QED BY <1>1, <2>1, NextMod
<1>4. Wrap(a + v) = ((n + v) % LastPort) + 1
  <2> DEFINE p == a + v
             k == n + v
  <2>1. p - 1 = k
    BY <1>2
  <2> HIDE DEF p, k
  <2>2. Wrap(p) = (k % LastPort) + 1
    BY <2>1, WrapOf
  <2> QED BY <2>2 DEF p, k
<1> QED BY <1>1, <1>3, <1>4 DEF n, Port

LEMMA SameDistance ==
  ASSUME NEW a \in Port, NEW b \in Port, NEW v \in 1 .. LastPort - 1
  PROVE  FieldDist(Wrap(a + v), Wrap(b + v)) = FieldDist(a, b)
<1> DEFINE x == Wrap(a + v)
           y == Wrap(b + v)
           d == IF a < b THEN b - a ELSE a - b
           e == IF x < y THEN y - x ELSE x - y
<1>1. LastPort \in Nat /\ a \in 1 .. LastPort /\ b \in 1 .. LastPort
  BY LastPortIs DEF Port
<1>2. /\ x = IF a + v <= LastPort THEN a + v ELSE a + v - LastPort
      /\ y = IF b + v <= LastPort THEN b + v ELSE b + v - LastPort
      /\ x \in Port /\ y \in Port
  BY WrapIs
<1> HIDE DEF x, y
<1>3. x \in 1 .. LastPort /\ y \in 1 .. LastPort
  BY <1>2 DEF Port
<1>4. d \in 0 .. LastPort /\ e \in 0 .. LastPort /\ (e = d \/ e = LastPort - d)
  BY <1>1, <1>2, <1>3
<1>5. (d = a - b \/ d = b - a) /\ (e = x - y \/ e = y - x)
  BY <1>1, <1>3
<1> HIDE DEF d, e
<1>6. d \in Nat /\ e \in Nat
  BY <1>4
<1>7. FieldDist(a, b) = IF 2 * d <= LastPort THEN d ELSE LastPort - d
  BY <1>5, <1>6, FieldDistIs
<1>8. FieldDist(x, y) = IF 2 * e <= LastPort THEN e ELSE LastPort - e
  BY <1>2, <1>5, <1>6, FieldDistIs
<1>9. (IF 2 * d <= LastPort THEN d ELSE LastPort - d) = (IF 2 * e <= LastPort THEN e ELSE LastPort - e)
  BY <1>1, <1>4
<1> QED BY <1>7, <1>8, <1>9 DEF x, y

\* If all that are compared have one distance, it is the one that is found.
LEMMA OneDistance ==
  ASSUME NEW rs, NEW is \in SUBSET Test, Cardinality(is) >= Threshold, is # {}, NEW v,
         \A i \in is : MappedDist(rs, i) = v
  PROVE  Frequent(rs, is) = {v} /\ FirstOf(rs, is) = v
<1>1. \A j \in is : {k \in is : MappedDist(rs, k) = MappedDist(rs, j)} = is
  OBVIOUS
<1>2. {j \in is : Cardinality({k \in is : MappedDist(rs, k) = MappedDist(rs, j)}) >= Threshold} = is
  BY <1>1
<1>3. Frequent(rs, is) = {MappedDist(rs, i) : i \in is}
  BY <1>2 DEF Frequent
<1>4. Frequent(rs, is) = {v}
  BY <1>3
<1>5. {i \in is : MappedDist(rs, i) \in Frequent(rs, is)} = is
  BY <1>4
<1>6. Min(is) \in is
  <2>1. is \subseteq Nat
    BY LastPortIs DEF Test
  <2>2. \E k \in is : \A j \in is : k <= j
    BY <2>1, Least
  <2> QED BY <2>2 DEF Min
<1>7. FirstOf(rs, is) = MappedDist(rs, Min(is))
  BY <1>5 DEF FirstOf
<1> QED BY <1>4, <1>6, <1>7

LEMMA EnoughIsNotNone ==
  ASSUME NEW is, IsFiniteSet(is), Cardinality(is) >= Threshold, Threshold \in Nat \ {0}
  PROVE  is # {}
BY FS_EmptySet

LEMMA Empty == Cardinality({}) = 0 /\ ~(0 >= Threshold)
<1>1. Threshold \in Nat \ {0}
  <2>1. TestNo \div 2 \in Nat /\ TestNo \div 2 > 1
    BY LastPortIs
  <2> QED BY <2>1 DEF Threshold
<1> QED BY <1>1, FS_EmptySet

-----------------------------------------------------------------------------
(* The verdict of a round is the rule. *)

FirstOfRule(r, rs) == \E local \in [Test -> Port], lost \in SUBSET Test : rs = Answers(r, local, lost)

LEMMA EqualFound ==
  ASSUME NEW r \in Rule, r.delta = "equal", NEW rs, FirstOfRule(r, rs), Enough(rs)
  PROVE  FirstVerdict(rs) = DeltaInfo(r.delta, r.value)
<1>1. PICK local \in [Test -> Port] : \E lost \in SUBSET Test : rs = Answers(r, local, lost)
  BY DEF FirstOfRule
<1>2. PICK lost \in SUBSET Test : rs = Answers(r, local, lost)
  BY <1>1
<1>3. \A i \in Test : /\ rs[i] = NoAnswer <=> i \in lost
                      /\ i \notin lost => Pair(rs, i).local = local[i] /\ Pair(rs, i).mapped = local[i]
  BY <1>2, AnswersAre DEF MappedBy
<1>4. /\ Compared(rs) \subseteq Counted(rs) /\ Counted(rs) \subseteq Test \ lost
      /\ IsFiniteSet(Counted(rs)) /\ Cardinality(Compared(rs)) >= Threshold /\ Threshold \in Nat
  BY <1>3, ComparedAre
<1>5. Equal(rs) = Counted(rs)
  BY <1>3, <1>4 DEF Equal
<1>6. Cardinality(Equal(rs)) >= Threshold
  <2>1. IsFiniteSet(Compared(rs)) /\ Cardinality(Compared(rs)) <= Cardinality(Counted(rs))
    BY <1>4, FS_Subset
  <2>2. Cardinality(Compared(rs)) \in Nat /\ Cardinality(Counted(rs)) \in Nat
    BY <1>4, <2>1, FS_CardinalityType
  <2> QED BY <1>4, <1>5, <2>1, <2>2
<1>7. r.value = 0
  BY DeltaTestAssumption DEF DeltaTestAssumption
<1> QED BY <1>6, <1>7 DEF FirstVerdict

LEMMA PreservFound ==
  ASSUME NEW r \in Rule, r.delta = "preserv", NEW rs, FirstOfRule(r, rs), Enough(rs),
         Cardinality({MappedDist(rs, i) : i \in Preserving(rs)}) # 1
  PROVE  FirstVerdict(rs) = DeltaInfo(r.delta, 0)
<1>1. PICK local \in [Test -> Port] : \E lost \in SUBSET Test : rs = Answers(r, local, lost)
  BY DEF FirstOfRule
<1>2. PICK lost \in SUBSET Test : rs = Answers(r, local, lost)
  BY <1>1
<1>3. \A i \in Test : /\ rs[i] = NoAnswer <=> i \in lost
                      /\ i \notin lost => Pair(rs, i).local = local[i]
                                          /\ Pair(rs, i).mapped = Wrap(local[i] + r.value)
  BY <1>2, AnswersAre DEF MappedBy
<1>4. r.value \in 1 .. LastPort - 1
  BY DeltaTestAssumption DEF DeltaTestAssumption
<1>5. /\ Compared(rs) = {i \in Test : i # 1 /\ i \notin lost /\ i - 1 \notin lost}
      /\ Compared(rs) \subseteq Counted(rs) /\ Counted(rs) \subseteq Test \ lost
      /\ IsFiniteSet(Compared(rs)) /\ Cardinality(Compared(rs)) >= Threshold
      /\ Threshold \in Nat \ {0}
  BY <1>3, ComparedAre
<1>6. Equal(rs) = {}
  <2> SUFFICES ASSUME NEW i \in Counted(rs), Pair(rs, i).local = Pair(rs, i).mapped PROVE FALSE
    BY DEF Equal
  <2>1. i \in Test /\ local[i] \in Port /\ local[i] = Wrap(local[i] + r.value)
    BY <1>3, <1>5
  <2> QED BY <1>4, <2>1, WrapIs
<1>7. ASSUME NEW i \in Compared(rs)
      PROVE  MappedDist(rs, i) = LocalDist(rs, i) /\ MappedDist(rs, i) \in 0 .. LastPort
  <2>1. i \in Test /\ i - 1 \in Test /\ i \notin lost /\ i - 1 \notin lost
    BY <1>5, LastPortIs DEF Test
  <2>2. local[i] \in Port /\ local[i - 1] \in Port
    BY <2>1
  <2>3. /\ LocalDist(rs, i) = FieldDist(local[i], local[i - 1])
        /\ MappedDist(rs, i) = FieldDist(Wrap(local[i] + r.value), Wrap(local[i - 1] + r.value))
    BY <1>3, <2>1 DEF LocalDist, MappedDist
  <2> DEFINE a == local[i]
             b == local[i - 1]
             d == IF a < b THEN b - a ELSE a - b
  <2>4. MappedDist(rs, i) = LocalDist(rs, i)
    BY <1>4, <2>2, <2>3, SameDistance
  <2>5. d \in Nat /\ (d = a - b \/ d = b - a)
    BY <2>2, LastPortIs DEF Port
  <2> HIDE DEF a, b, d
  <2>6. a \in Port /\ b \in Port
    BY <2>2 DEF a, b
  <2>7. FieldDist(a, b) \in 0 .. LastPort
    BY <2>5, <2>6, FieldDistIs
  <2> QED BY <2>3, <2>4, <2>7 DEF a, b
<1>8. Preserving(rs) = Compared(rs)
  BY <1>6, <1>7 DEF Preserving, SameDist
<1> DEFINE ds == {MappedDist(rs, i) : i \in Preserving(rs)}
<1>9. ds # {} /\ ds \subseteq 0 .. LastPort
  <2>1. Compared(rs) # {}
    BY <1>5, EnoughIsNotNone
  <2> QED BY <1>7, <1>8, <2>1
<1> HIDE DEF ds
<1>10. Cardinality(ds) > 1
  <2>1. IsFiniteSet(0 .. LastPort)
    <3>1. 0 \in Int /\ LastPort \in Int
      BY LastPortIs
    <3> QED BY <3>1, FS_Interval
  <2>2. IsFiniteSet(ds) /\ Cardinality(ds) \in Nat
    BY <1>9, <2>1, FS_Subset, FS_CardinalityType
  <2>3. Cardinality(ds) # 0
    BY <1>9, <2>2, FS_EmptySet
  <2>4. Cardinality(ds) # 1
    BY DEF ds
  <2> QED BY <2>2, <2>3, <2>4
<1>11. PreservSeen(rs)
  BY <1>5, <1>8, <1>10 DEF PreservSeen, ds
<1>12. ~(Cardinality(Equal(rs)) >= Threshold)
  BY <1>6, Empty
<1> QED BY <1>11, <1>12 DEF FirstVerdict

LEMMA IndependentFound ==
  ASSUME NEW r \in Rule, r.delta = "independent", NEW rs, FirstOfRule(r, rs), Enough(rs),
         Equal(rs) = {}, SameDist(rs) = {}, LocalNo(rs) = {}
  PROVE  FirstVerdict(rs) = DeltaInfo(r.delta, r.value)
<1>1. PICK local \in [Test -> Port] : \E lost \in SUBSET Test : rs = Answers(r, local, lost)
  BY DEF FirstOfRule
<1>2. PICK lost \in SUBSET Test : rs = Answers(r, local, lost)
  BY <1>1
<1> DEFINE v == r.value
<1>3. \A i \in Test : /\ rs[i] = NoAnswer <=> i \in lost
                      /\ i \notin lost => Pair(rs, i).mapped = Wrap(1 + i * v)
  BY <1>2, AnswersAre DEF MappedBy
<1>4. v \in Nat /\ 2 * v <= LastPort
  BY DeltaTestAssumption DEF DeltaTestAssumption
<1> HIDE DEF v
<1>5. /\ Compared(rs) = {i \in Test : i # 1 /\ i \notin lost /\ i - 1 \notin lost}
      /\ IsFiniteSet(Compared(rs)) /\ Cardinality(Compared(rs)) >= Threshold
      /\ Threshold \in Nat \ {0}
  BY <1>3, ComparedAre
<1>6. ASSUME NEW i \in Compared(rs) PROVE MappedDist(rs, i) = v
  <2> DEFINE n == (i - 1) * v
  <2>1. i \in Test /\ i - 1 \in Test /\ i \notin lost /\ i - 1 \notin lost /\ i \in Nat /\ i - 1 \in Nat
    BY <1>5, LastPortIs DEF Test
  <2>2. n \in Nat /\ (1 + (i - 1) * v) - 1 = n /\ (1 + i * v) - 1 = n + v
    <3>1. i * v = (i - 1) * v + v /\ (i - 1) * v \in Nat /\ i * v \in Nat
      BY <1>4, <2>1
    <3> QED BY <1>4, <3>1
  <2>3. MappedDist(rs, i) = FieldDist(Wrap(1 + i * v), Wrap(1 + (i - 1) * v))
    BY <1>3, <2>1 DEF MappedDist
  <2>4. Wrap(1 + i * v) = ((n + v) % LastPort) + 1 /\ Wrap(1 + (i - 1) * v) = (n % LastPort) + 1
    <3> DEFINE p == 1 + i * v
               q == 1 + (i - 1) * v
               k == n + v
    <3>1. p - 1 = k /\ q - 1 = n
      BY <2>2
    <3> HIDE DEF p, q, k, n
    <3>2. Wrap(p) = (k % LastPort) + 1 /\ Wrap(q) = (n % LastPort) + 1
      BY <3>1, WrapOf
    <3> QED BY <3>2 DEF p, q, k
  <2> HIDE DEF n
  <2> QED BY <1>4, <2>2, <2>3, <2>4, StepDist
<1>7. DistNo(rs) = Compared(rs)
  <2>1. Compared(rs) \ SameDist(rs) = Compared(rs)
    OBVIOUS
  <2>2. \A i \in Compared(rs) : LocalDist(rs, i) # 1
    BY <2>1 DEF LocalNo
  <2> QED BY <2>1, <2>2 DEF DistNo
<1>8. DistNo(rs) # {} /\ DistNo(rs) \in SUBSET Test
  BY <1>5, <1>7, EnoughIsNotNone
<1>9. Frequent(rs, DistNo(rs)) = {v} /\ FirstOf(rs, DistNo(rs)) = v
  BY <1>5, <1>6, <1>7, <1>8, OneDistance
<1>10. ~(Cardinality(Equal(rs)) >= Threshold)
  BY Empty
<1>11. ~PreservSeen(rs)
  <2>1. Preserving(rs) = {}
    BY DEF Preserving
  <2> QED BY <2>1, Empty DEF PreservSeen
<1>12. Frequent(rs, DistNo(rs)) # {}
  BY <1>9
<1> QED BY <1>9, <1>10, <1>11, <1>12 DEF FirstVerdict, v

\* The verdict of the second round.
SecondVerdict(rs) ==
  IF Frequent(rs, LocalNo(rs)) # {} THEN DeltaInfo("dependent", FirstOf(rs, LocalNo(rs)))
  ELSE DeltaInfo("random", 0)

Successive == [i \in Test |-> Start + i - 1]
SecondOfRule(r, rs) == \E lost \in SUBSET Test : rs = Answers(r, Successive, lost)

LEMMA DependentFound ==
  ASSUME NEW r \in Rule, r.delta = "dependent", NEW rs, SecondOfRule(r, rs), Enough(rs)
  PROVE  SecondVerdict(rs) = DeltaInfo(r.delta, r.value)
<1>1. PICK lost \in SUBSET Test : rs = Answers(r, Successive, lost)
  BY DEF SecondOfRule
<1> DEFINE v == r.value
<1>2. /\ Successive \in [Test -> Port] /\ 1 \in Test
      /\ \A i \in Test : i \in Nat /\ Successive[i] = Start + i - 1 /\ Start \in Nat
  <2>1. Start \in 1 .. LastPort - TestNo
    BY DeltaTestAssumption DEF DeltaTestAssumption
  <2> QED BY <2>1, LastPortIs DEF Successive, Test, Port
<1>3. \A i \in Test : /\ rs[i] = NoAnswer <=> i \in lost
                      /\ i \notin lost => /\ Pair(rs, i).local = Successive[i]
                                          /\ Pair(rs, i).mapped = MappedBy(r, Successive, i)
  BY <1>1, <1>2, AnswersAre
<1>4. \A i \in Test : MappedBy(r, Successive, i) = Wrap((Successive[i] - Successive[1]) * v + 1)
  BY DEF MappedBy
<1>5. v \in Nat /\ 2 * v <= LastPort /\ v # 1
  BY DeltaTestAssumption DEF DeltaTestAssumption
<1> HIDE DEF v
<1>6. /\ Compared(rs) = {i \in Test : i # 1 /\ i \notin lost /\ i - 1 \notin lost}
      /\ IsFiniteSet(Compared(rs)) /\ Cardinality(Compared(rs)) >= Threshold
      /\ Threshold \in Nat \ {0}
  BY <1>3, ComparedAre
<1>7. ASSUME NEW i \in Compared(rs) PROVE MappedDist(rs, i) = v /\ LocalDist(rs, i) = 1
  <2>1. i \in Test /\ i - 1 \in Test /\ i \notin lost /\ i - 1 \notin lost
        /\ i \in Nat /\ i - 1 \in Nat /\ i - 2 \in Nat
    BY <1>6, LastPortIs DEF Test
  <2> DEFINE n == (i - 2) * v
  <2>2. Successive[i] - Successive[1] = i - 1 /\ Successive[i - 1] - Successive[1] = i - 2
    BY <1>2, <2>1
  <2>3. n \in Nat /\ ((i - 2) * v + 1) - 1 = n /\ ((i - 1) * v + 1) - 1 = n + v
    <3>1. (i - 1) * v = (i - 2) * v + v /\ (i - 2) * v \in Nat
      BY <1>5, <2>1
    <3> QED BY <1>5, <3>1
  <2>4. MappedDist(rs, i) = FieldDist(Wrap((i - 1) * v + 1), Wrap((i - 2) * v + 1))
    BY <1>3, <1>4, <2>1, <2>2 DEF MappedDist
  <2>5. Wrap((i - 1) * v + 1) = ((n + v) % LastPort) + 1 /\ Wrap((i - 2) * v + 1) = (n % LastPort) + 1
    <3> DEFINE p == (i - 1) * v + 1
               q == (i - 2) * v + 1
               k == n + v
    <3>1. p - 1 = k /\ q - 1 = n
      BY <2>3
    <3> HIDE DEF p, q, k, n
    <3>2. Wrap(p) = (k % LastPort) + 1 /\ Wrap(q) = (n % LastPort) + 1
      BY <3>1, WrapOf
    <3> QED BY <3>2 DEF p, q, k
  <2> HIDE DEF n
  <2>6. MappedDist(rs, i) = v
    BY <1>5, <2>3, <2>4, <2>5, StepDist
  <2>7. LocalDist(rs, i) = FieldDist(Successive[i], Successive[i - 1])
    BY <1>3, <2>1 DEF LocalDist
  <2>8. 1 = Successive[i] - Successive[i - 1] /\ Successive[i] \in Port /\ Successive[i - 1] \in Port
    BY <1>2, <2>1
  <2>9. FieldDist(Successive[i], Successive[i - 1]) = IF 2 * 1 <= LastPort THEN 1 ELSE LastPort - 1
    BY <2>8, FieldDistIs
  <2> QED BY <2>6, <2>7, <2>9, LastPortIs
<1>8. LocalNo(rs) = Compared(rs)
  BY <1>5, <1>7 DEF LocalNo, SameDist
<1>9. LocalNo(rs) # {} /\ LocalNo(rs) \in SUBSET Test
  BY <1>6, <1>8, EnoughIsNotNone
<1>10. Frequent(rs, LocalNo(rs)) = {v} /\ FirstOf(rs, LocalNo(rs)) = v
  BY <1>6, <1>7, <1>8, <1>9, OneDistance
<1>11. Frequent(rs, LocalNo(rs)) # {}
  BY <1>10
<1> QED BY <1>10, <1>11 DEF SecondVerdict, v
-----------------------------------------------------------------------------
(* The rounds. *)

\* What the rounds know: the answers of the first are the rule's, those of the
\* second are asked for only if the first gave no verdict, and the verdict is
\* of the round that ended.
Second == /\ FirstVerdict(results[1]) = <<>>
          /\ 2 \in DOMAIN results /\ SecondOfRule(rule, results[2])

DeltaInv ==
  /\ rule \in Rule /\ round \in 1 .. 3
  /\ 1 \in DOMAIN results /\ FirstOfRule(rule, results[1])
  /\ round = 1 => \E rs : results = <<rs>>
  /\ round = 2 => Second
  /\ round = 3 => \/ delta = FirstVerdict(results[1]) /\ delta # <<>>
                  \/ Second /\ delta = SecondVerdict(results[2])

LEMMA DeltaInitHolds == DeltaInit => DeltaInv
<1> SUFFICES ASSUME DeltaInit PROVE DeltaInv
  OBVIOUS
<1>1. rule \in Rule /\ round = 1
  BY DEF DeltaInit
<1>2. PICK local \in [Test -> Local] : \E lost \in Losses : results = <<Answers(rule, local, lost)>>
  BY DEF DeltaInit
<1>3. PICK lost \in Losses : results = <<Answers(rule, local, lost)>>
  BY <1>2
<1>4. results[1] = Answers(rule, local, lost) /\ 1 \in DOMAIN results /\ \E rs : results = <<rs>>
  BY <1>3
<1>5. local \in [Test -> Port] /\ lost \in SUBSET Test
  BY DeltaTestAssumption DEF DeltaTestAssumption, Port, Losses
<1>6. FirstOfRule(rule, results[1])
  BY <1>4, <1>5 DEF FirstOfRule
<1> QED BY <1>1, <1>4, <1>6 DEF DeltaInv

LEMMA AppendToOne ==
  ASSUME NEW x, NEW y
  PROVE  /\ Append(<<x>>, y)[1] = x /\ Append(<<x>>, y)[2] = y
         /\ DOMAIN Append(<<x>>, y) = 1 .. 2
<1> DEFINE s == <<x>>
<1>1. s \in Seq({x, y}) /\ Len(s) = 1 /\ s[1] = x /\ y \in {x, y}
  OBVIOUS
<1> HIDE DEF s
<1>2. /\ Append(s, y) \in Seq({x, y}) /\ Len(Append(s, y)) = 2
      /\ Append(s, y)[1] = x /\ Append(s, y)[2] = y
  <2>1. /\ Append(s, y) \in Seq({x, y}) /\ Len(Append(s, y)) = Len(s) + 1
        /\ \A i \in 1 .. Len(s) : Append(s, y)[i] = s[i]
        /\ Append(s, y)[Len(s) + 1] = y
    BY <1>1, AppendProperties, ZenonT(40)
  <2>2. Len(s) + 1 = 2 /\ 1 \in 1 .. Len(s)
    BY <1>1
  <2> QED BY <1>1, <2>1, <2>2
<1>3. DOMAIN Append(s, y) = 1 .. 2
  BY <1>2
<1> QED BY <1>2, <1>3 DEF s

LEMMA FirstRoundKeeps == DeltaInv /\ FirstRound => DeltaInv'
<1> SUFFICES ASSUME DeltaInv, FirstRound PROVE DeltaInv'
  OBVIOUS
<1>1. round = 1 /\ rule \in Rule /\ rule' = rule /\ FirstOfRule(rule, results[1])
  BY DEF DeltaInv, FirstRound
<1>2. delta' = FirstVerdict(results[1])
  BY DEF FirstRound
<1>3. PICK rs : results = <<rs>>
  BY <1>1 DEF DeltaInv
<1>4. CASE delta' = <<>>
  <2>1. round' = 2
    BY <1>4 DEF FirstRound
  <2>2. PICK lost \in Losses :
          results' = Append(results, Answers(rule, [i \in Test |-> Start + i - 1], lost))
    BY <1>4 DEF FirstRound
  <2> DEFINE a == Answers(rule, [i \in Test |-> Start + i - 1], lost)
  <2>3. a = Answers(rule, Successive, lost) /\ lost \in SUBSET Test
    BY DEF Successive, Losses
  <2>4. results' = Append(results, a)
    BY <2>2
  <2> HIDE DEF a
  <2>5. results'[1] = rs /\ results'[2] = a /\ DOMAIN results' = 1 .. 2
    BY <1>3, <2>4, AppendToOne
  <2>6. /\ results'[1] = results[1] /\ results'[2] = a
        /\ 1 \in DOMAIN results' /\ 2 \in DOMAIN results'
    BY <1>3, <2>5
  <2>7. SecondOfRule(rule', results'[2])
    BY <1>1, <2>3, <2>6 DEF SecondOfRule
  <2>8. FirstVerdict(results[1])' = <<>>
    BY <1>2, <1>4, <2>6
  <2>9. FirstOfRule(rule, results[1])'
    BY <1>1, <2>6
  <2>10. Second'
    BY <2>6, <2>7, <2>8 DEF Second
  <2> QED BY <1>1, <2>1, <2>6, <2>9, <2>10 DEF DeltaInv
<1>5. CASE delta' # <<>>
  <2>1. round' = 3 /\ results' = results
    BY <1>5 DEF FirstRound
  <2>2. FirstVerdict(results[1])' = delta' /\ FirstOfRule(rule, results[1])' /\ 1 \in DOMAIN results'
    BY <1>1, <1>2, <2>1 DEF DeltaInv
  <2> QED BY <1>1, <1>5, <2>1, <2>2 DEF DeltaInv
<1> QED BY <1>4, <1>5

LEMMA SecondRoundKeeps == DeltaInv /\ SecondRound => DeltaInv'
<1> SUFFICES ASSUME DeltaInv, SecondRound PROVE DeltaInv'
  OBVIOUS
<1>1. round = 2 /\ round' = 3 /\ rule' = rule /\ results' = results
  BY DEF SecondRound
<1>2. delta' = SecondVerdict(results[2])
  BY DEF SecondRound, SecondVerdict
<1>3. Second
  BY <1>1 DEF DeltaInv
<1>4. Second' /\ SecondVerdict(results[2])' = SecondVerdict(results[2])
  BY <1>1, <1>3 DEF Second
<1>5. FirstOfRule(rule, results[1])' /\ 1 \in DOMAIN results' /\ rule' \in Rule
  BY <1>1 DEF DeltaInv
<1> QED BY <1>1, <1>2, <1>4, <1>5 DEF DeltaInv

\* The rounds only ever hold answers of the NAT's rule, and the verdict is
\* that of the round that ended them.
THEOREM DeltaInvHolds == DeltaSpec => []DeltaInv
<1>1. DeltaInv /\ UNCHANGED deltavars => DeltaInv'
  <2> SUFFICES ASSUME DeltaInv, UNCHANGED deltavars PROVE DeltaInv'
    OBVIOUS
  <2>1. rule' = rule /\ results' = results /\ round' = round /\ delta' = delta
    BY DEF deltavars
  <2> QED BY <2>1 DEF DeltaInv, Second
<1>2. DeltaInv /\ [DeltaNext]_deltavars => DeltaInv'
  BY <1>1, FirstRoundKeeps, SecondRoundKeeps DEF DeltaNext
<1> QED BY <1>2, DeltaInitHolds, PTL DEF DeltaSpec

LEMMA InvGivesDelta == DeltaInv => DeltaFound
<1> SUFFICES ASSUME DeltaInv, round = 3, ~Chance(results[1]), \A r \in DOMAIN results : Enough(results[r])
             PROVE  delta = DeltaInfo(rule.delta, rule.value * (IF rule.delta = "preserv" THEN 0 ELSE 1))
  BY DEF DeltaFound
<1> DEFINE rs == results[1]
           info == DeltaInfo(rule.delta, rule.value * (IF rule.delta = "preserv" THEN 0 ELSE 1))
<1>1. /\ rule \in Rule /\ FirstOfRule(rule, rs) /\ Enough(rs)
      /\ delta = FirstVerdict(rs) \/ (Second /\ delta = SecondVerdict(results[2]))
      /\ (delta = FirstVerdict(rs) => delta # <<>>)
  <2>1. (delta = FirstVerdict(rs) /\ delta # <<>>) \/ (Second /\ delta = SecondVerdict(results[2]))
    BY DEF DeltaInv
  <2>2. SecondVerdict(results[2]) # <<>>
    BY DEF SecondVerdict, DeltaInfo
  <2>3. rule \in Rule /\ FirstOfRule(rule, rs) /\ Enough(rs)
    BY DEF DeltaInv
  <2> QED BY <2>1, <2>2, <2>3
<1>2. Second => FirstVerdict(rs) = <<>> /\ SecondOfRule(rule, results[2]) /\ Enough(results[2])
  BY DEF Second
<1>3. ~Chance(rs)
  OBVIOUS
<1>4. rule.delta \in {"equal", "preserv", "independent", "dependent"} /\ rule.value \in Nat
  BY <1>1, DeltaTestAssumption DEF DeltaTestAssumption
<1>5. info = DeltaInfo(rule.delta, IF rule.delta = "preserv" THEN 0 ELSE rule.value)
  BY <1>4
<1> HIDE DEF rs, info
<1>6. CASE rule.delta = "equal"
  <2>1. FirstVerdict(rs) = DeltaInfo(rule.delta, rule.value)
    BY <1>1, <1>6, EqualFound
  <2>2. FirstVerdict(rs) # <<>>
    BY <2>1 DEF DeltaInfo
  <2> QED BY <1>1, <1>2, <1>5, <1>6, <2>1, <2>2 DEF info
<1>7. CASE rule.delta = "preserv"
  <2>1. Cardinality({MappedDist(rs, i) : i \in Preserving(rs)}) # 1
    BY <1>3, <1>7 DEF Chance
  <2>2. FirstVerdict(rs) = DeltaInfo(rule.delta, 0)
    BY <1>1, <1>7, <2>1, PreservFound
  <2>3. FirstVerdict(rs) # <<>>
    BY <2>2 DEF DeltaInfo
  <2> QED BY <1>1, <1>2, <1>5, <1>7, <2>2, <2>3 DEF info
<1>8. CASE rule.delta = "independent"
  <2>1. Equal(rs) = {} /\ SameDist(rs) = {} /\ LocalNo(rs) = {}
    BY <1>3, <1>8 DEF Chance
  <2>2. FirstVerdict(rs) = DeltaInfo(rule.delta, rule.value)
    BY <1>1, <1>8, <2>1, IndependentFound
  <2>3. FirstVerdict(rs) # <<>>
    BY <2>2 DEF DeltaInfo
  <2> QED BY <1>1, <1>2, <1>5, <1>8, <2>2, <2>3 DEF info
<1>9. CASE rule.delta = "dependent"
  <2>1. FirstVerdict(rs) = <<>>
    BY <1>3, <1>9 DEF Chance
  <2>2. Second /\ delta = SecondVerdict(results[2])
    BY <1>1, <2>1
  <2>3. SecondVerdict(results[2]) = DeltaInfo(rule.delta, rule.value)
    BY <1>1, <1>2, <1>9, <2>2, DependentFound
  <2> QED BY <1>5, <1>9, <2>2, <2>3 DEF info
<1> QED BY <1>4, <1>6, <1>7, <1>8, <1>9 DEF info

\* The verdict of delta_test is the rule of the NAT and its value, whatever
\* the rule, the number of tests, the random ports and the requests that get
\* no answer, if enough pairs are left and chance does not imitate a rule.
THEOREM DeltaFoundHolds == DeltaSpec => []DeltaFound
BY DeltaInvHolds, InvGivesDelta, PTL

-----------------------------------------------------------------------------
(***************************************************************************)
(* RoutePool, for routes of any sizes, and up to six of them where the     *)
(* search is concerned.                                                    *)
(***************************************************************************)
\* The hosts of the routes before route k, from 0.
Before(ns, k) == IF k = 0 THEN 0 ELSE LenList(ns)[k]

\* The fold of a list of numbers is the sum of its entries.
LEMMA FoldIsSum ==
  ASSUME NEW s, NEW n \in Nat, DOMAIN s = 1 .. n
  PROVE  FoldSeq(+, 0, s) = SumOn(s, 1 .. n)
BY DEF FoldSeq, FoldFunction, SumOn

\* len_list has the running totals.
LEMMA Totals ==
  ASSUME NEW ns \in Seq(Nat \ {0})
  PROVE  /\ Before(ns, 0) = 0 /\ WanHosts(ns) = Before(ns, Len(ns))
         /\ \A k \in 0 .. Len(ns) : Before(ns, k) \in Nat
         /\ \A k \in 0 .. Len(ns) - 1 : /\ Before(ns, k + 1) = Before(ns, k) + ns[k + 1]
                                       /\ Before(ns, k + 1) = LenList(ns)[k + 1]
                                       /\ ns[k + 1] \in Nat \ {0}
         /\ DOMAIN LenList(ns) = 1 .. Len(ns)
<1> DEFINE N == Len(ns)
<1>1. N \in Nat /\ DOMAIN ns = 1 .. N /\ \A k \in 1 .. N : ns[k] \in Nat \ {0}
  OBVIOUS
<1>2. ASSUME NEW k \in 0 .. N PROVE SumOn(ns, 1 .. k) \in Nat
  <2>1. IsFiniteSet(1 .. k)
    BY <1>1, FS_Interval
  <2>2. \A x \in 1 .. k : ns[x] \in Nat
    BY <1>1
  <2> QED BY <2>1, <2>2, SumBounds
<1>3. ASSUME NEW k \in 1 .. N PROVE LenList(ns)[k] = SumOn(ns, 1 .. k)
  <2> DEFINE s == SubSeq(ns, 1, k)
  <2>1. DOMAIN s = 1 .. k /\ \A i \in 1 .. k : s[i] = ns[i] /\ s[i] \in Int
    BY <1>1
  <2>2. LenList(ns)[k] = FoldSeq(+, 0, s)
    BY <1>1 DEF LenList
  <2> HIDE DEF s
  <2>3. FoldSeq(+, 0, s) = SumOn(s, 1 .. k)
    <3>1. k \in Nat
      BY <1>1
    <3> QED BY <2>1, <3>1, FoldIsSum
  <2>4. SumOn(s, 1 .. k) = SumOn(ns, 1 .. k)
    <3>1. IsFiniteSet(1 .. k)
      BY <1>1, FS_Interval
    <3> QED BY <2>1, <3>1, SumSame
  <2> QED BY <2>2, <2>3, <2>4
<1>4. WanHosts(ns) = SumOn(ns, 1 .. N)
  BY <1>1, FoldIsSum DEF WanHosts
<1>5. SumOn(ns, 1 .. 0) = 0
  <2>1. 1 .. 0 = {} /\ IsFiniteSet({})
    BY FS_EmptySet
  <2> QED BY <2>1, SumUnfolds
<1>6. ASSUME NEW k \in 0 .. N - 1 PROVE SumOn(ns, 1 .. k + 1) = ns[k + 1] + SumOn(ns, 1 .. k)
  <2>1. k + 1 \in 1 .. k + 1 /\ (1 .. k + 1) \ {k + 1} = 1 .. k
    BY <1>1
  <2>4. IsFiniteSet(1 .. k + 1)
    BY <1>1, FS_Interval
  <2>2. \A x \in 1 .. k + 1 : ns[x] \in Int
    BY <1>1
  <2>3. SumOn(ns, 1 .. k + 1) = ns[k + 1] + SumOn(ns, (1 .. k + 1) \ {k + 1})
    <3> DEFINE S == 1 .. k + 1
    <3>1. IsFiniteSet(S) /\ (\A x \in S : ns[x] \in Int) /\ k + 1 \in S
      BY <2>1, <2>2, <2>4
    <3> HIDE DEF S
    <3>2. SumOn(ns, S) = ns[k + 1] + SumOn(ns, S \ {k + 1})
      BY <3>1, SumTakes
    <3> QED BY <3>2 DEF S
  <2> QED BY <2>1, <2>3
<1>7. \A k \in 0 .. N : Before(ns, k) = SumOn(ns, 1 .. k)
  <2> SUFFICES ASSUME NEW k \in 0 .. N PROVE Before(ns, k) = SumOn(ns, 1 .. k)
    OBVIOUS
  <2>1. CASE k = 0
    BY <1>5, <2>1 DEF Before
  <2>2. CASE k # 0
    BY <1>3, <2>2 DEF Before
  <2> QED BY <2>1, <2>2
<1>8. ASSUME NEW k \in 0 .. N - 1
      PROVE  /\ Before(ns, k + 1) = Before(ns, k) + ns[k + 1]
             /\ Before(ns, k + 1) = LenList(ns)[k + 1] /\ ns[k + 1] \in Nat \ {0}
  <2>1. k \in 0 .. N /\ k + 1 \in 0 .. N /\ k + 1 \in 1 .. N /\ k + 1 # 0
    BY <1>1
  <2>2. Before(ns, k + 1) = LenList(ns)[k + 1] /\ ns[k + 1] \in Nat \ {0}
    BY <1>1, <2>1 DEF Before
  <2>3. Before(ns, k + 1) = ns[k + 1] + Before(ns, k) /\ Before(ns, k) \in Nat
    BY <1>2, <1>6, <1>7, <2>1
  <2> QED BY <2>2, <2>3
<1>9. DOMAIN LenList(ns) = 1 .. N
  BY <1>1 DEF LenList
<1>10. WanHosts(ns) = Before(ns, N) /\ Before(ns, 0) = 0 /\ \A k \in 0 .. N : Before(ns, k) \in Nat
  BY <1>1, <1>2, <1>4, <1>5, <1>7
<1> QED BY <1>8, <1>9, <1>10

\* Every route has a host, so the totals grow.
LEMMA BeforeGrows ==
  ASSUME NEW ns \in Seq(Nat \ {0}), NEW k \in 0 .. Len(ns)
  PROVE  \A j \in 0 .. Len(ns) : j < k => Before(ns, j) < Before(ns, k)
<1> DEFINE N == Len(ns)
           P == {n \in 0 .. N : \A j \in 0 .. N : j < n => Before(ns, j) < Before(ns, n)}
<1>1. N \in Nat
  OBVIOUS
<1>2. 0 \in P
  BY <1>1
<1>3. ASSUME NEW n \in P, n \in 0 .. N - 1 PROVE n + 1 \in P
  <2>1. /\ n + 1 \in 0 .. N /\ n \in 0 .. N
        /\ Before(ns, n + 1) = Before(ns, n) + ns[n + 1]
        /\ Before(ns, n) \in Nat /\ ns[n + 1] \in Nat \ {0}
    BY <1>1, <1>3, Totals
  <2>2. Before(ns, n) < Before(ns, n + 1) /\ Before(ns, n + 1) \in Nat
    BY <2>1
  <2>3. ASSUME NEW j \in 0 .. N, j < n + 1 PROVE Before(ns, j) < Before(ns, n + 1)
    <3>1. CASE j = n
      BY <2>2, <3>1
    <3>2. CASE j < n
      <4>1. Before(ns, j) < Before(ns, n)
        BY <3>2
      <4>2. Before(ns, j) \in Nat
        BY Totals
      <4> QED BY <2>1, <2>2, <4>1, <4>2
    <3> QED BY <2>1, <2>3, <3>1, <3>2
  <2> QED BY <2>1, <2>3
<1> HIDE DEF P
<1>4. k \in P
  BY <1>1, <1>2, <1>3, UpTo
<1> QED BY <1>4 DEF P

\* Route r, from 0, has the host m, from 0, of the pool.
HasHost(ns, r, m) == r \in 0 .. Len(ns) - 1 /\ Before(ns, r) <= m /\ m < Before(ns, r + 1)

\* Every host has a route.
LEMMA HostHasRoute ==
  ASSUME NEW ns \in Seq(Nat \ {0}), NEW m \in 0 .. WanHosts(ns) - 1
  PROVE  \E r : HasHost(ns, r, m)
<1> DEFINE N == Len(ns)
           P == {n \in 0 .. N : m < Before(ns, n) => \E r : HasHost(ns, r, m)}
<1>1. N \in Nat /\ Before(ns, 0) = 0 /\ WanHosts(ns) = Before(ns, N) /\ Before(ns, N) \in Nat
  BY Totals
<1>2. 0 \in P
  BY <1>1
<1>3. ASSUME NEW n \in P, n \in 0 .. N - 1 PROVE n + 1 \in P
  <2>1. n + 1 \in 0 .. N /\ n \in 0 .. N /\ Before(ns, n) \in Nat
    BY <1>1, <1>3, Totals
  <2>2. ASSUME m < Before(ns, n + 1) PROVE \E r : HasHost(ns, r, m)
    <3>1. CASE m < Before(ns, n)
      BY <3>1
    <3>2. CASE Before(ns, n) <= m
      BY <1>3, <2>2, <3>2 DEF HasHost
    <3> QED BY <1>1, <2>1, <3>1, <3>2
  <2> QED BY <2>1, <2>2
<1> HIDE DEF P
<1>5. N \in Nat
  OBVIOUS
<1>4. N \in P
  BY <1>5, <1>2, <1>3, UpTo
<1> QED BY <1>1, <1>4 DEF P

-----------------------------------------------------------------------------
\* Every host of every route is behind those of the routes before it.
LEMMA PoolHostsAre ==
  ASSUME NEW ns \in Seq(Nat \ {0})
  PROVE  /\ AllHosts(ns) \in Seq(Nat \X Nat) /\ Len(AllHosts(ns)) = WanHosts(ns)
         /\ \A r \in 0 .. Len(ns) - 1 : \A h \in 1 .. ns[r + 1] :
              AllHosts(ns)[Before(ns, r) + h] = <<r, h>>
<1> DEFINE N == Len(ns)
           X == Nat \X Nat
           rows == [k \in 1 .. N |-> [h \in 1 .. ns[k] |-> <<k - 1, h>>]]
           Joined(g, i) == IF i = 1 THEN rows[i] ELSE g[i - 1] \o rows[i]
           Is(g) == g = [i \in 1 .. Len(rows) |-> Joined(g, i)]
           flat == CHOOSE g : Is(g)
<1>1. N \in Nat /\ DOMAIN ns = 1 .. N /\ \A k \in 1 .. N : ns[k] \in Nat \ {0}
  OBVIOUS
<1>2. Len(rows) = N
  BY <1>1
<1>3. ASSUME NEW k \in 1 .. N
      PROVE  rows[k] \in Seq(X) /\ Len(rows[k]) = ns[k] /\ \A h \in 1 .. ns[k] : rows[k][h] = <<k - 1, h>>
  <2> DEFINE row == [h \in 1 .. ns[k] |-> <<k - 1, h>>]
  <2>1. rows[k] = row
    OBVIOUS
  <2>2. ns[k] \in Nat /\ k - 1 \in Nat
    BY <1>1
  <2>3. \A h \in 1 .. ns[k] : <<k - 1, h>> \in X
    BY <2>2
  <2>4. row \in Seq(X) /\ Len(row) = ns[k] /\ \A h \in 1 .. ns[k] : row[h] = <<k - 1, h>>
    <3>1. row \in [1 .. ns[k] -> X] /\ \A h \in 1 .. ns[k] : row[h] = <<k - 1, h>>
      <4> HIDE DEF X
      <4> QED BY <2>3
    <3> HIDE DEF row, X
    <3> QED BY <2>2, <3>1, FunctionIsSeq
  <2> QED BY <2>1, <2>4
<1>4. /\ Before(ns, 0) = 0 /\ WanHosts(ns) = Before(ns, N)
      /\ \A k \in 0 .. N : Before(ns, k) \in Nat
      /\ \A k \in 0 .. N - 1 : Before(ns, k + 1) = Before(ns, k) + ns[k + 1]
  BY Totals
<1>5. AllHosts(ns) = IF Len(rows) = 0 THEN rows ELSE flat[Len(rows)]
  BY DEF AllHosts, FlattenSeq
<1> HIDE DEF rows
<1>6. CASE N = 0
  <2>1. AllHosts(ns) = rows /\ rows = <<>>
    BY <1>2, <1>5, <1>6 DEF rows
  <2>2. <<>> \in Seq(X) /\ Len(<<>>) = 0
    OBVIOUS
  <2> QED BY <1>1, <1>4, <1>6, <2>1, <2>2
<1>7. CASE N # 0
  <2>1. \E g : Is(g)
    <3> DEFINE V == Seq(X)
               F == [i \in 1 .. N |-> [t \in V |-> t \o rows[i]]]
    <3>1. F \in [1 .. N -> [V -> V]]
      BY <1>3
    <3>2. \A i \in 1 .. N, t \in V : F[i][t] = t \o rows[i]
      OBVIOUS
    <3>3. <<>> \in V
      OBVIOUS
    <3> HIDE DEF V, F
    <3>9. PICK g : Follows(g, N, V, <<>>, F)
      <4> HIDE DEF N
      <4> QED BY <1>1, <3>1, <3>3, Recursion
    <3>4. g \in [0 .. N -> V] /\ g[0] = <<>> /\ \A i \in 1 .. N : g[i] = F[i][g[i - 1]]
      BY <3>9 DEF Follows
    <3> DEFINE f == [i \in 1 .. N |-> g[i]]
    <3>5. ASSUME NEW i \in 1 .. N PROVE g[i] = g[i - 1] \o rows[i]
      <4>1. i - 1 \in 0 .. N
        BY <1>1
      <4>2. g[i - 1] \in V /\ g[i] = F[i][g[i - 1]]
        BY <3>4, <4>1
      <4> QED BY <3>2, <4>2
    <3>6. g[1] = rows[1]
      <4>1. g[1] = <<>> \o rows[1] /\ rows[1] \in Seq(X)
        <5>1. 1 \in 1 .. N /\ 1 - 1 = 0
          BY <1>1, <1>7
        <5> QED BY <1>3, <3>4, <3>5, <5>1
      <4> QED BY <4>1
    <3>7. \A i \in 1 .. N : f[i] = Joined(f, i)
      <4> SUFFICES ASSUME NEW i \in 1 .. N PROVE f[i] = Joined(f, i)
        OBVIOUS
      <4>1. CASE i = 1
        BY <3>6, <4>1
      <4>2. CASE i # 1
        <5>1. i - 1 \in 1 .. N
          BY <1>1, <4>2
        <5> QED BY <3>5, <4>2, <5>1
      <4> QED BY <4>1, <4>2
    <3>8. Is(f)
      <4> HIDE DEF Joined
      <4> QED BY <1>2, <3>7
    <3> HIDE DEF Is, f
    <3> QED BY <3>8
  <2>2. Is(flat)
    <3> HIDE DEF Is
    <3> QED BY <2>1
  <2>3. \A i \in 1 .. N : flat[i] = Joined(flat, i)
    <3> HIDE DEF Joined, flat
    <3> QED BY <1>2, <2>2
  <2> HIDE DEF flat
  <2> DEFINE Good(i) == /\ flat[i] \in Seq(X) /\ Len(flat[i]) = Before(ns, i)
                        /\ \A r \in 0 .. i - 1 : \A h \in 1 .. ns[r + 1] :
                             flat[i][Before(ns, r) + h] = <<r, h>>
             P == {i \in 0 .. N : i # 0 => Good(i)}
  <2>4. 0 \in P
    BY <1>1
  <2>5. ASSUME NEW n \in P, n \in 0 .. N - 1 PROVE n + 1 \in P
    <3>1. /\ n \in Nat /\ n + 1 \in 1 .. N /\ n + 1 \in 0 .. N /\ n \in 0 .. N
          /\ (n + 1) - 1 = n
      BY <1>1, <2>5
    <3>2. /\ rows[n + 1] \in Seq(X) /\ Len(rows[n + 1]) = ns[n + 1] /\ ns[n + 1] \in Nat
          /\ \A h \in 1 .. ns[n + 1] : rows[n + 1][h] = <<n, h>>
      BY <1>1, <1>3, <3>1
    <3>3. Before(ns, n + 1) = Before(ns, n) + ns[n + 1] /\ Before(ns, n) \in Nat
      BY <1>4, <2>5, <3>1
    <3>4. CASE n = 0
      <4>1. flat[1] = rows[1]
        BY <2>3, <3>1, <3>4
      <4>2. \A r \in 0 .. 0 : r = 0
        OBVIOUS
      <4>3. Good(1)
        BY <1>4, <3>2, <3>3, <3>4, <4>1, <4>2
      <4> QED BY <3>1, <3>4, <4>3
    <3>5. CASE n # 0
      <4> DEFINE old == flat[n]
                 row == rows[n + 1]
                 new == old \o row
      <4>1. flat[n + 1] = new
        <5>1. n + 1 # 1
          BY <3>1, <3>5
        <5> QED BY <2>3, <3>1, <5>1
      <4>2. Good(n)
        BY <3>5
      <4>3. /\ new \in Seq(X) /\ Len(new) = Len(old) + Len(row)
            /\ \A i \in 1 .. Len(old) : new[i] = old[i]
            /\ \A i \in 1 .. Len(row) : new[Len(old) + i] = row[i]
        <5>1. old \in Seq(X) /\ row \in Seq(X)
          BY <3>2, <4>2
        <5> HIDE DEF old, row
        <5>2. Len(old) \in Nat /\ Len(row) \in Nat
          BY <5>1
        <5> QED BY <5>1, <5>2
      <4> HIDE DEF new
      <4>4. ASSUME NEW r \in 0 .. n, NEW h \in 1 .. ns[r + 1]
            PROVE  new[Before(ns, r) + h] = <<r, h>>
        <5>1. CASE r = n
          BY <3>2, <4>2, <4>3, <4>4, <5>1
        <5>2. CASE r # n
          <6>1. r \in 0 .. n - 1 /\ r \in 0 .. N /\ r + 1 \in 0 .. N /\ r \in 0 .. N - 1 /\ r + 1 \in 1 .. N
            BY <1>1, <2>5, <3>1, <5>2
          <6>2. Before(ns, r + 1) = Before(ns, r) + ns[r + 1] /\ Before(ns, r) \in Nat /\ ns[r + 1] \in Nat
            BY <1>1, <1>4, <6>1
          <6>3. Before(ns, r + 1) <= Before(ns, n) /\ Before(ns, r + 1) \in Nat
            <7>1. CASE r + 1 = n
              BY <3>3, <7>1
            <7>2. CASE r + 1 < n
              <8>1. Before(ns, r + 1) < Before(ns, n)
                BY <3>1, <6>1, <7>2, BeforeGrows
              <8>2. Before(ns, r + 1) \in Nat
                BY <1>4, <6>1
              <8> QED BY <3>3, <8>1, <8>2
            <7> QED BY <3>1, <6>1, <7>1, <7>2
          <6>4. Before(ns, r) + h \in 1 .. Len(old)
            <7>1. Len(old) = Before(ns, n)
              BY <4>2
            <7> HIDE DEF old
            <7> DEFINE a == Before(ns, r)
                       c == Before(ns, n)
                       size == ns[r + 1]
            <7>4. a \in Nat /\ size \in Nat /\ c \in Nat /\ a + size <= c
              BY <3>3, <6>2, <6>3
            <7>5. h \in Nat /\ 1 <= h /\ h <= size
              BY <6>2
            <7> HIDE DEF a, c, size
            <7>6. a + h \in 1 .. c
              BY <7>4, <7>5
            <7> QED BY <7>1, <7>6 DEF a, c
          <6>5. old[Before(ns, r) + h] = <<r, h>>
            BY <4>2, <4>4, <6>1
          <6> QED BY <4>3, <6>4, <6>5
        <5> QED BY <5>1, <5>2
      <4>5. Len(new) = Before(ns, n + 1)
        BY <3>2, <3>3, <4>2, <4>3
      <4>6. Good(n + 1)
        BY <3>1, <4>1, <4>3, <4>4, <4>5
      <4> HIDE DEF Good
      <4> QED BY <3>1, <4>6
    <3> QED BY <3>4, <3>5
  <2> HIDE DEF P
  <2>6. N \in P
    BY <1>1, <2>4, <2>5, UpTo
  <2>7. Good(N)
    BY <1>7, <2>6 DEF P
  <2>8. AllHosts(ns) = flat[N]
    BY <1>2, <1>5, <1>7
  <2> QED BY <1>4, <2>7, <2>8
<1> QED BY <1>6, <1>7

\* get_route_info finds a host in its route.
LEMMA RouteInfoIs ==
  ASSUME NEW ns \in Seq(Nat \ {0}), NEW m \in Nat, NEW r, HasHost(ns, r, m)
  PROVE  m < WanHosts(ns) /\ RouteInfo(ns, r, m) = AllHosts(ns)[m + 1]
<1> DEFINE N == Len(ns)
           b == Before(ns, r)
           size == ns[r + 1]
           rel == m - b
<1>1. r \in 0 .. N - 1 /\ N \in Nat /\ b <= m /\ m < Before(ns, r + 1)
  BY DEF HasHost
<1>2. /\ b \in Nat /\ size \in Nat \ {0} /\ Before(ns, r + 1) = b + size
      /\ Before(ns, r + 1) = LenList(ns)[r + 1] /\ WanHosts(ns) = Before(ns, N)
      /\ WanHosts(ns) \in Nat
  BY <1>1, Totals
<1>3. Before(ns, r + 1) <= WanHosts(ns)
  <2>1. CASE r + 1 = N
    BY <1>2, <2>1
  <2>2. CASE r + 1 < N
    <3>1. r + 1 \in 0 .. N /\ N \in 0 .. N
      BY <1>1
    <3>2. Before(ns, r + 1) < Before(ns, N)
      BY <2>2, <3>1, BeforeGrows
    <3> QED BY <1>2, <3>2
  <2> QED BY <1>1, <2>1, <2>2
<1> HIDE DEF b, size
<1>4. rel \in 0 .. size - 1 /\ rel \in Nat /\ m < WanHosts(ns) /\ rel + 1 <= WanHosts(ns)
  BY <1>1, <1>2, <1>3
<1>5. rel <= LenList(ns)[r + 1] - 1
  BY <1>1, <1>2
<1>6. RouteInfo(ns, r, m) = <<r, HostAt(size, rel % WanHosts(ns))>>
  <2>1. (IF r = 0 THEN 0 ELSE LenList(ns)[r]) = b
    BY DEF Before, b
  <2>2. RouteInfo(ns, r, m) = IF rel > LenList(ns)[r + 1] - 1 \/ rel + 1 > WanHosts(ns) THEN Raised
                              ELSE <<r, HostAt(size, rel % WanHosts(ns))>>
    BY <2>1 DEF RouteInfo, size
  <2>3. ~(rel > LenList(ns)[r + 1] - 1) /\ ~(rel + 1 > WanHosts(ns))
    <3>1. LenList(ns)[r + 1] \in Nat
      BY <1>2
    <3> HIDE DEF rel
    <3> QED BY <1>2, <1>4, <1>5, <3>1
  <2> QED BY <2>2, <2>3
<1> HIDE DEF rel
<1>7. rel % WanHosts(ns) = rel
  BY <1>2, <1>4, Remains
<1>8. HostAt(size, rel) = rel + 1
  <2>1. (rel + 1) % (size + 1) = rel + 1
    <3>1. rel + 1 \in Nat /\ size + 1 \in Nat \ {0} /\ rel + 1 \in 0 .. (size + 1) - 1
      BY <1>2, <1>4
    <3> QED BY <3>1, Remains
  <2> QED BY <1>2, <1>4, <2>1 DEF HostAt
<1>9. AllHosts(ns)[m + 1] = <<r, rel + 1>>
  <2>1. rel + 1 \in 1 .. size /\ b + (rel + 1) = m + 1
    BY <1>1, <1>2, <1>4 DEF rel
  <2>2. AllHosts(ns)[b + (rel + 1)] = <<r, rel + 1>>
    BY <1>1, <2>1, PoolHostsAre DEF b, size
  <2> QED BY <2>1, <2>2
<1> QED BY <1>4, <1>6, <1>7, <1>8, <1>9

-----------------------------------------------------------------------------
\* RoutePoolIter goes over the hosts of all routes, each once and in order, for
\* pools of any size.
LEMMA IteratedAre ==
  ASSUME NEW ns \in Seq(Nat \ {0})
  PROVE  Iterated(ns) = AllHosts(ns)
<1> DEFINE N == Len(ns)
           W == WanHosts(ns)
           Next1(r, n) == IF n >= LenList(ns)[r + 1] /\ r < N - 1 THEN r + 1 ELSE r
           RouteAt(g, n) == IF n = 0 THEN 0 ELSE Next1(g[n - 1], n)
           Is(g) == g = [n \in 0 .. W |-> RouteAt(g, n)]
           route == CHOOSE g : Is(g)
<1>1. N \in Nat /\ W \in Nat /\ W = Before(ns, N)
  BY Totals
<1>2. Iterated(ns) = [n \in 1 .. W |-> RouteInfo(ns, route[n - 1], n - 1)]
  BY DEF Iterated
<1>3. \E g : Is(g)
  <2> DEFINE F == [n \in 1 .. W |-> [r \in Nat |-> Next1(r, n)]]
  <2>1. F \in [1 .. W -> [Nat -> Nat]] /\ \A n \in 1 .. W : \A r \in Nat : F[n][r] = Next1(r, n)
    OBVIOUS
  <2> HIDE DEF F, Next1
  <2>2. PICK g : Follows(g, W, Nat, 0, F)
    <3> HIDE DEF W
    <3> QED BY <1>1, <2>1, Recursion
  <2>3. g \in [0 .. W -> Nat] /\ g[0] = 0 /\ \A n \in 1 .. W : g[n] = F[n][g[n - 1]]
    BY <2>2 DEF Follows
  <2>4. ASSUME NEW n \in 0 .. W PROVE g[n] = RouteAt(g, n)
    <3>1. CASE n = 0
      BY <2>3, <3>1
    <3>2. CASE n # 0
      <4>1. n \in 1 .. W /\ n - 1 \in 0 .. W
        BY <1>1, <3>2
      <4>2. g[n] = F[n][g[n - 1]] /\ g[n - 1] \in Nat
        BY <2>3, <4>1
      <4> QED BY <2>1, <3>2, <4>1, <4>2
    <3> QED BY <3>1, <3>2
  <2>5. Is(g)
    <3> HIDE DEF RouteAt
    <3> QED BY <2>3, <2>4
  <2> HIDE DEF Is
  <2> QED BY <2>5
<1>4. Is(route)
  <2> HIDE DEF Is
  <2> QED BY <1>3
<1>5. \A n \in 0 .. W : route[n] = RouteAt(route, n)
  <2> HIDE DEF RouteAt, route
  <2> QED BY <1>4
<1> HIDE DEF route
<1> DEFINE P == {n \in 0 .. W : n < W => HasHost(ns, route[n], n)}
<1>6. 0 \in P
  <2>1. ASSUME 0 < W PROVE HasHost(ns, 0, 0)
    <3>1. N # 0 /\ 0 \in 0 .. N - 1
      BY <1>1, <2>1, Totals
    <3>2. Before(ns, 1) = Before(ns, 0) + ns[1] /\ Before(ns, 0) = 0 /\ ns[1] \in Nat \ {0}
      BY <3>1, Totals
    <3> QED BY <3>1, <3>2 DEF HasHost
  <2>2. route[0] = 0
    BY <1>1, <1>5
  <2> QED BY <1>1, <2>1, <2>2
<1>7. ASSUME NEW n \in P, n \in 0 .. W - 1 PROVE n + 1 \in P
  <2> DEFINE r == route[n]
  <2>1. n \in Nat /\ n + 1 \in 0 .. W /\ n + 1 # 0 /\ (n + 1) - 1 = n /\ n < W
    BY <1>1, <1>7
  <2>2. HasHost(ns, r, n)
    BY <2>1
  <2>3. route[n + 1] = Next1(r, n + 1)
    BY <1>5, <2>1
  <2> HIDE DEF r
  <2>4. /\ r \in 0 .. N - 1 /\ Before(ns, r) <= n /\ n < Before(ns, r + 1)
        /\ Before(ns, r) \in Nat /\ Before(ns, r + 1) = LenList(ns)[r + 1]
        /\ Before(ns, r + 1) = Before(ns, r) + ns[r + 1] /\ ns[r + 1] \in Nat \ {0}
    <3>1. r \in 0 .. N - 1 /\ r \in 0 .. N /\ Before(ns, r) <= n /\ n < Before(ns, r + 1)
      BY <1>1, <2>2 DEF HasHost
    <3> QED BY <3>1, Totals
  <2>5. ASSUME n + 1 < W PROVE HasHost(ns, route[n + 1], n + 1)
    <3>1. CASE n + 1 < Before(ns, r + 1)
      <4>1. route[n + 1] = r
        BY <2>1, <2>3, <2>4, <3>1
      <4> QED BY <2>1, <2>4, <3>1, <4>1 DEF HasHost
    <3>2. CASE n + 1 >= Before(ns, r + 1)
      <4>1. n + 1 = Before(ns, r + 1)
        BY <2>1, <2>4, <3>2
      <4>2. r + 1 # N
        BY <1>1, <2>5, <4>1
      <4>3. r + 1 \in 0 .. N - 1 /\ r < N - 1
        BY <1>1, <2>4, <4>2
      <4>4. route[n + 1] = r + 1
        BY <2>3, <2>4, <3>2, <4>3
      <4>5. Before(ns, (r + 1) + 1) = Before(ns, r + 1) + ns[(r + 1) + 1] /\ ns[(r + 1) + 1] \in Nat \ {0}
        BY <4>3, Totals
      <4>6. n + 1 < Before(ns, (r + 1) + 1)
        BY <2>1, <4>1, <4>5
      <4> QED BY <2>1, <4>1, <4>3, <4>4, <4>6 DEF HasHost
    <3> QED BY <2>1, <2>4, <3>1, <3>2
  <2> QED BY <2>1, <2>5
<1>8. \A n \in 0 .. W : n \in P
  <2> HIDE DEF P, W
  <2> QED BY <1>1, <1>6, <1>7, UpTo
<1>9. ASSUME NEW n \in 1 .. W PROVE RouteInfo(ns, route[n - 1], n - 1) = AllHosts(ns)[n]
  <2>1. n - 1 \in 0 .. W /\ n - 1 < W /\ n - 1 \in Nat /\ (n - 1) + 1 = n
    BY <1>1
  <2>2. HasHost(ns, route[n - 1], n - 1)
    BY <1>8, <2>1
  <2>3. RouteInfo(ns, route[n - 1], n - 1) = AllHosts(ns)[(n - 1) + 1]
    BY <2>1, <2>2, RouteInfoIs
  <2> QED BY <2>1, <2>3
<1>10. AllHosts(ns) = [n \in 1 .. W |-> AllHosts(ns)[n]]
  <2>1. AllHosts(ns) \in Seq(Nat \X Nat) /\ Len(AllHosts(ns)) = W
    BY PoolHostsAre
  <2> DEFINE all == AllHosts(ns)
  <2> HIDE DEF all, W
  <2>2. all = [n \in 1 .. W |-> all[n]]
    BY <2>1 DEF all
  <2> QED BY <2>2 DEF all
<1> QED BY <1>2, <1>9, <1>10

-----------------------------------------------------------------------------
\* The half of an index up to five, at least one.
LEMMA HalfIs ==
  ASSUME NEW n \in Nat \ {0}
  PROVE  Half(n) \in 1 .. n /\ (n <= 3 => Half(n) = 1) /\ (n \in 4 .. 5 => Half(n) = 2)
BY DEF Half

\* A route has a host exactly if the search, at it, looks no further.
LEMMA ReachedIs ==
  ASSUME NEW ns \in Seq(Nat \ {0}), NEW m \in Nat, NEW r, HasHost(ns, r, m),
         NEW k \in 0 .. Len(ns) - 1
  PROVE  AtLeast(LenList(ns)[k + 1], m + 1) <=> k >= r
<1> DEFINE N == Len(ns)
<1>1. /\ N \in Nat /\ r \in 0 .. N - 1 /\ r \in 0 .. N /\ r + 1 \in 0 .. N /\ k + 1 \in 0 .. N
      /\ Before(ns, r) <= m /\ m < Before(ns, r + 1)
  BY DEF HasHost
<1>2. /\ Before(ns, k + 1) = LenList(ns)[k + 1] /\ Before(ns, k + 1) \in Nat
      /\ Before(ns, r) \in Nat /\ Before(ns, r + 1) \in Nat
  BY <1>1, Totals
<1>3. CASE k >= r
  <2>1. Before(ns, r + 1) <= Before(ns, k + 1)
    <3>1. CASE k = r
      BY <1>2, <3>1
    <3>2. CASE r < k
      <4>1. r + 1 < k + 1
        BY <1>1, <3>2
      <4>2. Before(ns, r + 1) < Before(ns, k + 1)
        BY <1>1, <4>1, BeforeGrows
      <4> QED BY <1>2, <4>2
    <3> QED BY <1>1, <1>3, <3>1, <3>2
  <2> QED BY <1>1, <1>2, <1>3, <2>1 DEF AtLeast
<1>4. CASE k < r
  <2>1. Before(ns, k + 1) <= Before(ns, r)
    <3>1. CASE k + 1 = r
      BY <1>2, <3>1
    <3>2. CASE k + 1 < r
      <4>1. Before(ns, k + 1) < Before(ns, r)
        BY <1>1, <3>2, BeforeGrows
      <4> QED BY <1>2, <4>1
    <3> QED BY <1>1, <1>4, <3>1, <3>2
  <2> QED BY <1>1, <1>2, <1>4, <2>1 DEF AtLeast
<1> QED BY <1>1, <1>3, <1>4

\* What the search does at an entry, when it looks for route r of n with the
\* rows of what it finds with one look less.
Looks(found, n, r) ==
  \A left \in 1 .. n :
    /\ found[left][0] = 0
    /\ \A k \in 1 .. n - 1 :
         /\ k = r => found[left][k] = k
         /\ k > r => found[left][k] = found[left - 1][k - Half(k)]
         /\ k < r => found[left][k] = IF k + Half(k) >= n - 1 THEN n - 1
                                      ELSE found[left - 1][k + Half(k)]

\* The search looks as Looks says.
LEMMA SearchLooks ==
  ASSUME NEW ns \in Seq(Nat \ {0}), NEW m \in Nat, NEW r, HasHost(ns, r, m)
  PROVE  \E found : /\ Looks(found, Len(ns), r)
                    /\ SortedSearch(LenList(ns), m + 1) = found[Len(ns)][Len(ns) \div 2]
<1> DEFINE N == Len(ns)
           reached(k) == AtLeast(LenList(ns)[k + 1], m + 1)
           on(k) == IF reached(k) THEN k - Half(k) ELSE k + Half(k)
           Seen(row, k) == IF k = 0 THEN 0
                           ELSE IF reached(k) /\ ~reached(k - 1) THEN k
                           ELSE IF on(k) >= N - 1 THEN N - 1 ELSE row[on(k)]
           Row(g, left) == [k \in 0 .. N - 1 |-> IF left = 0 THEN NotFound ELSE Seen(g[left - 1], k)]
           Is(g) == g = [left \in 0 .. N |-> Row(g, left)]
           found == CHOOSE g : Is(g)
<1>1. N \in Nat \ {0} /\ r \in 0 .. N - 1
  BY DEF HasHost
<1>2. Len(LenList(ns)) = N
  <2> DEFINE L == LenList(ns)
  <2>1. \A k \in 1 .. N : L[k] \in Nat
    <3> SUFFICES ASSUME NEW k \in 1 .. N PROVE L[k] \in Nat
      OBVIOUS
    <3>1. k - 1 \in 0 .. N - 1 /\ k \in 0 .. N /\ (k - 1) + 1 = k
      BY <1>1
    <3>2. Before(ns, (k - 1) + 1) = LenList(ns)[(k - 1) + 1] /\ Before(ns, k) \in Nat
      BY <3>1, Totals
    <3> QED BY <3>1, <3>2
  <2>2. L = [k \in 1 .. N |-> L[k]]
    BY DEF LenList
  <2> HIDE DEF L
  <2>3. L \in [1 .. N -> Nat]
    BY <2>1, <2>2
  <2>4. Len(L) = N
    BY <1>1, <2>3, FunctionIsSeq
  <2> QED BY <2>4 DEF L
<1>3. SortedSearch(LenList(ns), m + 1) = found[N][N \div 2]
  BY <1>2 DEF SortedSearch
<1>4. \A k \in 0 .. N - 1 : reached(k) <=> k >= r
  BY ReachedIs
<1> HIDE DEF reached
<1>5. ASSUME NEW k \in 1 .. N - 1 PROVE /\ Half(k) \in 1 .. k /\ on(k) \in Nat
                                        /\ k > r => on(k) = k - Half(k) /\ on(k) < N - 1
                                        /\ k < r => on(k) = k + Half(k)
  <2>1. Half(k) \in 1 .. k
    BY <1>1, HalfIs
  <2>2. /\ k \in Nat /\ k <= N - 1 /\ r \in Nat /\ (reached(k) <=> k >= r)
        /\ k - Half(k) \in Nat /\ k + Half(k) \in Nat /\ k - Half(k) < k
    BY <1>1, <1>4, <2>1
  <2>3. CASE reached(k)
    BY <1>1, <2>1, <2>2, <2>3
  <2>4. CASE ~reached(k)
    BY <1>1, <2>1, <2>2, <2>4
  <2> QED BY <2>3, <2>4
<1> HIDE DEF on
<1>6. \E g : Is(g)
  <2> DEFINE V == [0 .. N - 1 -> Int]
             none == [k \in 0 .. N - 1 |-> NotFound]
             F == [left \in 1 .. N |-> [row \in V |-> [k \in 0 .. N - 1 |-> Seen(row, k)]]]
  <2>1. ASSUME NEW row \in V, NEW k \in 0 .. N - 1 PROVE Seen(row, k) \in Int
    <3>1. CASE k = 0
      BY <3>1
    <3>2. CASE k # 0
      <4>1. k \in 1 .. N - 1 /\ on(k) \in Nat /\ (on(k) < N - 1 => on(k) \in 0 .. N - 1)
        BY <1>1, <1>5, <3>2
      <4> QED BY <1>1, <4>1
    <3> QED BY <3>1, <3>2
  <2> HIDE DEF Seen
  <2>2. none \in V
    BY DEF NotFound
  <2>3. F \in [1 .. N -> [V -> V]]
    <3>1. ASSUME NEW row \in V PROVE [k \in 0 .. N - 1 |-> Seen(row, k)] \in V
      BY <2>1
    <3> HIDE DEF V
    <3> QED BY <3>1
  <2>4. \A left \in 1 .. N : \A row \in V : F[left][row] = [k \in 0 .. N - 1 |-> Seen(row, k)]
    <3> HIDE DEF V
    <3> QED OBVIOUS
  <2> HIDE DEF V, F, none
  <2>5. PICK g : Follows(g, N, V, none, F)
    <3> HIDE DEF N
    <3> QED BY <1>1, <2>2, <2>3, Recursion
  <2>6. g \in [0 .. N -> V] /\ g[0] = none /\ \A i \in 1 .. N : g[i] = F[i][g[i - 1]]
    BY <2>5 DEF Follows
  <2>7. ASSUME NEW left \in 0 .. N PROVE g[left] = Row(g, left)
    <3>1. CASE left = 0
      BY <2>6, <3>1 DEF none
    <3>2. CASE left # 0
      <4>1. left \in 1 .. N /\ left - 1 \in 0 .. N
        BY <1>1, <3>2
      <4>2. g[left] = F[left][g[left - 1]] /\ g[left - 1] \in V
        BY <2>6, <4>1
      <4>3. g[left] = [k \in 0 .. N - 1 |-> Seen(g[left - 1], k)]
        BY <2>4, <4>1, <4>2
      <4> QED BY <3>2, <4>3
    <3> QED BY <3>1, <3>2
  <2>8. Is(g)
    <3> HIDE DEF Row
    <3> QED BY <2>6, <2>7
  <2> HIDE DEF Is
  <2> QED BY <2>8
<1>7. Is(found)
  <2> HIDE DEF Is
  <2> QED BY <1>6
<1>8. \A left \in 0 .. N : found[left] = Row(found, left)
  <2> HIDE DEF Row, found
  <2> QED BY <1>7
<1> HIDE DEF found
<1>9. \A left \in 1 .. N : \A k \in 0 .. N - 1 : found[left][k] = Seen(found[left - 1], k)
  <2> SUFFICES ASSUME NEW left \in 1 .. N, NEW k \in 0 .. N - 1
               PROVE  found[left][k] = Seen(found[left - 1], k)
    OBVIOUS
  <2>1. left \in 0 .. N /\ left # 0
    BY <1>1
  <2> HIDE DEF Seen
  <2>2. found[left] = [j \in 0 .. N - 1 |-> Seen(found[left - 1], j)]
    BY <1>8, <2>1
  <2> QED BY <2>2
<1>10. ASSUME NEW left \in 1 .. N
       PROVE  /\ found[left][0] = 0
              /\ \A k \in 1 .. N - 1 :
                   /\ k = r => found[left][k] = k
                   /\ k > r => found[left][k] = found[left - 1][k - Half(k)]
                   /\ k < r => found[left][k] = IF k + Half(k) >= N - 1 THEN N - 1
                                                ELSE found[left - 1][k + Half(k)]
  <2>1. found[left][0] = 0
    <3>1. 0 \in 0 .. N - 1
      BY <1>1
    <3>2. found[left][0] = Seen(found[left - 1], 0)
      <4> HIDE DEF Seen
      <4> QED BY <1>9, <3>1
    <3> QED BY <3>2
  <2>2. ASSUME NEW k \in 1 .. N - 1
        PROVE  /\ k = r => found[left][k] = k
               /\ k > r => found[left][k] = found[left - 1][k - Half(k)]
               /\ k < r => found[left][k] = IF k + Half(k) >= N - 1 THEN N - 1
                                            ELSE found[left - 1][k + Half(k)]
    <3>1. /\ k \in 0 .. N - 1 /\ k - 1 \in 0 .. N - 1 /\ k # 0
          /\ (reached(k) <=> k >= r) /\ (reached(k - 1) <=> k - 1 >= r)
      BY <1>1, <1>4
    <3>2. found[left][k] = Seen(found[left - 1], k)
      BY <1>9, <3>1
    <3>3. CASE k = r
      BY <1>1, <3>1, <3>2, <3>3
    <3>4. CASE k > r
      <4>1. reached(k - 1) /\ on(k) = k - Half(k) /\ ~(on(k) >= N - 1)
        BY <1>1, <1>5, <3>1, <3>4
      <4> QED BY <1>1, <3>1, <3>2, <3>4, <4>1
    <3>5. CASE k < r
      <4>1. ~reached(k) /\ on(k) = k + Half(k)
        BY <1>1, <1>5, <3>1, <3>5
      <4> QED BY <1>1, <3>1, <3>2, <3>5, <4>1
    <3> QED BY <1>1, <3>3, <3>4, <3>5
  <2> QED BY <2>1, <2>2
<1>11. Looks(found, N, r)
  BY <1>10 DEF Looks
<1> QED BY <1>3, <1>11

\* sorted_search finds the route of a host, among six routes or fewer.
LEMMA SearchFinds ==
  ASSUME NEW ns \in Seq(Nat \ {0}), Len(ns) <= 6, NEW m \in Nat, NEW r, HasHost(ns, r, m)
  PROVE  SortedSearch(LenList(ns), m + 1) = r
<1> DEFINE N == Len(ns)
<1>1. PICK found : /\ Looks(found, N, r)
                   /\ SortedSearch(LenList(ns), m + 1) = found[N][N \div 2]
  BY SearchLooks
<1>0. N \in Nat /\ N <= 6
  OBVIOUS
<1>2. N \in 1 .. 6 /\ r \in 0 .. N - 1
  <2>1. r \in 0 .. N - 1
    BY DEF HasHost
  <2> HIDE DEF N
  <2> QED BY <1>0, <2>1
<1> HIDE DEF N
<1>3. Half(1) = 1 /\ Half(2) = 1 /\ Half(3) = 1 /\ Half(4) = 2 /\ Half(5) = 2
  BY HalfIs
<1>4. CASE N = 1
  BY <1>1, <1>2, <1>4 DEF Looks
<1>5. CASE N = 2
  BY <1>1, <1>2, <1>3, <1>5 DEF Looks
<1>6. CASE N = 3
  BY <1>1, <1>2, <1>3, <1>6 DEF Looks
<1>7. CASE N = 4
  BY <1>1, <1>2, <1>3, <1>7 DEF Looks
<1>8. CASE N = 5
  BY <1>1, <1>2, <1>3, <1>8 DEF Looks
<1>9. CASE N = 6
  BY <1>1, <1>2, <1>3, <1>9 DEF Looks
<1>10. SortedSearch(LenList(ns), m + 1) = r
  BY <1>2, <1>4, <1>5, <1>6, <1>7, <1>8, <1>9
<1> QED BY <1>10

-----------------------------------------------------------------------------
\* Each WAN address is at its own index, from either end.
LEMMA ItemIs ==
  ASSUME NEW ns \in Seq(Nat \ {0}), Len(ns) <= 6, NEW m \in 0 .. WanHosts(ns) - 1
  PROVE  Item(ns, m) = AllHosts(ns)[m + 1] /\ Item(ns, m - WanHosts(ns)) = AllHosts(ns)[m + 1]
<1> DEFINE W == WanHosts(ns)
<1>1. PICK r : HasHost(ns, r, m)
  BY HostHasRoute
<1>2. W \in Nat \ {0} /\ m \in Nat /\ m < W
  <2>1. W \in Nat
    BY Totals
  <2> QED BY <2>1
<1>3. r \in Nat /\ r # NotFound
  BY <1>1 DEF HasHost, NotFound
<1>4. SortedSearch(LenList(ns), m + 1) = r
  BY <1>1, <1>2, SearchFinds
<1>5. RouteInfo(ns, r, m) = AllHosts(ns)[m + 1]
  BY <1>1, <1>2, RouteInfoIs
<1>6. (m - W) % W = m
  <2>1. (-1 * W + m) % W = m
    <3>1. m \in 0 .. W - 1 /\ -1 \in Int
      BY <1>2
    <3> HIDE DEF W
    <3> QED BY <1>2, <3>1, RemainderIs
  <2>2. -1 * W + m = m - W
    BY <1>2
  <2> QED BY <2>1, <2>2
<1>7. m - W < 0 /\ ~(m < 0)
  BY <1>2
<1> QED BY <1>3, <1>4, <1>5, <1>6, <1>7 DEF Item

\* What pop returned so far is the beginning of the list of all hosts.
PoolInv == sizes \in Sizes /\ popped = SubSeq(AllHosts(sizes), 1, Len(popped))

\* The rest of PoolIndexed does not depend on what was popped.
LEMMA AllIndexed ==
  ASSUME RoutePoolAssumption, \A ns \in Sizes : Len(ns) <= 6, PoolInv
  PROVE  PoolIndexed
<1> DEFINE all == AllHosts(sizes)
           n == Len(all)
<1>1. sizes \in Seq(Nat \ {0}) /\ Len(sizes) <= 6
  BY DEF PoolInv, RoutePoolAssumption
<1>2. Iterated(sizes) = all
  BY <1>1, IteratedAre
<1>3. n = WanHosts(sizes)
  BY <1>1, PoolHostsAre
<1>4. ASSUME NEW k \in 0 .. n - 1 PROVE Item(sizes, k) = all[k + 1] /\ Item(sizes, k - n) = all[k + 1]
  <2>1. k \in 0 .. WanHosts(sizes) - 1
    BY <1>3
  <2> QED BY <1>1, <1>3, <2>1, ItemIs
<1> HIDE DEF all
<1>5. popped = SubSeq(all, 1, Len(popped))
  BY DEF PoolInv, all
<1> QED BY <1>2, <1>4, <1>5 DEF PoolIndexed, all

\* RoutePool finds each WAN address at its own index, whatever the sizes of the
\* routes, and iteration and pop give them all in order, as long as a pool has no
\* more routes than sorted_search can find its way in, which are six.
THEOREM PoolIndexedHolds ==
  ASSUME \A ns \in Sizes : Len(ns) <= 6
  PROVE  PoolSpec => []PoolIndexed
<1> USE RoutePoolAssumption
<1>1. PoolInit => PoolInv
  <2> SUFFICES ASSUME PoolInit PROVE PoolInv
    OBVIOUS
  <2>1. AllHosts(sizes) \in Seq(Nat \X Nat)
    BY PoolHostsAre DEF PoolInit, RoutePoolAssumption
  <2>2. sizes \in Sizes /\ popped = <<>> /\ Len(popped) = 0
    BY DEF PoolInit
  <2>3. popped = SubSeq(AllHosts(sizes), 1, Len(popped))
    <3> DEFINE all == AllHosts(sizes)
    <3> HIDE DEF all
    <3>1. SubSeq(all, 1, 0) = <<>>
      BY <2>1 DEF all
    <3> QED BY <2>2, <3>1 DEF all
  <2> QED BY <2>2, <2>3 DEF PoolInv
<1>2. PoolInv /\ [PoolNext]_poolvars => PoolInv'
  <2> SUFFICES ASSUME PoolInv, [PoolNext]_poolvars PROVE PoolInv'
    OBVIOUS
  <2>1. CASE UNCHANGED poolvars
    BY <2>1 DEF poolvars, PoolInv
  <2>2. CASE Pop
    <3> DEFINE all == AllHosts(sizes)
               n == Len(popped)
    <3>1. sizes \in Seq(Nat \ {0}) /\ sizes \in Sizes /\ Len(sizes) <= 6
      BY DEF PoolInv, RoutePoolAssumption
    <3>2. all \in Seq(Nat \X Nat) /\ Len(all) = WanHosts(sizes)
      BY <3>1, PoolHostsAre
    <3>3. popped = SubSeq(all, 1, n)
      BY DEF PoolInv
    <3>4. n < WanHosts(sizes) /\ popped' = Append(popped, Item(sizes, n)) /\ sizes' = sizes
      BY <2>2 DEF Pop
    <3>5. n \in Nat
      BY <3>2, <3>3
    <3>6. Item(sizes, n) = all[n + 1]
      <4>1. n \in 0 .. WanHosts(sizes) - 1
        BY <3>2, <3>4, <3>5
      <4> QED BY <3>1, <4>1, ItemIs
    <3> HIDE DEF all
    <3>7. popped' = SubSeq(all, 1, n + 1)
      <4>1. n \in 0 .. Len(all) - 1
        BY <3>2, <3>4, <3>5
      <4> HIDE DEF n
      <4>2. Append(SubSeq(all, 1, n), all[n + 1]) = SubSeq(all, 1, n + 1)
        BY <3>2, <4>1, OneMore
      <4> QED BY <3>3, <3>4, <3>6, <4>2
    <3>8. Len(popped') = n + 1
      BY <3>2, <3>4, <3>5, <3>7
    <3>9. popped' = SubSeq(AllHosts(sizes'), 1, Len(popped')) /\ sizes' \in Sizes
      BY <3>1, <3>4, <3>7, <3>8 DEF all
    <3> QED BY <3>9 DEF PoolInv
  <2> QED BY <2>1, <2>2 DEF PoolNext
<1>3. PoolInv => PoolIndexed
  BY AllIndexed
<1> QED BY <1>1, <1>2, <1>3, PTL DEF PoolSpec
===============================================================================
