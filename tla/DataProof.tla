------------------------------- MODULE DataProof -------------------------------
(***************************************************************************)
(* Lemmas by induction, which the theorems about the algorithms rest on.   *)
(* The induction theorems of the library take an operator; the one here is *)
(* about a set of numbers, and rests on the fact that a set of numbers has *)
(* a least one.                                                            *)
(***************************************************************************)
EXTENDS Lists, Functions, FiniteSets, FiniteSetTheorems, SequenceTheorems, WellFoundedInduction, TLAPS

\* Induction up to N, about a set of numbers.
LEMMA UpTo ==
  ASSUME NEW N \in Nat, NEW P, 0 \in P, \A n \in P : n \in 0 .. N - 1 => n + 1 \in P
  PROVE  \A n \in 0 .. N : n \in P
<1> DEFINE T == {n \in 0 .. N : n \notin P}
<1> SUFFICES ASSUME T # {} PROVE FALSE
  OBVIOUS
<1>1. T \subseteq Nat
  OBVIOUS
<1> HIDE DEF T
<1>2. PICK x \in T : \A y \in T : ~(<<y, x>> \in OpToRel(<, Nat))
  BY <1>1, WFMin, NatLessThanWellFounded
<1>3. x \in 0 .. N /\ x \notin P /\ x \in Nat /\ x # 0
  <2>1. x \in T
    OBVIOUS
  <2> QED BY <2>1 DEF T
<1>4. x - 1 \in T
  <2>1. x - 1 \in 0 .. N - 1 /\ x - 1 \in 0 .. N /\ (x - 1) + 1 = x
    BY <1>3
  <2>2. x - 1 \notin P
    BY <1>3, <2>1
  <2> QED BY <2>1, <2>2 DEF T
<1>5. <<x - 1, x>> \in OpToRel(<, Nat)
  BY <1>1, <1>3, <1>4 DEF OpToRel
<1> QED BY <1>2, <1>4, <1>5

\* A set of numbers up to N has a greatest one.
LEMMA Greatest ==
  ASSUME NEW N \in Nat, NEW T, T \subseteq 0 .. N, T # {}
  PROVE  \E k \in T : \A j \in T : j <= k
<1> DEFINE U == {N - k : k \in T}
<1>1. U \subseteq Nat /\ U # {} /\ \A u \in U : N - u \in T
  <2>1. \A k \in T : k \in Int /\ N - k \in Nat /\ N - (N - k) = k
    OBVIOUS
  <2> QED BY <2>1
<1>2. \A k \in T : N - k \in U
  OBVIOUS
<1> HIDE DEF U
<1>3. PICK x \in U : \A y \in U : ~(<<y, x>> \in OpToRel(<, Nat))
  BY <1>1, WFMin, NatLessThanWellFounded
<1>4. \A j \in T : j <= N - x
  <2> SUFFICES ASSUME NEW j \in T, N - x < j PROVE FALSE
    BY <1>1
  <2>1. N - j \in U /\ N - j \in Nat /\ x \in Nat /\ N - j < x
    BY <1>1, <1>2
  <2> QED BY <1>3, <2>1 DEF OpToRel
<1> QED BY <1>1, <1>4

\* A set of numbers has a least one.
LEMMA Least ==
  ASSUME NEW T, T \subseteq Nat, T # {}
  PROVE  \E k \in T : \A j \in T : k <= j
<1>1. PICK x \in T : \A y \in T : ~(<<y, x>> \in OpToRel(<, Nat))
  BY WFMin, NatLessThanWellFounded
<1>2. ASSUME NEW j \in T PROVE x <= j
  <2> SUFFICES ASSUME j < x PROVE FALSE
    OBVIOUS
  <2> QED BY <1>1 DEF OpToRel
<1> QED BY <1>2

\* g goes from base by one step after the other, n of them.
Follows(g, n, V, base, F) ==
  /\ g \in [0 .. n -> V] /\ g[0] = base
  /\ \A i \in 1 .. n : g[i] = F[i][g[i - 1]]

\* A recursion from 0 up to N has a function that does it.
LEMMA Recursion ==
  ASSUME NEW N \in Nat, NEW V, NEW base \in V, NEW F \in [1 .. N -> [V -> V]]
  PROVE  \E g : Follows(g, N, V, base, F)
<1> USE DEF Follows
<1> DEFINE Does(g, n) == Follows(g, n, V, base, F)
           P == {n \in 0 .. N : \E g : Does(g, n)}
<1>1. 0 \in P
  <2>1. Does([i \in 0 .. 0 |-> base], 0)
    OBVIOUS
  <2> HIDE DEF Does
  <2> QED BY <2>1
<1>2. ASSUME NEW n \in P, n \in 0 .. N - 1 PROVE n + 1 \in P
  <2>1. n \in Nat /\ n + 1 \in 0 .. N /\ n + 1 \in 1 .. N
    BY <1>2
  <2>2. PICK g : Does(g, n)
    OBVIOUS
  <2> DEFINE h == [i \in 0 .. n + 1 |-> IF i = n + 1 THEN F[n + 1][g[n]] ELSE g[i]]
  <2>3. g[n] \in V /\ F[n + 1][g[n]] \in V
    BY <2>1, <2>2
  <2>4. \A i \in 0 .. n + 1 : i = n + 1 \/ (i \in 0 .. n /\ i # n + 1)
    BY <2>1
  <2>5. h \in [0 .. n + 1 -> V] /\ h[n + 1] = F[n + 1][g[n]] /\ \A i \in 0 .. n : h[i] = g[i]
    BY <2>1, <2>2, <2>3, <2>4
  <2> HIDE DEF h
  <2>6. ASSUME NEW i \in 1 .. n + 1 PROVE h[i] = F[i][h[i - 1]]
    <3>1. CASE i = n + 1
      <4>1. i - 1 = n /\ n \in 0 .. n
        BY <2>1, <3>1
      <4>2. h[i - 1] = g[n]
        BY <2>5, <4>1
      <4> QED BY <2>5, <3>1, <4>2
    <3>2. CASE i # n + 1
      <4>1. i \in 1 .. n /\ i \in 0 .. n /\ i - 1 \in 0 .. n
        BY <2>1, <3>2
      <4>2. g[i] = F[i][g[i - 1]]
        BY <2>2, <4>1
      <4> QED BY <2>5, <4>1, <4>2
    <3> QED BY <3>1, <3>2
  <2>7. h[0] = base
    BY <2>1, <2>2, <2>5
  <2>8. Does(h, n + 1)
    BY <2>5, <2>6, <2>7
  <2> HIDE DEF Does
  <2> QED BY <2>1, <2>8
<1> HIDE DEF P
<1>3. N \in P
  BY <1>1, <1>2, UpTo
<1> QED BY <1>3 DEF P

\* A function from numbers is a list.
LEMMA FunctionIsSeq ==
  ASSUME NEW X, NEW n \in Nat, NEW f \in [1 .. n -> X]
  PROVE  f \in Seq(X) /\ Len(f) = n
OBVIOUS

\* Appending the next entry of a list to its beginning.
LEMMA OneMore ==
  ASSUME NEW X, NEW all \in Seq(X), NEW n \in 0 .. Len(all) - 1
  PROVE  Append(SubSeq(all, 1, n), all[n + 1]) = SubSeq(all, 1, n + 1)
OBVIOUS

\* Keep computes what its recursion says.
LEMMA KeepUnfolds ==
  ASSUME NEW X, NEW s \in Seq(X), NEW S
  PROVE  \E kept : /\ Keep(s, S) = kept[Len(s)]
                   /\ kept[0] = <<>>
                   /\ \A i \in 1 .. Len(s) : kept[i] = IF s[i] \in S THEN Append(kept[i - 1], s[i])
                                                        ELSE kept[i - 1]
<1> DEFINE N == Len(s)
           Step(g, i) == IF i = 0 THEN <<>>
                         ELSE IF s[i] \in S THEN Append(g[i - 1], s[i]) ELSE g[i - 1]
           Is(g) == g = [i \in 0 .. N |-> Step(g, i)]
           kept == CHOOSE g : Is(g)
<1>0. N \in Nat /\ \A i \in 1 .. N : s[i] \in X
  OBVIOUS
<1>1. \E g : Is(g)
  <2> DEFINE V == Seq(X)
             Next1(t, i) == IF s[i] \in S THEN Append(t, s[i]) ELSE t
             F == [i \in 1 .. N |-> [t \in V |-> Next1(t, i)]]
  <2>1. <<>> \in V /\ \A i \in 1 .. N : \A t \in V : Next1(t, i) \in V
    BY <1>0
  <2>2. F \in [1 .. N -> [V -> V]] /\ \A i \in 1 .. N : \A t \in V : F[i][t] = Next1(t, i)
    <3> HIDE DEF V, Next1
    <3> QED BY <2>1
  <2> HIDE DEF V, F, Next1
  <2>3. PICK g : Follows(g, N, V, <<>>, F)
    <3> HIDE DEF N
    <3> QED BY <1>0, <2>1, <2>2, Recursion
  <2>4. g \in [0 .. N -> V] /\ g[0] = <<>> /\ \A i \in 1 .. N : g[i] = F[i][g[i - 1]]
    BY <2>3 DEF Follows
  <2>5. ASSUME NEW i \in 0 .. N PROVE g[i] = Step(g, i)
    <3>1. CASE i = 0
      BY <2>4, <3>1
    <3>2. CASE i # 0
      <4>1. i \in 1 .. N /\ i - 1 \in 0 .. N
        BY <1>0, <3>2
      <4>2. g[i] = Next1(g[i - 1], i)
        BY <2>2, <2>4, <4>1
      <4> QED BY <3>2, <4>2 DEF Next1
    <3> QED BY <3>1, <3>2
  <2>6. Is(g)
    <3> HIDE DEF Step
    <3> QED BY <2>4, <2>5
  <2> HIDE DEF Is
  <2> QED BY <2>6
<1>2. Is(kept)
  <2> HIDE DEF Is
  <2> QED BY <1>1
<1>3. Keep(s, S) = kept[N]
  BY DEF Keep
<1>4. \A i \in 0 .. N : kept[i] = Step(kept, i)
  <2> HIDE DEF Step, kept
  <2> QED BY <1>2
<1> HIDE DEF kept
<1>5. kept[0] = <<>> /\ \A i \in 1 .. N : kept[i] = IF s[i] \in S THEN Append(kept[i - 1], s[i])
                                                     ELSE kept[i - 1]
  <2>1. 0 \in 0 .. N /\ \A i \in 1 .. N : i \in 0 .. N /\ i # 0
    BY <1>0
  <2> QED BY <1>4, <2>1
<1> QED BY <1>3, <1>5

\* t has only entries of s that are in the set, and every one of them.
Kept(t, s, X, S) ==
  /\ t \in Seq(X \cap S)
  /\ \A i \in DOMAIN s : s[i] \in S => \E k \in DOMAIN t : t[k] = s[i]

\* The list that Keep returns is such a list.
LEMMA KeepKept ==
  ASSUME NEW X, NEW s \in Seq(X), NEW S
  PROVE  Kept(Keep(s, S), s, X, S)
<1> DEFINE N == Len(s)
<1>0. N \in Nat
  OBVIOUS
<1>3. PICK kept : /\ Keep(s, S) = kept[N]
                  /\ kept[0] = <<>>
                  /\ \A i \in 1 .. N : kept[i] = IF s[i] \in S THEN Append(kept[i - 1], s[i])
                                                  ELSE kept[i - 1]
  BY KeepUnfolds
<1> DEFINE Good(i) == /\ kept[i] \in Seq(X \cap S)
                      /\ \A j \in 1 .. i : s[j] \in S =>
                             \E k \in DOMAIN kept[i] : kept[i][k] = s[j]
           P == {n \in 0 .. N : Good(n)}
<1>5. 0 \in P
  <2>1. kept[0] = <<>>
    BY <1>3
  <2>2. 0 \in 0 .. N /\ ~\E j : j \in 1 .. 0
    BY <1>0
  <2>3. <<>> \in Seq(X \cap S)
    OBVIOUS
  <2> QED BY <2>1, <2>2, <2>3
<1>6. ASSUME NEW n \in P, n \in 0 .. N - 1 PROVE n + 1 \in P
  <2>1. n + 1 \in 1 .. N /\ n + 1 \in 0 .. N /\ (n + 1) - 1 = n /\ n + 1 # 0
    BY <1>0, <1>6
  <2>2. /\ kept[n] \in Seq(X \cap S)
        /\ \A j \in 1 .. n : s[j] \in S => \E k \in DOMAIN kept[n] : kept[n][k] = s[j]
    OBVIOUS
  <2>3. kept[n + 1] = IF s[n + 1] \in S THEN Append(kept[n], s[n + 1]) ELSE kept[n]
    BY <1>3, <2>1
  <2>4. \A j \in 1 .. n + 1 : j = n + 1 \/ j \in 1 .. n
    BY <1>0, <1>6
  <2>5. s[n + 1] \in X
    BY <2>1
  <2>6. Good(n + 1)
    <3>1. CASE s[n + 1] \in S
      <4> DEFINE old == kept[n]
                 new == Append(old, s[n + 1])
      <4>1. kept[n + 1] = new
        BY <2>3, <3>1
      <4>2. old \in Seq(X \cap S) /\ s[n + 1] \in X \cap S
        BY <2>2, <2>5, <3>1
      <4>3. /\ new \in Seq(X \cap S) /\ Len(new) = Len(old) + 1 /\ Len(old) \in Nat
            /\ new[Len(old) + 1] = s[n + 1] /\ \A k \in 1 .. Len(old) : new[k] = old[k]
            /\ DOMAIN old = 1 .. Len(old) /\ DOMAIN new = 1 .. Len(new)
        BY <4>2
      <4> HIDE DEF new
      <4>4. ASSUME NEW j \in 1 .. n + 1, s[j] \in S PROVE \E k \in DOMAIN new : new[k] = s[j]
        <5>1. CASE j = n + 1
          BY <4>3, <5>1
        <5>2. CASE j \in 1 .. n
          <6>1. PICK k \in DOMAIN old : old[k] = s[j]
            BY <2>2, <4>4, <5>2
          <6>2. k \in DOMAIN new /\ new[k] = s[j]
            BY <4>3, <6>1
          <6> QED BY <6>2
        <5> QED BY <2>4, <5>1, <5>2
      <4> QED BY <4>1, <4>3, <4>4
    <3>2. CASE s[n + 1] \notin S
      BY <2>2, <2>3, <2>4, <3>2
    <3> QED BY <3>1, <3>2
  <2> QED BY <2>1, <2>6
<1> HIDE DEF P
<1>7. N \in P
  BY <1>0, <1>5, <1>6, UpTo
<1> QED BY <1>3, <1>7 DEF P, Kept

\* The same, in the terms of the list.
LEMMA KeepIs ==
  ASSUME NEW X, NEW s \in Seq(X), NEW S
  PROVE  /\ Keep(s, S) \in Seq(X \cap S)
         /\ \A i \in DOMAIN s : s[i] \in S => \E k \in DOMAIN Keep(s, S) : Keep(s, S)[k] = s[i]
<1>1. Kept(Keep(s, S), s, X, S)
  BY KeepKept
<1> QED BY <1>1 DEF Kept

\* An entry that is in the set is kept.
LEMMA KeepHas ==
  ASSUME NEW X, NEW s \in Seq(X), NEW S, NEW i \in DOMAIN s, s[i] \in S
  PROVE  \E k \in DOMAIN Keep(s, S) : Keep(s, S)[k] = s[i]
<1>1. Kept(Keep(s, S), s, X, S)
  BY KeepKept
<1> QED BY <1>1 DEF Kept

\* The order of the entries stays: Keep picks them by their places.
LEMMA KeepPicks ==
  ASSUME NEW X, NEW s \in Seq(X), NEW S
  PROVE  \E w \in [DOMAIN Keep(s, S) -> DOMAIN s] :
           /\ \A k \in DOMAIN Keep(s, S) : Keep(s, S)[k] = s[w[k]]
           /\ \A j, k \in DOMAIN Keep(s, S) : j # k => w[j] # w[k]
<1> DEFINE N == Len(s)
<1>1. N \in Nat /\ DOMAIN s = 1 .. N
  OBVIOUS
<1>2. PICK kept : /\ Keep(s, S) = kept[N]
                  /\ kept[0] = <<>>
                  /\ \A i \in 1 .. N : kept[i] = IF s[i] \in S THEN Append(kept[i - 1], s[i])
                                                  ELSE kept[i - 1]
  BY KeepUnfolds
<1> DEFINE Picks(w, t, i) == /\ t \in Seq(X)
                             /\ w \in [1 .. Len(t) -> 1 .. i]
                             /\ \A k \in 1 .. Len(t) : t[k] = s[w[k]]
                             /\ \A j, k \in 1 .. Len(t) : j # k => w[j] # w[k]
           P == {i \in 0 .. N : \E w : Picks(w, kept[i], i)}
<1>3. 0 \in P
  <2>1. Picks(<<>>, kept[0], 0)
    <3>1. kept[0] = <<>> /\ Len(<<>>) = 0
      BY <1>2
    <3>2. ~\E j : j \in 1 .. 0
      OBVIOUS
    <3>3. <<>> \in [1 .. 0 -> 1 .. 0] /\ <<>> \in Seq(X)
      OBVIOUS
    <3> QED BY <3>1, <3>2, <3>3
  <2> HIDE DEF Picks
  <2> QED BY <1>1, <2>1
<1>4. ASSUME NEW n \in P, n \in 0 .. N - 1 PROVE n + 1 \in P
  <2>1. n \in Nat /\ n + 1 \in 1 .. N /\ n + 1 \in 0 .. N /\ (n + 1) - 1 = n
    BY <1>1, <1>4
  <2>2. PICK w : Picks(w, kept[n], n)
    OBVIOUS
  <2>3. kept[n + 1] = IF s[n + 1] \in S THEN Append(kept[n], s[n + 1]) ELSE kept[n]
    BY <1>2, <2>1
  <2>4. \E u : Picks(u, kept[n + 1], n + 1)
    <3>1. CASE s[n + 1] \notin S
      <4>1. kept[n + 1] = kept[n]
        BY <2>3, <3>1
      <4>2. Picks(w, kept[n], n + 1)
        BY <2>1, <2>2
      <4> HIDE DEF Picks
      <4> QED BY <4>1, <4>2
    <3>2. CASE s[n + 1] \in S
      <4> DEFINE old == kept[n]
                 new == Append(old, s[n + 1])
                 L == Len(old)
                 u == [k \in 1 .. L + 1 |-> IF k = L + 1 THEN n + 1 ELSE w[k]]
      <4>1. kept[n + 1] = new
        BY <2>3, <3>2
      <4>2. old \in Seq(X) /\ s[n + 1] \in X
        BY <1>1, <2>1, <2>2
      <4>3. /\ new \in Seq(X) /\ Len(new) = L + 1 /\ L \in Nat
            /\ new[L + 1] = s[n + 1] /\ \A k \in 1 .. L : new[k] = old[k]
        BY <4>2
      <4>4. /\ w \in [1 .. L -> 1 .. n] /\ \A k \in 1 .. L : old[k] = s[w[k]]
            /\ \A j, k \in 1 .. L : j # k => w[j] # w[k]
        BY <2>2
      <4> HIDE DEF new, old, L
      <4>5. u \in [1 .. L + 1 -> 1 .. n + 1] /\ u[L + 1] = n + 1 /\ \A k \in 1 .. L : u[k] = w[k]
        BY <2>1, <4>3, <4>4
      <4> HIDE DEF u
      <4>6. \A k \in 1 .. L + 1 : k = L + 1 \/ k \in 1 .. L
        BY <4>3
      <4>7. \A k \in 1 .. L + 1 : new[k] = s[u[k]]
        BY <4>3, <4>4, <4>5, <4>6
      <4>8. \A k \in 1 .. L : w[k] # n + 1
        BY <2>1, <4>4
      <4>9. \A j, k \in 1 .. L + 1 : j # k => u[j] # u[k]
        BY <4>4, <4>5, <4>6, <4>8
      <4>10. Picks(u, new, n + 1)
        BY <4>3, <4>5, <4>7, <4>9
      <4> HIDE DEF Picks
      <4> QED BY <4>1, <4>10
    <3> QED BY <3>1, <3>2
  <2> HIDE DEF Picks
  <2> QED BY <2>1, <2>4
<1> HIDE DEF P
<1>5. N \in P
  BY <1>1, <1>3, <1>4, UpTo
<1> DEFINE t == Keep(s, S)
<1>6. PICK w : Picks(w, t, N)
  BY <1>2, <1>5 DEF P
<1> HIDE DEF t
<1>7. t \in Seq(X) /\ DOMAIN t = 1 .. Len(t) /\ DOMAIN s = 1 .. N
  BY <1>1, <1>6
<1>8. \E v \in [DOMAIN t -> DOMAIN s] :
        /\ \A k \in DOMAIN t : t[k] = s[v[k]]
        /\ \A j, k \in DOMAIN t : j # k => v[j] # v[k]
  BY <1>6, <1>7
<1> QED BY <1>8 DEF t

-----------------------------------------------------------------------------
(* Powers of two, and remainders. *)

\* A power of two counts the subsets of a set.
LEMMA PowerCounts ==
  ASSUME NEW n \in Nat
  PROVE  /\ IsFiniteSet(SUBSET (1 .. n)) /\ Cardinality(SUBSET (1 .. n)) = 2 ^ n
         /\ 2 ^ n \in Nat \ {0}
<1>1. IsFiniteSet(1 .. n) /\ Cardinality(1 .. n) = n
  <2>1. IF 1 > n THEN n = 0 ELSE n - 1 + 1 = n
    OBVIOUS
  <2> QED BY <2>1, FS_Interval
<1>2. IsFiniteSet(SUBSET (1 .. n)) /\ Cardinality(SUBSET (1 .. n)) = 2 ^ n
  BY <1>1, FS_SUBSET, Zenon
<1>3. 2 ^ n \in Nat
  BY <1>2, FS_CardinalityType, Zenon
<1>4. 2 ^ n # 0
  <2>1. SUBSET (1 .. n) # {}
    OBVIOUS
  <2> QED BY <1>2, <2>1, FS_EmptySet, Zenon
<1> QED BY <1>2, <1>3, <1>4

LEMMA PowerStep ==
  ASSUME NEW n \in Nat
  PROVE  2 ^ (n + 1) = 2 * 2 ^ n
<1> DEFINE A == SUBSET (1 .. n)
           f == [s \in A |-> s \cup {n + 1}]
           B == {f[s] : s \in A}
<1>1. n + 1 \in Nat /\ n + 1 \notin 1 .. n /\ 1 .. n + 1 = 1 .. n \cup {n + 1}
  OBVIOUS
<1>2. f \in Bijection(A, B)
  <2>1. \A s, t \in A : f[s] = f[t] => s = t
    BY <1>1
  <2>2. f \in Injection(A, B)
    <3>1. f \in [A -> B]
      OBVIOUS
    <3> HIDE DEF f, B, A
    <3> QED BY <2>1, <3>1 DEF Injection, IsInjective
  <2>3. f \in Surjection(A, B)
    <3>1. f \in [A -> B] /\ \A t \in B : \E s \in A : f[s] = t
      OBVIOUS
    <3> HIDE DEF f, B, A
    <3> QED BY <3>1 DEF Surjection
  <2> HIDE DEF f, B, A
  <2> QED BY <2>2, <2>3 DEF Bijection
<1>3. SUBSET (1 .. n + 1) = A \cup B
  <2>1. \A t \in SUBSET (1 .. n + 1) : n + 1 \in t => t \ {n + 1} \in A /\ t = f[t \ {n + 1}]
    BY <1>1
  <2>2. \A t \in SUBSET (1 .. n + 1) : n + 1 \notin t => t \in A
    BY <1>1
  <2>3. \A t : t \in A => t \in SUBSET (1 .. n + 1)
    BY <1>1
  <2>4. \A t : t \in B => t \in SUBSET (1 .. n + 1)
    BY <1>1
  <2>5. \A t \in SUBSET (1 .. n + 1) : n + 1 \in t => t \in B
    BY <2>1
  <2> HIDE DEF A, B
  <2> QED BY <2>2, <2>3, <2>4, <2>5
<1>4. A \cap B = {}
  BY <1>1
<1>5. /\ IsFiniteSet(A) /\ Cardinality(A) = 2 ^ n /\ 2 ^ n \in Nat
      /\ Cardinality(SUBSET (1 .. n + 1)) = 2 ^ (n + 1)
  BY <1>1, PowerCounts
<1> HIDE DEF A, B
<1>6. IsFiniteSet(B) /\ Cardinality(B) = Cardinality(A)
  BY <1>2, <1>5, FS_Bijection DEF ExistsBijection
<1>7. Cardinality(A \cup B) = Cardinality(A) + Cardinality(B) - Cardinality(A \cap B)
  BY <1>5, <1>6, FS_Union
<1>8. Cardinality(A \cap B) = 0
  BY <1>4, FS_EmptySet
<1>9. 2 ^ (n + 1) = 2 ^ n + 2 ^ n - 0
  BY <1>3, <1>5, <1>6, <1>7, <1>8, Zenon
<1>10. \A p \in Nat : p + p - 0 = 2 * p
  OBVIOUS
<1> QED BY <1>5, <1>9, <1>10, Zenon

LEMMA PowerSum ==
  ASSUME NEW a \in Nat, NEW b \in Nat
  PROVE  2 ^ (a + b) = 2 ^ a * 2 ^ b
<1> DEFINE P == {n \in Nat : 2 ^ (a + n) = 2 ^ a * 2 ^ n}
<1>1. 0 \in P
  <2>1. a + 0 = a /\ 2 ^ 0 = 1 /\ 0 \in Nat
    OBVIOUS
  <2>2. 2 ^ a \in Nat
    BY PowerCounts
  <2>3. 2 ^ a * 1 = 2 ^ a
    BY <2>2
  <2> QED BY <2>1, <2>3, Zenon
<1>2. ASSUME NEW n \in P PROVE n + 1 \in P
  <2> DEFINE x == 2 ^ a
             y == 2 ^ n
             z == 2 ^ (a + n)
  <2>1. n \in Nat /\ n + 1 \in Nat /\ a + n \in Nat /\ a + (n + 1) = (a + n) + 1
    OBVIOUS
  <2>2. z = x * y
    OBVIOUS
  <2>3. 2 ^ (n + 1) = 2 * y /\ 2 ^ (a + (n + 1)) = 2 * z
    BY <2>1, PowerStep, Zenon
  <2>4. x \in Nat /\ y \in Nat
    BY <2>1, PowerCounts
  <2> HIDE DEF x, y, z
  <2>5. 2 * (x * y) = x * (2 * y)
    BY <2>4
  <2> QED BY <2>1, <2>2, <2>3, <2>5, Zenon DEF x
<1> HIDE DEF P
<1>3. b \in P
  BY <1>1, <1>2, UpTo
<1> QED BY <1>3 DEF P

LEMMA TimesMonotone ==
  ASSUME NEW a \in Int, NEW b \in Int, NEW m \in Nat, a <= b
  PROVE  a * m <= b * m
<1>1. b - a \in Nat
  OBVIOUS
<1>2. (b - a) * m \in Nat
  BY <1>1
<1>3. (b - a) * m = b * m - a * m
  OBVIOUS
<1> QED BY <1>2, <1>3

\* What division and remainder are.
LEMMA Divided ==
  ASSUME NEW n \in Nat, NEW m \in Nat \ {0}
  PROVE  n \div m \in Nat /\ n % m \in 0 .. m - 1 /\ n = (n \div m) * m + (n % m)
<1> DEFINE q == n \div m
           r == n % m
<1>1. q \in Int /\ r \in 0 .. m - 1 /\ n = m * q + r
  OBVIOUS
<1> HIDE DEF q, r
<1>2. m * q = q * m
  BY <1>1
<1>3. q >= 0
  <2> SUFFICES ASSUME q + 1 <= 0 PROVE FALSE
    BY <1>1
  <2>1. (q + 1) * m <= 0 * m
    BY <1>1, TimesMonotone
  <2>2. (q + 1) * m = q * m + m
    BY <1>1
  <2>3. q * m + m <= 0
    BY <1>1, <2>1, <2>2
  <2> QED BY <1>1, <1>2, <2>3
<1> QED BY <1>1, <1>2, <1>3 DEF q, r

LEMMA DividedOnce ==
  ASSUME NEW q \in Nat, NEW p \in Nat, NEW m \in Nat \ {0}, NEW r \in 0 .. m - 1, q * m + r < p * m
  PROVE  q < p
<1> SUFFICES ASSUME p <= q PROVE FALSE
  OBVIOUS
<1>1. p * m <= q * m
  BY TimesMonotone
<1> QED BY <1>1

\* A number and a remainder determine each other.
LEMMA DivideIs ==
  ASSUME NEW q \in Nat, NEW m \in Nat \ {0}, NEW r \in 0 .. m - 1
  PROVE  (q * m + r) \div m = q
<1> DEFINE n == q * m + r
           p == n \div m
           s == n % m
<1>1. n \in Nat
  OBVIOUS
<1>2. p \in Nat /\ s \in 0 .. m - 1 /\ n = p * m + s
  BY <1>1, Divided
<1> HIDE DEF p, s
<1>3. q * m + r = p * m + s
  BY <1>2
<1>4. (q + 1) * m = q * m + m /\ (p + 1) * m = p * m + m
  BY <1>2
<1>5. q < p + 1
  BY <1>2, <1>3, <1>4, DividedOnce
<1>6. p < q + 1
  BY <1>2, <1>3, <1>4, DividedOnce
<1> QED BY <1>2, <1>5, <1>6 DEF p

\* A remainder is the number that is left, in either direction.
LEMMA RemainderIs ==
  ASSUME NEW q \in Int, NEW m \in Nat \ {0}, NEW r \in 0 .. m - 1
  PROVE  (q * m + r) % m = r
<1> DEFINE n == q * m + r
           p == n \div m
           s == n % m
<1>1. n \in Int
  OBVIOUS
<1>2. p \in Int /\ s \in 0 .. m - 1 /\ n = m * p + s
  <2> HIDE DEF n
  <2> QED BY <1>1
<1> HIDE DEF p, s
<1>3. m * p = p * m
  BY <1>2
<1>4. q * m + r = p * m + s
  BY <1>2, <1>3
<1>5. ASSUME NEW a \in Int, NEW b \in Int, a < b PROVE a * m + m <= b * m
  <2>1. (a + 1) * m <= b * m
    BY <1>5, TimesMonotone
  <2>2. (a + 1) * m = a * m + m
    OBVIOUS
  <2> QED BY <2>1, <2>2
<1>6. q * m \in Int /\ p * m \in Int
  BY <1>2
<1>7. ~(q < p)
  <2> SUFFICES ASSUME q < p PROVE FALSE
    OBVIOUS
  <2>1. q * m + m <= p * m
    BY <1>2, <1>5
  <2> QED BY <1>2, <1>4, <1>6, <2>1
<1>8. ~(p < q)
  <2> SUFFICES ASSUME p < q PROVE FALSE
    OBVIOUS
  <2>1. p * m + m <= q * m
    BY <1>2, <1>5
  <2> QED BY <1>2, <1>4, <1>6, <2>1
<1>9. p = q
  BY <1>2, <1>7, <1>8
<1> QED BY <1>2, <1>4, <1>6, <1>9 DEF s

\* A number below another is the remainder by it.
LEMMA Remains ==
  ASSUME NEW m \in Nat \ {0}, NEW r \in 0 .. m - 1
  PROVE  r % m = r
<1>1. (0 * m + r) % m = r
  BY RemainderIs
<1>2. 0 * m + r = r
  OBVIOUS
<1> QED BY <1>1, <1>2

-----------------------------------------------------------------------------
(* Sums over a finite set, as the folds of the library compute them. *)

SumOn(f, S) == FoldFunctionOnSet(+, 0, f, S)

AnyOf(s) == CHOOSE x \in s : TRUE
SumStep(f, g, s) == IF s = {} THEN 0 ELSE f[AnyOf(s)] + g[s \ {AnyOf(s)}]
IsSum(f, g, D) == g = [s \in D |-> SumStep(f, g, s)]

\* Induction on the size of a set, about a set of sets.
LEMMA BySize ==
  ASSUME NEW S, IsFiniteSet(S), NEW P,
         \A T \in SUBSET S : (\A y \in T : T \ {y} \in P) => T \in P
  PROVE  \A T \in SUBSET S : T \in P
<1> DEFINE N == Cardinality(S)
           Q == {n \in 0 .. N : \A T \in SUBSET S : Cardinality(T) = n => T \in P}
<1>1. N \in Nat /\ \A T \in SUBSET S : IsFiniteSet(T) /\ Cardinality(T) \in 0 .. N
  <2>1. N \in Nat
    BY FS_CardinalityType
  <2>2. ASSUME NEW T \in SUBSET S PROVE IsFiniteSet(T) /\ Cardinality(T) \in 0 .. N
    <3>1. IsFiniteSet(T) /\ Cardinality(T) <= N
      BY FS_Subset
    <3>2. Cardinality(T) \in Nat
      BY <3>1, FS_CardinalityType
    <3> QED BY <2>1, <3>1, <3>2
  <2> QED BY <2>1, <2>2
<1> HIDE DEF N
<1>2. 0 \in Q
  <2>1. \A T \in SUBSET S : Cardinality(T) = 0 => T = {}
    BY <1>1, FS_EmptySet
  <2>2. {} \in P
    OBVIOUS
  <2> QED BY <1>1, <2>1, <2>2
<1>3. ASSUME NEW n \in Q, n \in 0 .. N - 1 PROVE n + 1 \in Q
  <2>1. ASSUME NEW T \in SUBSET S, Cardinality(T) = n + 1 PROVE T \in P
    <3>1. ASSUME NEW y \in T PROVE T \ {y} \in P
      <4>1. Cardinality(T \ {y}) = Cardinality(T) - 1
        BY <1>1, FS_RemoveElement
      <4>2. T \ {y} \in SUBSET S /\ Cardinality(T \ {y}) = n
        BY <1>1, <1>3, <2>1, <4>1
      <4> QED BY <4>2
    <3> QED BY <3>1
  <2>2. n + 1 \in 0 .. N
    BY <1>1, <1>3
  <2> QED BY <2>1, <2>2
<1> HIDE DEF Q
<1>4. \A n \in 0 .. N : n \in Q
  BY <1>1, <1>2, <1>3, UpTo
<1> QED BY <1>1, <1>4 DEF Q

LEMMA FirstIs ==
  ASSUME NEW s, s # {}
  PROVE  AnyOf(s) \in s
BY DEF AnyOf

\* There is a function that does the recursion.
LEMMA SumExists ==
  ASSUME NEW f, NEW S, IsFiniteSet(S)
  PROVE  \E g : IsSum(f, g, SUBSET S)
<1> DEFINE N == Cardinality(S)
           Sub(n) == {s \in SUBSET S : Cardinality(s) <= n}
           P == {n \in 0 .. N : \E g : IsSum(f, g, Sub(n))}
<1>1. N \in Nat /\ \A T \in SUBSET S : IsFiniteSet(T) /\ Cardinality(T) \in 0 .. N
  <2>1. N \in Nat
    BY FS_CardinalityType
  <2>2. ASSUME NEW T \in SUBSET S PROVE IsFiniteSet(T) /\ Cardinality(T) \in 0 .. N
    <3>1. IsFiniteSet(T) /\ Cardinality(T) <= N
      BY FS_Subset
    <3>2. Cardinality(T) \in Nat
      BY <3>1, FS_CardinalityType
    <3> QED BY <2>1, <3>1, <3>2
  <2> QED BY <2>1, <2>2
<1> HIDE DEF N
<1>2. 0 \in P
  <2>1. \A s \in Sub(0) : s = {}
    BY <1>1, FS_EmptySet
  <2> DEFINE g == [s \in Sub(0) |-> 0]
  <2> HIDE DEF Sub
  <2>2. IsSum(f, g, Sub(0))
    BY <2>1 DEF IsSum, SumStep
  <2> HIDE DEF g
  <2> QED BY <1>1, <2>2
<1>3. ASSUME NEW n \in P, n \in 0 .. N - 1 PROVE n + 1 \in P
  <2>1. PICK g : IsSum(f, g, Sub(n))
    OBVIOUS
  <2> DEFINE h == [s \in Sub(n + 1) |-> IF s \in Sub(n) THEN g[s] ELSE SumStep(f, g, s)]
  <2>2. n \in Nat /\ n + 1 \in 0 .. N
    BY <1>1, <1>3
  <2>3. \A s \in Sub(n) : s \in Sub(n + 1)
    BY <1>1, <2>2
  <2>4. ASSUME NEW s \in Sub(n + 1), s # {} PROVE s \ {AnyOf(s)} \in Sub(n)
    <3>1. AnyOf(s) \in s
      BY <2>4, FirstIs
    <3>2. Cardinality(s \ {AnyOf(s)}) = Cardinality(s) - 1
      BY <1>1, <3>1, FS_RemoveElement
    <3>3. Cardinality(s) \in Nat /\ Cardinality(s) <= n + 1
      BY <1>1
    <3>4. Cardinality(s) - 1 <= n
      BY <2>2, <3>3
    <3> QED BY <3>2, <3>4
  <2> HIDE DEF Sub
  <2>5. \A s \in Sub(n) : g[s] = SumStep(f, g, s)
    BY <2>1 DEF IsSum
  <2>6. \A s \in Sub(n) : h[s] = g[s]
    BY <2>3
  <2>7. \A s \in Sub(n + 1) : h[s] = SumStep(f, g, s)
    <3> HIDE DEF SumStep
    <3> QED BY <2>5
  <2> HIDE DEF h
  <2>8. \A s \in Sub(n + 1) : SumStep(f, g, s) = SumStep(f, h, s)
    BY <2>4, <2>6 DEF SumStep
  <2>9. h = [s \in Sub(n + 1) |-> SumStep(f, h, s)]
    <3>1. h = [s \in Sub(n + 1) |-> h[s]]
      BY DEF h
    <3> QED BY <2>7, <2>8, <3>1
  <2>10. IsSum(f, h, Sub(n + 1))
    BY <2>9 DEF IsSum
  <2> QED BY <2>2, <2>10
<1> HIDE DEF P
<1>4. N \in P
  BY <1>1, <1>2, <1>3, UpTo
<1>5. Sub(N) = SUBSET S
  BY <1>1
<1> HIDE DEF Sub
<1> QED BY <1>4, <1>5 DEF P

\* It has one value at a set, whatever set it was made for.
LEMMA SumUnique ==
  ASSUME NEW f, NEW S, IsFiniteSet(S), NEW T \in SUBSET S,
         NEW g, NEW h
  PROVE  IsSum(f, g, SUBSET S) /\ IsSum(f, h, SUBSET T) => \A U \in SUBSET T : g[U] = h[U]
<1> SUFFICES ASSUME IsSum(f, g, SUBSET S), IsSum(f, h, SUBSET T)
             PROVE  \A U \in SUBSET T : g[U] = h[U]
  OBVIOUS
<1> DEFINE P == {U \in SUBSET T : g[U] = h[U]}
<1>1. IsFiniteSet(T)
  BY FS_Subset
<1>2. ASSUME NEW U \in SUBSET T, \A y \in U : U \ {y} \in P PROVE U \in P
  <2>1. g[U] = SumStep(f, g, U) /\ h[U] = SumStep(f, h, U)
    BY DEF IsSum
  <2>2. U # {} => U \ {AnyOf(U)} \in P
    BY <1>2, FirstIs
  <2>3. SumStep(f, g, U) = SumStep(f, h, U)
    BY <2>2 DEF SumStep
  <2> QED BY <2>1, <2>3
<1> HIDE DEF P
<1>3. \A U \in SUBSET T : U \in P
  BY <1>1, <1>2, BySize
<1> QED BY <1>3 DEF P

LEMMA SumUnfolds ==
  ASSUME NEW f, NEW S, IsFiniteSet(S)
  PROVE  SumOn(f, S) = IF S = {} THEN 0 ELSE f[AnyOf(S)] + SumOn(f, S \ {AnyOf(S)})
<1> DEFINE iter(D) == CHOOSE g : IsSum(f, g, SUBSET D)
           T == S \ {AnyOf(S)}
<1>1. \A D : SumOn(f, D) = iter(D)[D]
  BY DEF SumOn, FoldFunctionOnSet, MapThenFoldSet, IsSum, SumStep, AnyOf
<1>2. IsFiniteSet(T) /\ T \in SUBSET S
  BY FS_RemoveElement
<1>3. IsSum(f, iter(S), SUBSET S) /\ IsSum(f, iter(T), SUBSET T)
  BY <1>2, SumExists
<1> HIDE DEF iter
<1>4. iter(S)[S] = SumStep(f, iter(S), S)
  BY <1>3 DEF IsSum
<1>5. iter(S)[T] = iter(T)[T]
  <2> HIDE DEF T
  <2>1. IsSum(f, iter(S), SUBSET S) /\ IsSum(f, iter(T), SUBSET T)
           => \A U \in SUBSET T : iter(S)[U] = iter(T)[U]
    BY <1>2, SumUnique
  <2> QED BY <1>3, <2>1
<1> QED BY <1>1, <1>4, <1>5 DEF SumStep

\* A sum over a set is one entry and the sum over the rest, whichever entry.
LEMMA SumType ==
  ASSUME NEW S, IsFiniteSet(S), NEW f, \A x \in S : f[x] \in Int
  PROVE  \A T \in SUBSET S : SumOn(f, T) \in Int
<1> DEFINE P == {T \in SUBSET S : SumOn(f, T) \in Int}
<1>1. ASSUME NEW T \in SUBSET S, \A y \in T : T \ {y} \in P PROVE T \in P
  <2>1. SumOn(f, T) = IF T = {} THEN 0 ELSE f[AnyOf(T)] + SumOn(f, T \ {AnyOf(T)})
    <3>1. IsFiniteSet(T)
      BY FS_Subset
    <3> QED BY <3>1, SumUnfolds
  <2>2. T # {} => f[AnyOf(T)] \in Int /\ SumOn(f, T \ {AnyOf(T)}) \in Int
    BY <1>1, FirstIs
  <2> QED BY <2>1, <2>2
<1> HIDE DEF P
<1>2. \A T \in SUBSET S : T \in P
  BY <1>1, BySize
<1> QED BY <1>2 DEF P

LEMMA SumIs ==
  ASSUME NEW S, IsFiniteSet(S), NEW f, \A x \in S : f[x] \in Int
  PROVE  /\ SumOn(f, {}) = 0
         /\ \A T \in SUBSET S : /\ SumOn(f, T) \in Int
                               /\ \A x \in T : SumOn(f, T) = f[x] + SumOn(f, T \ {x})
<1> DEFINE P == {T \in SUBSET S : /\ SumOn(f, T) \in Int
                                  /\ \A x \in T : SumOn(f, T) = f[x] + SumOn(f, T \ {x})}
<1>1. SumOn(f, {}) = 0
  BY FS_EmptySet, SumUnfolds
<1>2. ASSUME NEW T \in SUBSET S, \A y \in T : T \ {y} \in P PROVE T \in P
  <2>1. CASE T = {}
    BY <1>1, <2>1
  <2>2. CASE T # {}
    <3> DEFINE y == AnyOf(T)
    <3>1. y \in T
      BY <2>2, FirstIs
    <3>2. IsFiniteSet(T)
      BY FS_Subset
    <3>3. SumOn(f, T) = f[y] + SumOn(f, T \ {y})
      BY <2>2, <3>2, SumUnfolds
    <3> HIDE DEF y
    <3>4. f[y] \in Int /\ SumOn(f, T \ {y}) \in Int
      BY <1>2, <3>1
    <3>5. SumOn(f, T) \in Int
      BY <3>3, <3>4
    <3>6. ASSUME NEW x \in T, x # y PROVE SumOn(f, T) = f[x] + SumOn(f, T \ {x})
      <4> DEFINE U == (T \ {y}) \ {x}
      <4>1. (T \ {x}) \ {y} = U
        OBVIOUS
      <4>2. x \in T \ {y} /\ y \in T \ {x}
        BY <3>1, <3>6
      <4>3. T \ {x} \in P /\ T \ {y} \in P
        BY <1>2, <3>1
      <4>4. SumOn(f, T \ {y}) = f[x] + SumOn(f, U)
        BY <4>2, <4>3
      <4>5. SumOn(f, T \ {x}) = f[y] + SumOn(f, U)
        BY <4>1, <4>2, <4>3
      <4>6. U \in SUBSET S /\ f[x] \in Int /\ SumOn(f, U) \in Int
        BY SumType
      <4> HIDE DEF U
      <4> QED BY <3>3, <3>4, <4>4, <4>5, <4>6
    <3> QED BY <3>3, <3>5, <3>6
  <2> QED BY <2>1, <2>2
<1> HIDE DEF P
<1>3. \A T \in SUBSET S : T \in P
  BY <1>2, BySize
<1> QED BY <1>1, <1>3 DEF P

\* No entry is above the sum of counts.
LEMMA SumBounds ==
  ASSUME NEW S, IsFiniteSet(S), NEW f, \A x \in S : f[x] \in Nat
  PROVE  \A T \in SUBSET S : SumOn(f, T) \in Nat /\ \A x \in T : f[x] <= SumOn(f, T)
<1> DEFINE P == {T \in SUBSET S : SumOn(f, T) \in Nat}
<1>1. /\ SumOn(f, {}) = 0
      /\ \A T \in SUBSET S : \A x \in T : SumOn(f, T) = f[x] + SumOn(f, T \ {x})
  BY SumIs
<1>2. ASSUME NEW T \in SUBSET S, \A y \in T : T \ {y} \in P PROVE T \in P
  <2>1. CASE T = {}
    BY <1>1, <2>1
  <2>2. CASE T # {}
    <3>1. PICK x : x \in T
      BY <2>2
    <3>2. SumOn(f, T) = f[x] + SumOn(f, T \ {x}) /\ SumOn(f, T \ {x}) \in Nat /\ f[x] \in Nat
      BY <1>1, <1>2, <3>1
    <3> QED BY <3>2
  <2> QED BY <2>1, <2>2
<1> HIDE DEF P
<1>3. \A T \in SUBSET S : T \in P
  BY <1>2, BySize
<1>4. \A T \in SUBSET S : SumOn(f, T) \in Nat
  BY <1>3 DEF P
<1>5. ASSUME NEW T \in SUBSET S, NEW x \in T PROVE f[x] <= SumOn(f, T)
  <2>1. SumOn(f, T) = f[x] + SumOn(f, T \ {x}) /\ SumOn(f, T \ {x}) \in Nat /\ f[x] \in Nat
    BY <1>1, <1>4
  <2> QED BY <2>1
<1> QED BY <1>4, <1>5

LEMMA SumBoundsTwo ==
  ASSUME NEW S, IsFiniteSet(S), NEW f, \A x \in S : f[x] \in Nat
  PROVE  \A x, y \in S : x # y => f[x] + f[y] <= SumOn(f, S)
<1>1. /\ SumOn(f, {}) = 0
      /\ \A T \in SUBSET S : \A x \in T : SumOn(f, T) = f[x] + SumOn(f, T \ {x})
  BY SumIs
<1>2. \A T \in SUBSET S : SumOn(f, T) \in Nat /\ \A x \in T : f[x] <= SumOn(f, T)
  BY SumBounds
<1> SUFFICES ASSUME NEW x \in S, NEW y \in S, x # y PROVE f[x] + f[y] <= SumOn(f, S)
  OBVIOUS
<1>3. SumOn(f, S) = f[x] + SumOn(f, S \ {x})
  BY <1>1
<1>4. f[y] <= SumOn(f, S \ {x}) /\ SumOn(f, S \ {x}) \in Nat
  BY <1>2
<1> QED BY <1>3, <1>4

\* A sum of multiples is the multiples of the sums.
Combined(x, a, y, b, z) == x = a * y + b * z
Combines(h, S, a, f, b, g) == \A x \in S : Combined(h[x], a, f[x], b, g[x])

LEMMA SumLinear ==
  ASSUME NEW S, IsFiniteSet(S), NEW f \in [S -> Int], NEW g \in [S -> Int], NEW h \in [S -> Int],
         NEW a \in Int, NEW b \in Int, Combines(h, S, a, f, b, g)
  PROVE  Combined(SumOn(h, S), a, SumOn(f, S), b, SumOn(g, S))
<1>0. \A x \in S : h[x] = a * f[x] + b * g[x]
  BY DEF Combines, Combined
<1> DEFINE Sums(k) == /\ SumOn(k, {}) = 0
                     /\ \A T \in SUBSET S :
                          /\ SumOn(k, T) \in Int
                          /\ \A x \in T : SumOn(k, T) = k[x] + SumOn(k, T \ {x})
<1>6. \A k : (\A x \in S : k[x] \in Int) => Sums(k)
  BY SumIs
<1>7. Sums(f) /\ Sums(g) /\ Sums(h)
  <2> HIDE DEF Sums
  <2> QED BY <1>6
<1> DEFINE P == {T \in SUBSET S : SumOn(h, T) = a * SumOn(f, T) + b * SumOn(g, T)}
<1>1. /\ SumOn(f, {}) = 0
      /\ \A T \in SUBSET S : /\ SumOn(f, T) \in Int
                            /\ \A x \in T : SumOn(f, T) = f[x] + SumOn(f, T \ {x})
  BY <1>7
<1>2. /\ SumOn(g, {}) = 0
      /\ \A T \in SUBSET S : /\ SumOn(g, T) \in Int
                            /\ \A x \in T : SumOn(g, T) = g[x] + SumOn(g, T \ {x})
  BY <1>7
<1>3. /\ SumOn(h, {}) = 0
      /\ \A T \in SUBSET S : /\ SumOn(h, T) \in Int
                            /\ \A x \in T : SumOn(h, T) = h[x] + SumOn(h, T \ {x})
  BY <1>7
<1>4. ASSUME NEW T \in SUBSET S, \A y \in T : T \ {y} \in P PROVE T \in P
  <2>1. CASE T = {}
    <3>1. a * 0 + b * 0 = 0
      OBVIOUS
    <3> QED BY <1>1, <1>2, <1>3, <2>1, <3>1
  <2>2. CASE T # {}
    <3>1. PICK x : x \in T
      BY <2>2
    <3> DEFINE U == T \ {x}
    <3>2. U \in SUBSET S /\ U \in P
      BY <1>4, <3>1
    <3>3. /\ SumOn(f, T) = f[x] + SumOn(f, U) /\ SumOn(g, T) = g[x] + SumOn(g, U)
          /\ SumOn(h, T) = h[x] + SumOn(h, U)
      BY <1>1, <1>2, <1>3, <3>1
    <3>4. SumOn(h, U) = a * SumOn(f, U) + b * SumOn(g, U)
      BY <3>2
    <3>5. f[x] \in Int /\ g[x] \in Int /\ h[x] = a * f[x] + b * g[x]
      BY <1>0, <3>1
    <3>6. SumOn(f, U) \in Int /\ SumOn(g, U) \in Int
      BY <1>1, <1>2, <3>2
    <3> HIDE DEF U
    <3>7. \A k, l, m, n \in Int : a * (k + l) + b * (m + n) = (a * k + b * m) + (a * l + b * n)
      OBVIOUS
    <3>8. SumOn(h, T) = a * SumOn(f, T) + b * SumOn(g, T)
      BY <3>3, <3>4, <3>5, <3>6, <3>7
    <3> QED BY <3>8
  <2> QED BY <2>1, <2>2
<1> HIDE DEF P
<1>5. \A T \in SUBSET S : T \in P
  BY <1>4, BySize
<1>8. SumOn(h, S) = a * SumOn(f, S) + b * SumOn(g, S)
  BY <1>5 DEF P
<1> QED BY <1>8 DEF Combined

LEMMA SumMonotone ==
  ASSUME NEW S, IsFiniteSet(S), NEW f, NEW g,
         \A x \in S : f[x] \in Int /\ g[x] \in Int /\ f[x] <= g[x]
  PROVE  \A T \in SUBSET S : SumOn(f, T) <= SumOn(g, T)
<1> DEFINE P == {T \in SUBSET S : SumOn(f, T) <= SumOn(g, T)}
<1>1. /\ SumOn(f, {}) = 0
      /\ \A T \in SUBSET S : /\ SumOn(f, T) \in Int
                            /\ \A x \in T : SumOn(f, T) = f[x] + SumOn(f, T \ {x})
  BY SumIs
<1>2. /\ SumOn(g, {}) = 0
      /\ \A T \in SUBSET S : /\ SumOn(g, T) \in Int
                            /\ \A x \in T : SumOn(g, T) = g[x] + SumOn(g, T \ {x})
  BY SumIs
<1>3. ASSUME NEW T \in SUBSET S, \A y \in T : T \ {y} \in P PROVE T \in P
  <2>1. CASE T = {}
    BY <1>1, <1>2, <2>1
  <2>2. CASE T # {}
    <3>1. PICK x : x \in T
      BY <2>2
    <3> DEFINE U == T \ {x}
    <3>2. U \in SUBSET S /\ U \in P
      BY <1>3, <3>1
    <3>3. SumOn(f, T) = f[x] + SumOn(f, U) /\ SumOn(g, T) = g[x] + SumOn(g, U)
      BY <1>1, <1>2, <3>1
    <3>4. SumOn(f, U) \in Int /\ SumOn(g, U) \in Int /\ SumOn(f, U) <= SumOn(g, U)
      BY <1>1, <1>2, <3>2
    <3>5. f[x] \in Int /\ g[x] \in Int /\ f[x] <= g[x]
      BY <3>1
    <3> HIDE DEF U
    <3> QED BY <3>3, <3>4, <3>5
  <2> QED BY <2>1, <2>2
<1> HIDE DEF P
<1>4. \A T \in SUBSET S : T \in P
  BY <1>3, BySize
<1> QED BY <1>4 DEF P

\* Zeros do not count.
LEMMA SumOfRest ==
  ASSUME NEW S, IsFiniteSet(S), NEW f, \A x \in S : f[x] \in Int,
         NEW R \in SUBSET S, \A x \in S \ R : f[x] = 0
  PROVE  SumOn(f, S) = SumOn(f, R)
<1> DEFINE P == {T \in SUBSET S : SumOn(f, T) = SumOn(f, T \cap R)}
<1>1. \A T \in SUBSET S : /\ SumOn(f, T) \in Int
                         /\ \A x \in T : SumOn(f, T) = f[x] + SumOn(f, T \ {x})
  BY SumIs
<1>2. ASSUME NEW T \in SUBSET S, \A y \in T : T \ {y} \in P PROVE T \in P
  <2>1. CASE T = {}
    <3>1. T \cap R = T
      BY <2>1
    <3> QED BY <3>1
  <2>2. CASE T # {}
    <3>1. PICK x : x \in T
      BY <2>2
    <3> DEFINE U == T \ {x}
    <3>2. U \in SUBSET S /\ SumOn(f, U) = SumOn(f, U \cap R)
      BY <1>2, <3>1
    <3>3. SumOn(f, T) = f[x] + SumOn(f, U) /\ f[x] \in Int /\ SumOn(f, U) \in Int
      BY <1>1, <3>1
    <3>4. CASE x \in R
      <4>1. x \in T \cap R /\ (T \cap R) \ {x} = U \cap R /\ T \cap R \in SUBSET S
        BY <3>1, <3>4
      <4>2. SumOn(f, T \cap R) = f[x] + SumOn(f, (T \cap R) \ {x})
        BY <1>1, <4>1
      <4> QED BY <3>2, <3>3, <4>1, <4>2
    <3>5. CASE x \notin R
      <4>1. f[x] = 0 /\ T \cap R = U \cap R
        BY <3>1, <3>5
      <4>2. SumOn(f, T) = SumOn(f, U)
        BY <3>3, <4>1
      <4>3. SumOn(f, T) = SumOn(f, T \cap R)
        BY <3>2, <4>1, <4>2
      <4> QED BY <4>3
    <3> QED BY <3>4, <3>5
  <2> QED BY <2>1, <2>2
<1> HIDE DEF P
<1>3. S \in P
  <2>1. \A T \in SUBSET S : T \in P
    BY <1>2, BySize
  <2> QED BY <2>1
<1>4. SumOn(f, S) = SumOn(f, S \cap R)
  BY <1>3 DEF P
<1>5. S \cap R = R
  OBVIOUS
<1> QED BY <1>4, <1>5

\* A sum depends on what it sums.
LEMMA SumSame ==
  ASSUME NEW S, IsFiniteSet(S), NEW f, NEW g, \A x \in S : f[x] \in Int /\ f[x] = g[x]
  PROVE  SumOn(f, S) = SumOn(g, S) /\ SumOn(f, S) \in Int
<1>1. SumOn(f, S) \in Int /\ SumOn(g, S) \in Int
  <2>1. \A x \in S : g[x] \in Int
    OBVIOUS
  <2> QED BY <2>1, SumType
<1>2. SumOn(f, S) <= SumOn(g, S)
  <2>1. \A x \in S : f[x] \in Int /\ g[x] \in Int /\ f[x] <= g[x]
    OBVIOUS
  <2> QED BY <2>1, SumMonotone
<1>3. SumOn(g, S) <= SumOn(f, S)
  <2>1. \A x \in S : g[x] \in Int /\ f[x] \in Int /\ g[x] <= f[x]
    OBVIOUS
  <2> QED BY <2>1, SumMonotone
<1> QED BY <1>1, <1>2, <1>3

\* A sum is one entry and the sum over the rest.
LEMMA SumTakes ==
  ASSUME NEW S, IsFiniteSet(S), NEW f, \A x \in S : f[x] \in Int, NEW y \in S
  PROVE  SumOn(f, S) = f[y] + SumOn(f, S \ {y})
<1>1. /\ SumOn(f, {}) = 0
      /\ \A T \in SUBSET S : /\ SumOn(f, T) \in Int
                            /\ \A x \in T : SumOn(f, T) = f[x] + SumOn(f, T \ {x})
  BY SumIs
<1>2. S \in SUBSET S
  OBVIOUS
<1> QED BY <1>1, <1>2
================================================================================
