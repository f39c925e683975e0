--------------------------- MODULE TcpServerProof ---------------------------
(***************************************************************************)
(* Proofs about TcpServer, for any clients and tasks, and however often the*)
(* server is awaited and closed.                                           *)
(*                                                                         *)
(* IInv adds to the types that only the entry the next client takes may be *)
(* free, that a connected client stands in its own entry unless a waiter   *)
(* had cancelled it, and that close can find every client.                 *)
(***************************************************************************)
EXTENDS TcpServer, TLAPS

\* The last entry is the next client's, and no other one is pending.
NextFree ==
  /\ future[insert] \in {"pending", "cancelled"}
  /\ \A c \in Client : life[c] = "up" =>
       entry[c] < insert /\ future[entry[c]] \in {c, "cancelled"}

\* The clients of an open server are listed.
Listed == ~closed => \A c \in Client : life[c] = "up" => c \in listed

IInv == TypeOK /\ NextFree /\ Listed /\ ClosedEndsClients /\ NobodyPassedOver

-----------------------------------------------------------------------------
\* The pointer of a table of n + 1 entries moves to the next, or back to 0.
LEMMA NextIndex ==
  ASSUME NEW n \in Nat, NEW g \in 0 .. n
  PROVE  (g + 1) % (n + 1) = IF g = n THEN 0 ELSE g + 1
<1>1. CASE g = n
  BY <1>1
<1>2. CASE g # n
  <2>1. g + 1 \in 0 .. n
    BY <1>2
  <2> QED BY <1>2, <2>1
<1> QED BY <1>1, <1>2

LEMMA InitHolds == Init => IInv
<1> SUFFICES ASSUME Init PROVE IInv
  OBVIOUS
<1>1. closed \in BOOLEAN
  BY DEF Init
<1>2. TypeOK
  BY <1>1, ServerAssumption DEF Init, TypeOK
<1>3. NextFree /\ Listed /\ ClosedEndsClients /\ NobodyPassedOver
  BY DEF Init, NextFree, Listed, ClosedEndsClients, NobodyPassedOver
<1> QED BY <1>2, <1>3 DEF IInv

-----------------------------------------------------------------------------
LEMMA MadeStep ==
  ASSUME IInv, NEW c \in Client, ConnectionMade(c)
  PROVE  IInv'
<1> USE DEF IInv, TypeOK
<1>1. /\ life' = [life EXCEPT ![c] = "up"] /\ entry' = [entry EXCEPT ![c] = insert]
      /\ insert' = insert + 1 /\ table' = table \cup {insert + 1}
      /\ listed' = listed \cup {c} /\ UNCHANGED <<waiters, server>>
      /\ late' = IF closed THEN late \cup {c} ELSE late
  BY DEF ConnectionMade, SetLife
<1>2. /\ future' \in [0 .. insert' -> {"pending", "cancelled"} \cup Client]
      /\ future'[insert + 1] = "pending" /\ future'[insert] \in {c, "cancelled"}
      /\ \A k \in 0 .. insert : k # insert => future'[k] = future[k]
  BY <1>1 DEF ConnectionMade, NextFree, Done
<1>3. insert' \in Nat /\ get' \in 0 .. insert' /\ table' \subseteq 0 .. insert'
  BY <1>1 DEF waiters
<1>4. TypeOK'
  <2>1. closed' \in BOOLEAN
    BY <1>1 DEF server
  <2> QED BY <1>1, <1>2, <1>3, <2>1 DEF waiters, server
<1>5. NextFree'
  <2>1. future'[insert'] \in {"pending", "cancelled"}
    BY <1>1, <1>2
  <2>2. ASSUME NEW d \in Client, life'[d] = "up"
        PROVE  entry'[d] < insert' /\ future'[entry'[d]] \in {d, "cancelled"}
    <3>1. CASE d = c
      BY <1>1, <1>2, <3>1
    <3>2. CASE d # c
      <4>1. life[d] = "up" /\ entry'[d] = entry[d]
        BY <1>1, <2>2, <3>2
      <4>2. entry[d] < insert /\ future[entry[d]] \in {d, "cancelled"} /\ entry[d] \in Nat
        BY <4>1 DEF NextFree
      <4> QED BY <1>1, <1>2, <4>1, <4>2
    <3> QED BY <3>1, <3>2
  <2> QED BY <2>1, <2>2 DEF NextFree
<1>6. Listed' /\ ClosedEndsClients'
  BY <1>1 DEF Listed, ClosedEndsClients, server
<1>7. NobodyPassedOver'
  <2> SUFFICES ASSUME NEW d \in Client, life'[d] = "up", entry'[d] < get'
               PROVE  d \in returned' \/ future'[entry'[d]] = "cancelled"
    BY DEF NobodyPassedOver
  <2>1. d # c /\ life[d] = "up" /\ entry'[d] = entry[d] /\ entry[d] < get
    BY <1>1 DEF waiters
  <2>2. entry[d] \in Nat /\ entry[d] < insert
    BY <2>1
  <2>3. future'[entry[d]] = future[entry[d]]
    BY <1>2, <2>2
  <2> QED BY <1>1, <2>1, <2>3 DEF NobodyPassedOver, waiters
<1> QED BY <1>4, <1>5, <1>6, <1>7

LEMMA ClientStep ==
  ASSUME IInv, NEW c \in Client,
         Connect(c) \/ MadeFails(c) \/ ConnectionEnds(c) \/ ConnectionLost(c)
  PROVE  IInv'
<1> USE DEF IInv, TypeOK
<1>1. /\ UNCHANGED <<entry, insert, future, late, waiters, server>>
      /\ table' \subseteq table /\ listed' \in {listed, listed \ {c}}
      /\ \A d \in Client : life'[d] = "up" => d # c /\ life[d] = "up"
      /\ life' \in [Client -> {"new", "accepted", "up", "closing", "lost"}]
  BY DEF Connect, MadeFails, ConnectionEnds, ConnectionLost, SetLife
<1>2. TypeOK'
  BY <1>1 DEF waiters, server
<1>3. NextFree' /\ NobodyPassedOver'
  BY <1>1 DEF NextFree, NobodyPassedOver, waiters
<1>4. Listed' /\ ClosedEndsClients'
  BY <1>1 DEF Listed, ClosedEndsClients, server
<1> QED BY <1>2, <1>3, <1>4

-----------------------------------------------------------------------------
LEMMA AcceptStep ==
  ASSUME IInv, NEW w \in Waiter, Accept(w)
  PROVE  IInv'
<1> USE DEF IInv, TypeOK
<1>1. UNCHANGED <<clients, server>>
  BY DEF Accept
<1>2. accepts' \in 0 .. MaxAccepts
  BY ServerAssumption DEF Accept
<1>3. get' \in 0 .. insert
  BY NextIndex DEF Accept
<1>4. waiter' \in [Waiter -> {"idle", "wait", "client", "cancelled", "missing"}]
  BY DEF Accept, Resume
<1>5. returned \subseteq returned' /\ returned' \subseteq Client
  BY DEF Accept, Resume, Done
<1>6. on' \in [Waiter -> Nat] /\ \A v \in Waiter : on'[v] <= insert
  <2>1. on' = on \/ on' = [on EXCEPT ![w] = get]
    BY DEF Accept
  <2>2. get \in Nat /\ get <= insert
    OBVIOUS
  <2> QED BY <2>1, <2>2
<1>7. TypeOK'
  BY <1>1, <1>2, <1>3, <1>4, <1>5, <1>6 DEF clients, server
<1>8. NextFree' /\ Listed' /\ ClosedEndsClients'
  BY <1>1 DEF NextFree, Listed, ClosedEndsClients, clients, server
<1>9. NobodyPassedOver'
  <2> SUFFICES ASSUME NEW c \in Client, life[c] = "up", entry[c] < get'
               PROVE  c \in returned' \/ future[entry[c]] = "cancelled"
    BY <1>1 DEF NobodyPassedOver, clients
  <2>1. CASE entry[c] < get
    BY <1>5, <2>1 DEF NobodyPassedOver
  <2>2. CASE ~(entry[c] < get)
    <3>1. get' # get /\ Done(get) /\ get' = (get + 1) % (insert + 1) /\ Resume(w, get)
      BY <2>2 DEF Accept
    <3>2. entry[c] = get
      <4>1. get' = IF get = insert THEN 0 ELSE get + 1
        BY <3>1, NextIndex
      <4>2. entry[c] \in Nat /\ get \in Nat
        OBVIOUS
      <4> QED BY <2>2, <4>1, <4>2
    <3>3. future[get] \in {c, "cancelled"}
      BY <3>2 DEF NextFree
    <3> QED BY <3>1, <3>2, <3>3 DEF Resume
  <2> QED BY <2>1, <2>2
<1> QED BY <1>7, <1>8, <1>9

LEMMA WakeStep ==
  ASSUME IInv, NEW w \in Waiter, Wake(w)
  PROVE  IInv'
<1> USE DEF IInv, TypeOK
<1>1. UNCHANGED <<get, on, accepts, clients, server>>
  BY DEF Wake
<1>2. /\ waiter' \in [Waiter -> {"idle", "wait", "client", "cancelled", "missing"}]
      /\ returned \subseteq returned' /\ returned' \subseteq Client
  BY DEF Wake, Resume, Done
<1>3. TypeOK'
  BY <1>1, <1>2 DEF clients, server
<1>4. NextFree' /\ Listed' /\ ClosedEndsClients' /\ NobodyPassedOver'
  BY <1>1, <1>2 DEF NextFree, Listed, ClosedEndsClients, NobodyPassedOver, clients, server
<1> QED BY <1>3, <1>4

LEMMA GiveUpStep ==
  ASSUME IInv, NEW w \in Waiter, GiveUp(w)
  PROVE  IInv'
<1> USE DEF IInv, TypeOK
<1>1. /\ UNCHANGED <<get, on, accepts, returned, life, entry, insert, table,
                     listed, late, server>>
      /\ waiter' \in [Waiter -> {"idle", "wait", "client", "cancelled", "missing"}]
  BY DEF GiveUp
<1>2. /\ future' \in [0 .. insert -> {"pending", "cancelled"} \cup Client]
      /\ \A k \in 0 .. insert : future'[k] \in {future[k], "cancelled"}
  BY DEF GiveUp
<1>3. TypeOK'
  BY <1>1, <1>2 DEF server
<1>4. NextFree'
  BY <1>1, <1>2 DEF NextFree
<1>5. Listed' /\ ClosedEndsClients'
  BY <1>1 DEF Listed, ClosedEndsClients, server
<1>6. NobodyPassedOver'
  BY <1>1, <1>2 DEF NobodyPassedOver, NextFree
<1> QED BY <1>3, <1>4, <1>5, <1>6

-----------------------------------------------------------------------------
LEMMA CloseStep ==
  ASSUME IInv, Close \/ CloseRuns
  PROVE  IInv'
<1> USE DEF IInv, TypeOK
<1>1. CASE Close
  <2>1. TypeOK'
    BY <1>1, ServerAssumption DEF Close, clients, waiters
  <2>2. NextFree' /\ Listed' /\ ClosedEndsClients' /\ NobodyPassedOver'
    BY <1>1 DEF Close, NextFree, Listed, ClosedEndsClients, NobodyPassedOver,
                clients, waiters
  <2> QED BY <2>1, <2>2
<1>2. CASE CloseRuns
  <2>1. /\ UNCHANGED <<closes, entry, insert, future, table, late, waiters>>
        /\ closed' = TRUE /\ listed' = {}
        /\ life' \in [Client -> {"new", "accepted", "up", "closing", "lost"}]
        /\ \A c \in Client : life'[c] = "up" => life[c] = "up" /\ c \notin listed
    BY <1>2 DEF CloseRuns
  <2>2. closing' \in 0 .. closes
    BY <1>2 DEF CloseRuns
  <2>3. TypeOK'
    BY <2>1, <2>2 DEF waiters
  <2>4. NextFree' /\ NobodyPassedOver'
    BY <2>1 DEF NextFree, NobodyPassedOver, waiters
  <2>5. Listed' /\ ClosedEndsClients'
    BY <2>1 DEF Listed, ClosedEndsClients
  <2> QED BY <2>3, <2>4, <2>5
<1> QED BY <1>1, <1>2

LEMMA Inductive == IInv /\ [Next]_vars => IInv'
<1> SUFFICES ASSUME IInv, [Next]_vars PROVE IInv'
  OBVIOUS
<1>1. CASE UNCHANGED vars
  BY <1>1 DEF IInv, TypeOK, NextFree, Listed, ClosedEndsClients, NobodyPassedOver,
              vars, clients, waiters, server
<1> QED
  BY <1>1, MadeStep, ClientStep, AcceptStep, WakeStep, GiveUpStep, CloseStep DEF Next

LEMMA Invariant == Spec => []IInv
BY InitHolds, Inductive, PTL DEF Spec

\* Every variable keeps its type; the pointer stays within the table.
THEOREM TypeCorrect == Spec => []TypeOK
<1>1. IInv => TypeOK
  BY DEF IInv
<1> QED BY Invariant, <1>1, PTL

\* For any number of clients, waiters that give up and calls of close: close
\* ends all clients that were made before it.
THEOREM CloseEndsClients == Spec => []ClosedEndsClients
<1>1. IInv => ClosedEndsClients
  BY DEF IInv
<1> QED BY Invariant, <1>1, PTL

\* The pointer passes no connected client over, for any number of them,
\* unless a waiter that gave up cancelled its future.
THEOREM NobodyIsPassedOver == Spec => []NobodyPassedOver
<1>1. IInv => NobodyPassedOver
  BY DEF IInv
<1> QED BY Invariant, <1>1, PTL
=============================================================================
