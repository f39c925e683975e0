--------------------------- MODULE PNPServerProof ---------------------------
(***************************************************************************)
(* Proofs about PNPServer, for any set of requests, limit, durations and   *)
(* any number of clients.                                                  *)
(*                                                                         *)
(* IInv adds to the types what a handler still knows when it writes: the   *)
(* row it read, if it is still there, is its own key's.  A row keeps the   *)
(* request that made it and that request's key; this is all the protection *)
(* a row has, as the check and the write are not one transaction.  And it  *)
(* says that the names of an IPv4 address are all of the row the address   *)
(* has now, which is what its limit rests on.                              *)
(***************************************************************************)
EXTENDS PNPServer, FiniteSetTheorems, TLAPS

Rows == Row \cup {[key |-> None]}

\* The row of a name belongs to the key of the request that made it.
Made == \A n \in Name : Exists(n) => names[n].id.key = names[n].key

\* A handler on its way to a write was let through by the row it saw.
LetThrough ==
  \A r \in Request : \A s \in saw[r] :
    phase[r] \in {"delete", "prune", "write"} => s.key = r.key

\* The row of an IPv4 address is not deleted while names refer to it.
OneRow ==
  \A n \in Name : (Exists(n) /\ names[n].ip \notin V6) =>
                     names[n].at = ips[names[n].ip]

IInv == TypeOK /\ Made /\ LetThrough /\ OneRow

-----------------------------------------------------------------------------
(* The operators the actions are made of. *)
LEMMA UsedNat ==
  ASSUME NEW ip  PROVE Used(ip) \in Nat
<1>1. IsFiniteSet({n \in Name : /\ Exists(n) /\ names[n].ip = ip
                                /\ names[n].at = ips[ip]})
  BY PNPAssumption, FS_Subset
<1> QED BY <1>1, FS_CardinalityType DEF Used

\* The penalty is between 0 and MaxPenalty.
LEMMA PenaltyBounded ==
  ASSUME NEW used \in Nat, NEW limit \in Nat \ {0}  PROVE Penalty(used, limit) \in Age
<1> DEFINE share == (used * MinNameDuration + limit - 1) \div limit + 1
<1>1. used * MinNameDuration \in Nat
  BY PNPAssumption
<1>2. used * MinNameDuration + limit - 1 \in Nat
  BY <1>1
<1>3. \A m \in Nat : m \div limit \in Nat
  OBVIOUS
<1>4. share \in Nat
  BY <1>2, <1>3
<1> HIDE DEF share
<1>5. Penalty(used, limit) = IF used = 0 THEN 0
        ELSE IF share < MinNameDuration - MinLife THEN share
        ELSE MinNameDuration - MinLife
  BY DEF Penalty, share
<1> QED BY <1>4, <1>5, PNPAssumption DEF Age, MaxPenalty

LEMMA RequestFields ==
  ASSUME NEW r \in Request
  PROVE  /\ r.name \in Name /\ r.key \in Key /\ r.value \in Value
         /\ r.updated \in Nat /\ r.updated \in Time /\ r.ip \in Ip
BY PNPAssumption DEF Time

\* A row that exists has the fields of a row.
LEMMA RowFields ==
  ASSUME TypeOK, NEW n \in Name, Exists(n)
  PROVE  /\ names[n] \in Row
         /\ names[n].key \in Key /\ names[n].ip \in Ip /\ names[n].time \in Int
         /\ names[n].at \in Time
         /\ names[n].signed \in Time /\ names[n].id \in Request
         /\ names[n].signed - names[n].time \in Age
BY DEF TypeOK, Row, Exists

-----------------------------------------------------------------------------
LEMMA InitInv == Init => IInv
BY PNPAssumption DEF Init, IInv, TypeOK, Made, LetThrough, OneRow, Exists, Time

LEMMA NextInv == IInv /\ [Next]_vars => IInv'
<1> SUFFICES ASSUME IInv, [Next]_vars PROVE IInv'
  OBVIOUS
<1> USE DEF IInv
<1>1. ASSUME NEW r \in Request, Receive(r) PROVE IInv'
  <2>1. TypeOK'
    BY <1>1, RequestFields, RowFields DEF TypeOK, Receive, Goto, Exists
  <2>2. Made' /\ OneRow'
    BY <1>1 DEF Made, OneRow, Receive, Exists
  <2>3. LetThrough'
    BY <1>1, RequestFields DEF LetThrough, Receive, Goto, Exists, Made, TypeOK
  <2> QED BY <2>1, <2>2, <2>3
<1>2. ASSUME NEW r \in Request, DeleteName(r) PROVE IInv'
  <2>1. TypeOK'
    BY <1>2, RequestFields DEF TypeOK, DeleteName, Goto, Exists
  <2>2. Made' /\ OneRow'
    BY <1>2, RequestFields DEF Made, OneRow, DeleteName, Exists, TypeOK
  <2>3. LetThrough'
    BY <1>2 DEF LetThrough, DeleteName, Goto, TypeOK
  <2> QED BY <2>1, <2>2, <2>3
<1>3. ASSUME NEW r \in Request, Prune(r) PROVE IInv'
  <2>0. \A n \in Name : Exists(n)' => Exists(n) /\ names'[n] = names[n]
    BY <1>3 DEF Prune, Exists, TypeOK
  <2>1. TypeOK'
    <3>1. ips' \in [Ip -> Time \cup {NoRow}]
      BY <1>3 DEF TypeOK, Prune
    <3>2. names' \in [Name -> Row \cup {[key |-> None]}]
      BY <1>3 DEF TypeOK, Prune
    <3> QED BY <1>3, <2>0, <3>1, <3>2 DEF TypeOK, Prune, Goto
  <2>2. Made'
    BY <2>0 DEF Made
  <2>3. LetThrough'
    BY <1>3 DEF LetThrough, Prune, Goto, TypeOK
  <2>4. OneRow'
    <3> SUFFICES ASSUME NEW n \in Name, Exists(n)', names'[n].ip \notin V6
                 PROVE  names'[n].at = ips'[names'[n].ip]
      BY DEF OneRow
    <3> DEFINE p == names[n].ip
    <3>1. names'[n].ip = p /\ p \in Ip /\ p \notin V6 /\ names'[n].at = ips[p]
      BY <2>0, RowFields DEF OneRow
    <3>2. ips'[p] = ips[p]
      BY <1>3, <3>1 DEF Prune
    <3> QED BY <3>1, <3>2
  <2> QED BY <2>1, <2>2, <2>3, <2>4
<1>4. ASSUME NEW r \in Request, Write(r) PROVE IInv'
  <2> DEFINE row == names[r.name]
             at == RecordIp(r.ip)
             pen == Penalty(Used(r.ip), NameLimit(r.ip))
             updatedRow == [key |-> row.key, value |-> r.value, ip |-> r.ip,
                            at |-> at, time |-> r.updated - pen,
                            signed |-> r.updated, id |-> row.id]
             newRow == [key |-> r.key, value |-> r.value, ip |-> r.ip, at |-> at,
                        time |-> r.updated, signed |-> r.updated, id |-> r]
  <2>0. pen \in Age
    BY UsedNat, PenaltyBounded, PNPAssumption DEF NameLimit
  <2>a. /\ at \in Time /\ (ips[r.ip] # NoRow => at = ips[r.ip])
    BY RequestFields DEF RecordIp, TypeOK
  <2> HIDE DEF pen, at
  <2>1. LetThrough'
    BY <1>4 DEF LetThrough, Write, Goto, TypeOK
  <2> DEFINE Updates == /\ Exists(r.name)
                        /\ names' = [names EXCEPT ![r.name] = updatedRow]
                        /\ ips' = [ips EXCEPT ![r.ip] = at]
                        /\ phase' = [phase EXCEPT ![r] = "done"]
             Makes == /\ ~Exists(r.name)
                      /\ names' = [names EXCEPT ![r.name] = newRow]
                      /\ ips' = [ips EXCEPT ![r.ip] = at]
                      /\ phase' = [phase EXCEPT ![r] = "done"]
             Refuses == /\ UNCHANGED <<names, ips>>
                        /\ phase' = [phase EXCEPT ![r] = "refused"]
  <2>2. ASSUME NEW new \in {updatedRow, newRow},
               names' = [names EXCEPT ![r.name] = new],
               ips' = [ips EXCEPT ![r.ip] = at]
        PROVE  OneRow'
    <3> SUFFICES ASSUME NEW n \in Name, Exists(n)', names'[n].ip \notin V6
                 PROVE  names'[n].at = ips'[names'[n].ip]
      BY DEF OneRow
    <3>1. CASE n = r.name
      BY <2>2, <3>1, RequestFields DEF TypeOK
    <3>2. CASE n # r.name
      <4>1. names'[n] = names[n] /\ Exists(n) /\ names[n].at = ips[names[n].ip]
        BY <2>2, <3>2 DEF OneRow, Exists, TypeOK
      <4>2. names[n].ip \in Ip /\ names[n].at \in Time
        BY <4>1, RowFields
      <4>3. names[n].at # NoRow
        BY <4>2, PNPAssumption DEF Time, NoRow
      <4> QED BY <2>a, <2>2, <4>1, <4>2, <4>3, RequestFields DEF TypeOK
    <3> QED BY <3>1, <3>2
  <2>3. CASE Updates
    <3>1. updatedRow \in Row /\ updatedRow.signed - updatedRow.time = pen
      BY <2>0, <2>a, <2>3, RequestFields, RowFields, PNPAssumption
         DEF Row, Age, Time, MaxPenalty
    <3>2. TypeOK'
      BY <1>4, <2>0, <2>a, <2>3, <3>1, RequestFields DEF TypeOK, Write, Exists
    <3>3. Made'
      BY <2>3, RequestFields DEF Made, Exists, TypeOK
    <3> QED BY <2>1, <2>2, <2>3, <3>2, <3>3
  <2>4. CASE Makes
    <3>1. newRow \in Row /\ newRow.signed - newRow.time = 0 /\ 0 \in Age
      BY <2>a, RequestFields, PNPAssumption DEF Row, Age, Time, MaxPenalty
    <3>2. TypeOK'
      BY <1>4, <2>a, <2>4, <3>1, RequestFields DEF TypeOK, Write, Exists
    <3>3. Made'
      BY <2>4, RequestFields DEF Made, Exists, TypeOK
    <3> QED BY <2>1, <2>2, <2>4, <3>2, <3>3
  <2>5. CASE Refuses
    BY <1>4, <2>1, <2>5 DEF TypeOK, Made, OneRow, Write, Exists
  <2> QED
    <3>1. Updates \/ Makes \/ Refuses
      BY <1>4 DEF Write, Goto, pen, at
    <3> QED BY <2>3, <2>4, <2>5, <3>1
<1>5. ASSUME NEW r \in Request, Rollback(r) PROVE IInv'
  <2>1. TypeOK'
    BY <1>5 DEF TypeOK, Rollback, Goto, Exists
  <2>2. Made' /\ LetThrough' /\ OneRow'
    BY <1>5 DEF Made, LetThrough, OneRow, Rollback, Goto, Exists, TypeOK
  <2> QED BY <2>1, <2>2
<1>6. CASE Tick
  BY <1>6, PNPAssumption DEF Tick, TypeOK, Made, LetThrough, OneRow, Exists, Time
<1>7. CASE UNCHANGED vars
  BY <1>7 DEF vars, TypeOK, Made, LetThrough, OneRow, Exists
<1> QED BY <1>1, <1>2, <1>3, <1>4, <1>5, <1>6, <1>7 DEF Next

LEMMA Invariance == Spec => []IInv
<1> QED BY InitInv, NextInv, PTL DEF Spec

\* The types of the variables, and the bound of the penalty: the time in a
\* row is never more than MaxPenalty before the time it was signed.
THEOREM TypeCorrect == Spec => []TypeOK
<1>1. IInv => TypeOK
  BY DEF IInv
<1> QED BY <1>1, Invariance, PTL

-----------------------------------------------------------------------------
\* A write changes a row its handler saw only for the key of that row.
THEOREM OwnersOnly == Spec => OwnersUpdate
<1> DEFINE Good(r, n) ==
      /\ phase[r] = "write" /\ phase'[r] = "done"
      /\ Exists(n) /\ n = r.name /\ names[n].id \in saw[r]
      => r.key = names[n].key
<1>1. IInv /\ [Next]_vars => [\A r \in Request, n \in Name : Good(r, n)]_vars
  <2> SUFFICES ASSUME IInv, NEW r \in Request, NEW n \in Name,
                      phase[r] = "write", Exists(n), names[n].id \in saw[r]
               PROVE  r.key = names[n].key
    OBVIOUS
  <2>1. names[n].id.key = r.key
    BY DEF IInv, LetThrough
  <2>2. names[n].id.key = names[n].key
    BY DEF IInv, Made
  <2> QED BY <2>1, <2>2
<1> QED BY <1>1, Invariance, PTL DEF Spec, OwnersUpdate

\* Only a request to delete it removes a name that was signed less than Life
\* ago; Life is the server's duration less the penalty of the module, and is
\* MinLife where the two durations agree.
THEOREM NamesLive ==
  /\ Spec => WrittenNamesLive
  /\ Duration = MinNameDuration => Life = MinLife
<1> DEFINE Good(n) ==
      (Exists(n) /\ ~Exists(n)' /\ now - names[n].signed < Life)
        => \E r \in Request : /\ phase[r] = "delete" /\ phase'[r] = "done"
                             /\ r.name = n
<1>1. IInv /\ [Next]_vars => [\A n \in Name : Good(n)]_vars
  <2> SUFFICES ASSUME IInv, [Next]_vars, NEW n \in Name,
                      Exists(n), ~Exists(n)', now - names[n].signed < Life
               PROVE  \E r \in Request : /\ phase[r] = "delete" /\ phase'[r] = "done"
                                        /\ r.name = n
    OBVIOUS
  <2> USE DEF IInv
  <2>1. names[n].signed \in Nat /\ names[n].time \in Int /\ now \in Nat
        /\ names[n].signed - names[n].time \in Age
    BY RowFields, PNPAssumption DEF Time, TypeOK
  <2>2. ASSUME NEW r \in Request, Receive(r) PROVE FALSE
    BY <2>2 DEF Receive, Exists
  <2>3. ASSUME NEW r \in Request, Rollback(r) PROVE FALSE
    BY <2>3 DEF Rollback, Exists
  <2>4. ASSUME NEW r \in Request, Prune(r) PROVE FALSE
    <3>1. now - names[n].time >= Duration
      BY <2>4 DEF Prune, Exists, TypeOK
    <3> QED BY <2>1, <3>1, PNPAssumption DEF Age, Life, MaxPenalty
  <2>5. ASSUME NEW r \in Request, Write(r) PROVE FALSE
    <3>1. r.name \in Name /\ r.key \in Key
      BY RequestFields
    <3>2. CASE n # r.name
      BY <2>5, <3>1, <3>2 DEF Write, Exists, TypeOK
    <3>3. CASE n = r.name
      <4>1. names[n].key # None
        BY RowFields, PNPAssumption
      <4>2. names'[n] = names[n] \/ names'[n].key = names[n].key
        BY <2>5, <3>1, <3>3 DEF Write, TypeOK
      <4>3. names'[n].key # None
        BY <4>1, <4>2
      <4> QED BY <4>3 DEF Exists
    <3> QED BY <3>2, <3>3
  <2>6. ASSUME NEW r \in Request, DeleteName(r)
        PROVE  phase[r] = "delete" /\ phase'[r] = "done" /\ r.name = n
    BY <2>6, RequestFields DEF DeleteName, Goto, Exists, TypeOK
  <2>7. CASE Tick \/ UNCHANGED vars
    BY <2>7 DEF Tick, vars, Exists
  <2> QED BY <2>2, <2>3, <2>4, <2>5, <2>6, <2>7 DEF Next
<1>2. Duration = MinNameDuration => Life = MinLife
  BY PNPAssumption DEF Life, MaxPenalty
<1>3. Spec => WrittenNamesLive
  BY <1>1, Invariance, PTL DEF Spec, WrittenNamesLive
<1> QED BY <1>2, <1>3

\* A name is made only at an address with room for it, however many handlers
\* are on the way: the count and the insertion are one transaction, and the
\* names of an IPv4 address are those of its row.  Of an IPv6 address, the
\* names of the row it has now count.
THEOREM LimitKept == Spec => InsertsWithinLimit
<1> DEFINE Good(n) ==
      (~Exists(n) /\ Exists(n)') =>
         LET ip == names'[n].ip IN
         IF ip \in V6 THEN Used(ip) < V6Limit ELSE Held(ip) < V4Limit
<1>1. IInv /\ [Next]_vars => [\A n \in Name : Good(n)]_vars
  <2> SUFFICES ASSUME IInv, [Next]_vars, NEW n \in Name, ~Exists(n), Exists(n)'
               PROVE  Good(n)
    OBVIOUS
  <2> USE DEF IInv
  <2>1. ASSUME NEW r \in Request, \/ Receive(r) \/ Rollback(r) \/ DeleteName(r)
                                  \/ Prune(r)
        PROVE  FALSE
    BY <2>1 DEF Receive, Rollback, DeleteName, Prune, Exists, TypeOK
  <2>2. ASSUME NEW r \in Request, Write(r) PROVE Good(n)
    <3>1. r.name = n /\ MayInsert(r.ip) /\ names'[n].ip = r.ip
      BY <2>2, RequestFields DEF Write, Exists, TypeOK
    <3>2. CASE r.ip \in V6
      BY <3>1, <3>2 DEF MayInsert, NameLimit
    <3>3. CASE r.ip \notin V6
      <4>1. Used(r.ip) = Held(r.ip)
        BY <3>3 DEF Used, Held, OneRow
      <4> QED BY <3>1, <3>3, <4>1 DEF MayInsert, NameLimit
    <3> QED BY <3>2, <3>3
  <2>3. CASE Tick \/ UNCHANGED vars
    BY <2>3 DEF Tick, vars, Exists
  <2> QED BY <2>1, <2>2, <2>3 DEF Next
<1> QED BY <1>1, Invariance, PTL DEF Spec, InsertsWithinLimit
=============================================================================
