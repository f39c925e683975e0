----------------------------- MODULE ServicesProof ----------------------------
(***************************************************************************)
(* Proofs about the smaller parts around the node, part by part: the NAT test, *)
(* the REST API, the life of a node, nicknames, signalling, the TCP proxy and *)
(* the relay of a punched connection.                                      *)
(***************************************************************************)
EXTENDS NatTest, RestApi, NodeLife, Nickname, Signaling, ToxiTunnel, PunchChain,
        DataProof

-----------------------------------------------------------------------------
(***************************************************************************)
(* NatTest, for any set of STUN servers, any loss and any     *)
(* order of the replies.                                                   *)
(*                                                                         *)
(* The argument is about what has been contacted: no request ever goes to  *)
(* a secondary port, and none to a secondary IP before test 3, so a reply  *)
(* from there gets through only a NAT that does not ask for it.            *)
(***************************************************************************)

\* The tests whose requests have been sent.
Sent == sent = (IF sub = 1 THEN Tests(1) ELSE 1 .. 4) \X StunServer

\* What a blocked and a symmetric NAT show of themselves.
Shown ==
  /\ nat = BLOCKED_NAT => got = {}
  /\ nat = SYMMETRIC_NAT =>
       /\ \A t \in {1, 3} : \A m \in first[t] : m[2] = SendTo(t)
       /\ fallback = SYMMETRIC_NAT

Ended == (sub = 3) <=> (verdict # Unknown)

NatInv == NatTypeOK /\ (sub # 3 => Sent) /\ Shown /\ Ended /\ NeverEasier

-----------------------------------------------------------------------------
\* In the first sub-test only the primary addresses have been contacted, and
\* no secondary port ever is.
LEMMA ContactedAre ==
  ASSUME sub \in {1, 2}, Sent, NEW x \in Contacted
  PROVE  /\ x[2][2] = "primary"
         /\ sub = 1 => x[2][1] = "primary"
<1>1. PICK y \in sent : x = <<y[2], SendTo(y[1])>>
  BY DEF Contacted
<1>2. y[1] \in 1 .. 4 /\ (sub = 1 => y[1] \in {1, 2})
  BY DEF Sent, Tests
<1> QED BY <1>1, <1>2 DEF SendTo

\* A reply to a test of the sub-test that runs, by the NATs that let it in.
LEMMA ResultIs ==
  ASSUME NatInv, sub # 3, NEW t \in Tests(sub), NEW s \in StunServer,
         LetsIn(t, s), Result(t) # Unknown
  PROVE  Result(t) \in NatType /\ Result(t) >= nat
<1> USE DEF OPEN_INTERNET, FULL_CONE, RESTRICT_NAT, RESTRICT_PORT_NAT,
            SYMMETRIC_NAT, BLOCKED_NAT, NatType, Unknown
<1>1. Sent /\ sub \in {1, 2} /\ nat \in NatType
  BY DEF NatInv, NatTypeOK
<1>2. CASE sub = 1 /\ t = 2
  <2>1. \A port \in StunSide : <<s, <<"secondary", port>>>> \notin Contacted
    BY <1>1, <1>2, ContactedAre
  <2>2. ReplyFrom(t) = <<"secondary", "secondary">> /\ SendTo(t) = <<"primary", "primary">>
    BY <1>2 DEF ReplyFrom, SendTo
  <2>3. nat \in {OPEN_INTERNET, FULL_CONE}
    BY <2>1, <2>2 DEF LetsIn, StunSide
  <2> QED BY <1>2, <2>3 DEF Result
<1>3. CASE sub = 1 /\ t = 1
  BY <1>3 DEF Result
<1>4. CASE sub = 2 /\ t = 4
  <2>1. <<s, <<"secondary", "secondary">>>> \notin Contacted
    BY <1>1, ContactedAre
  <2>2. ReplyFrom(t) = <<"secondary", "secondary">> /\ SendTo(t) = <<"secondary", "primary">>
    BY <1>4 DEF ReplyFrom, SendTo
  <2>3. nat \in {OPEN_INTERNET, FULL_CONE, RESTRICT_NAT}
    BY <2>1, <2>2 DEF LetsIn
  <2> QED BY <1>4, <2>3 DEF Result
<1>5. CASE sub = 2 /\ t = 3
  BY <1>5 DEF Result
<1> QED BY <1>1, <1>2, <1>3, <1>4, <1>5 DEF Tests

-----------------------------------------------------------------------------
LEMMA NatInitHolds == NatInit => NatInv
<1> SUFFICES ASSUME NatInit PROVE NatInv
  OBVIOUS
<1> USE DEF NatInit
<1>1. NatTypeOK
  <2>1. missed \in BOOLEAN
    OBVIOUS
  <2> QED BY <2>1 DEF NatTypeOK, Tests, Unknown
<1>2. Sent /\ Shown /\ Ended /\ NeverEasier
  BY DEF Sent, Shown, Ended, NeverEasier, Tests
<1> QED BY <1>1, <1>2 DEF NatInv

LEMMA ReplyStep ==
  ASSUME NatInv, NEW t \in 1 .. 4, NEW s \in StunServer, Reply(t, s)
  PROVE  NatInv'
<1>1. /\ sub # 3 /\ <<t, s>> \in sent /\ LetsIn(t, s) /\ UNCHANGED <<nat, sent, missed>>
      /\ got' = got \cup {<<t, s>>}
      /\ first' = IF first[t] = {} THEN [first EXCEPT ![t] = {Mapping(t, s)}] ELSE first
      /\ fallback' = IF t = 3 /\ NonSymmetric(first') THEN RESTRICT_PORT_NAT ELSE fallback
  BY DEF Reply
<1>2. \/ /\ t \in Tests(sub) /\ Result(t) # Unknown
         /\ verdict' = Result(t) /\ sub' = 3
      \/ UNCHANGED <<verdict, sub>>
  BY DEF Reply
<1>3. verdict' # Unknown => sub' = 3 /\ verdict' \in NatType /\ verdict' >= nat
  BY <1>1, <1>2, ResultIs DEF NatInv, Ended
<1>4. NatTypeOK'
  <2>1. sub' \in 1 .. 3 /\ verdict' \in NatType \cup {Unknown}
    BY <1>2, <1>3 DEF NatInv, NatTypeOK
  <2>2. DOMAIN first' = 1 .. 4 /\ fallback' \in {SYMMETRIC_NAT, RESTRICT_PORT_NAT}
    BY <1>1 DEF NatInv, NatTypeOK
  <2> QED BY <1>1, <2>1, <2>2 DEF NatInv, NatTypeOK
<1>5. Shown'
  <2>1. nat # BLOCKED_NAT
    BY <1>1 DEF LetsIn, OPEN_INTERNET, FULL_CONE, RESTRICT_NAT, RESTRICT_PORT_NAT,
                SYMMETRIC_NAT, BLOCKED_NAT
  <2>2. ASSUME nat = SYMMETRIC_NAT
        PROVE  /\ \A u \in {1, 3} : \A m \in first'[u] : m[2] = SendTo(u)
               /\ fallback' = SYMMETRIC_NAT
    <3>1. Mapping(t, s)[2] = SendTo(t)
      BY <2>2 DEF Mapping
    <3>2. DOMAIN first = 1 .. 4 /\ \A u \in {1, 3} : \A m \in first[u] : m[2] = SendTo(u)
      BY <2>2 DEF NatInv, NatTypeOK, Shown
    <3>3. \A u \in {1, 3} : \A m \in first'[u] : m[2] = SendTo(u)
      BY <1>1, <3>1, <3>2
    <3>4. SendTo(1) # SendTo(3)
      BY DEF SendTo
    <3>5. ~NonSymmetric(first')
      BY <3>3, <3>4 DEF NonSymmetric
    <3> QED BY <1>1, <2>2, <3>3, <3>5 DEF NatInv, Shown
  <2> QED BY <1>1, <2>1, <2>2 DEF Shown
<1>6. Ended' /\ NeverEasier'
  BY <1>1, <1>2, <1>3 DEF NatInv, Ended, NeverEasier
<1>7. sub' # 3 => Sent'
  BY <1>1, <1>2 DEF NatInv, Sent
<1> QED BY <1>4, <1>5, <1>6, <1>7 DEF NatInv

LEMMA SubTestEndsStep ==
  ASSUME NatInv, SubTestEnds
  PROVE  NatInv'
<1> USE DEF NatInv
<1>1. /\ sub \in {1, 2} /\ sub' = sub + 1 /\ UNCHANGED <<nat, got, first, fallback>>
      /\ missed' \in BOOLEAN /\ verdict = Unknown /\ Sent
  BY DEF SubTestEnds, Ended, NatTypeOK
<1>2. CASE sub = 1
  <2>1. sent' = sent \cup (Tests(2) \X StunServer) /\ UNCHANGED verdict
    BY <1>2 DEF SubTestEnds
  <2>2. sent' = (1 .. 4) \X StunServer
    BY <1>1, <1>2, <2>1 DEF Sent, Tests
  <2>3. NatTypeOK'
    BY <1>1, <1>2, <2>1, <2>2 DEF NatTypeOK
  <2> QED BY <1>1, <1>2, <2>1, <2>2, <2>3 DEF Sent, Shown, Ended, NeverEasier
<1>3. CASE sub = 2
  <2>1. verdict' = (IF got = {} THEN BLOCKED_NAT ELSE fallback) /\ UNCHANGED sent
    BY <1>3 DEF SubTestEnds
  <2>2. verdict' \in NatType /\ verdict' >= nat
    BY <2>1 DEF NatTypeOK, Shown, OPEN_INTERNET, FULL_CONE, RESTRICT_NAT,
                RESTRICT_PORT_NAT, SYMMETRIC_NAT, BLOCKED_NAT, NatType
  <2>3. verdict' # Unknown
    BY <2>2 DEF OPEN_INTERNET, FULL_CONE, RESTRICT_NAT, RESTRICT_PORT_NAT,
                SYMMETRIC_NAT, BLOCKED_NAT, NatType, Unknown
  <2>4. NatTypeOK'
    BY <1>1, <1>3, <2>1, <2>2 DEF NatTypeOK
  <2> QED BY <1>1, <1>3, <2>1, <2>2, <2>3, <2>4 DEF Shown, Ended, NeverEasier
<1> QED BY <1>1, <1>2, <1>3

LEMMA NatStepHolds == NatInv /\ [NatNext]_natvars => NatInv'
<1> SUFFICES ASSUME NatInv, [NatNext]_natvars PROVE NatInv'
  OBVIOUS
<1>1. CASE SubTestEnds
  BY <1>1, SubTestEndsStep
<1>2. CASE \E t \in 1 .. 4, s \in StunServer : Reply(t, s)
  BY <1>2, ReplyStep
<1>3. CASE UNCHANGED natvars
  BY <1>3 DEF natvars, NatInv, NatTypeOK, Sent, Shown, Ended, NeverEasier
<1> QED BY <1>1, <1>2, <1>3 DEF NatNext

LEMMA NatInvHolds == NatSpec => []NatInv
<1> QED BY NatInitHolds, NatStepHolds, PTL DEF NatSpec

\* The variables of fast_nat_test keep their types.
THEOREM NatTypesHold == NatSpec => []NatTypeOK
<1>1. NatInv => NatTypeOK
  BY DEF NatInv
<1> QED BY NatInvHolds, <1>1, PTL

\* fast_nat_test never takes a route for one that lets in more than it does,
\* whatever replies are lost, late or reordered.
THEOREM NeverTakenForEasier == NatSpec => []NeverEasier
<1>1. NatInv => NeverEasier
  BY DEF NatInv
<1> QED BY NatInvHolds, <1>1, PTL

-----------------------------------------------------------------------------
(* The verdict is exact when nothing the NAT lets in is lost or late.      *)

\* A test is recorded with its first reply, by a NAT with one mapping or not.
ContactsRecorded ==
  /\ \A x \in got : first[x[1]] # {}
  /\ nat # SYMMETRIC_NAT => \A t \in 1 .. 4 : \A m \in first[t] : m = <<>>

\* What has come so far, when nothing was missed.  A reply to tests 2 and 4
\* ends the tests.
SoFar ==
  /\ sub = 1 =>
       /\ first[3] = {}
       /\ \A s \in StunServer :
            <<2, s>> \notin got /\ (nat = OPEN_INTERNET => <<1, s>> \notin got)
  /\ sub = 2 =>
       /\ nat \notin {OPEN_INTERNET, FULL_CONE}
       /\ \A s \in StunServer : <<4, s>> \notin got
       /\ nat # BLOCKED_NAT => got # {}
       /\ nat = RESTRICT_PORT_NAT => first[1] # {}
       /\ nat = RESTRICT_PORT_NAT /\ first[3] # {} => fallback = RESTRICT_PORT_NAT

IExact == NatInv /\ ContactsRecorded /\ (~missed => SoFar) /\ ExactIfAnswered

\* What a NAT lets in as soon as the requests of the sub-test are sent.
LEMMA LetIn ==
  ASSUME Sent, nat \in NatType, NEW s \in StunServer
  PROVE  /\ sub = 1 /\ nat = OPEN_INTERNET => <<1, s>> \in sent /\ LetsIn(1, s)
         /\ sub = 1 /\ nat = FULL_CONE => <<2, s>> \in sent /\ LetsIn(2, s)
         /\ sub = 1 /\ nat \in {RESTRICT_NAT, RESTRICT_PORT_NAT, SYMMETRIC_NAT}
              => <<1, s>> \in sent /\ LetsIn(1, s)
         /\ sub = 2 /\ nat = RESTRICT_NAT => <<4, s>> \in sent /\ LetsIn(4, s)
         /\ sub = 2 /\ nat = RESTRICT_PORT_NAT => <<3, s>> \in sent /\ LetsIn(3, s)
<1>1. \A t \in 1 .. 4 : <<t, s>> \in sent => <<s, SendTo(t)>> \in Contacted
  BY DEF Contacted
<1>2. sub = 1 => <<1, s>> \in sent /\ <<2, s>> \in sent
  BY DEF Sent, Tests
<1>3. sub = 2 => <<3, s>> \in sent /\ <<4, s>> \in sent
  BY DEF Sent
<1>4. CASE sub = 1
  <2>1. /\ ReplyFrom(1) = <<"primary", "primary">> /\ SendTo(1) = ReplyFrom(1)
        /\ <<s, <<"primary", "primary">>>> \in Contacted
    BY <1>1, <1>2, <1>4 DEF ReplyFrom, SendTo
  <2>2. \E port \in StunSide : <<s, <<ReplyFrom(1)[1], port>>>> \in Contacted
    BY <2>1 DEF StunSide
  <2> QED BY <1>2, <1>4, <2>1, <2>2 DEF LetsIn
<1>5. CASE sub = 2
  <2>1. /\ <<s, <<"secondary", "primary">>>> \in Contacted
        /\ ReplyFrom(3) = <<"secondary", "primary">>
        /\ ReplyFrom(4) = <<"secondary", "secondary">>
    BY <1>1, <1>3, <1>5 DEF ReplyFrom, SendTo
  <2>2. \E port \in StunSide : <<s, <<ReplyFrom(4)[1], port>>>> \in Contacted
    BY <2>1 DEF StunSide
  <2> QED BY <1>3, <1>5, <2>1, <2>2 DEF LetsIn
<1> QED BY <1>4, <1>5

LEMMA ExactInit == NatInit => IExact
<1> SUFFICES ASSUME NatInit PROVE IExact
  OBVIOUS
<1>1. NatInv
  BY NatInitHolds
<1>2. ContactsRecorded /\ SoFar /\ ExactIfAnswered
  BY DEF NatInit, ContactsRecorded, SoFar, ExactIfAnswered
<1> QED BY <1>1, <1>2 DEF IExact

LEMMA ExactReply ==
  ASSUME IExact, NEW t \in 1 .. 4, NEW s \in StunServer, Reply(t, s)
  PROVE  IExact'
<1>1. /\ sub \in {1, 2} /\ LetsIn(t, s) /\ UNCHANGED <<nat, sent, missed>>
      /\ <<t, s>> \in sent /\ verdict = Unknown
      /\ got' = got \cup {<<t, s>>} /\ DOMAIN first = 1 .. 4
      /\ first' = IF first[t] = {} THEN [first EXCEPT ![t] = {Mapping(t, s)}] ELSE first
      /\ fallback' = IF t = 3 /\ NonSymmetric(first') THEN RESTRICT_PORT_NAT ELSE fallback
  BY DEF Reply, IExact, NatInv, NatTypeOK, Ended
<1>2. \/ /\ t \in Tests(sub) /\ Result(t) # Unknown
         /\ verdict' = Result(t) /\ sub' = 3
      \/ /\ t \notin Tests(sub) \/ Result(t) = Unknown
         /\ UNCHANGED <<verdict, sub>>
  BY DEF Reply
<1>3. NatInv'
  BY ReplyStep DEF IExact
<1>4. ContactsRecorded'
  <2>1. first'[t] # {} /\ \A u \in 1 .. 4 : u # t => first'[u] = first[u]
    BY <1>1
  <2>2. nat # SYMMETRIC_NAT => \A u \in 1 .. 4 : \A m \in first'[u] : m = <<>>
    BY <1>1 DEF IExact, ContactsRecorded, Mapping
  <2>3. \A x \in got : x[1] \in 1 .. 4
    BY DEF IExact, NatInv, NatTypeOK
  <2> QED BY <1>1, <2>1, <2>2, <2>3 DEF IExact, ContactsRecorded
<1> USE DEF OPEN_INTERNET, FULL_CONE, RESTRICT_NAT, RESTRICT_PORT_NAT,
            SYMMETRIC_NAT, BLOCKED_NAT, NatType, Unknown
<1>5. ASSUME ~missed, sub' = 3 PROVE verdict' = nat
  <2>1. t \in Tests(sub) /\ verdict' = Result(t) /\ Result(t) # Unknown /\ nat \in NatType
    BY <1>1, <1>2, <1>5 DEF IExact, NatInv, NatTypeOK
  <2>2. Result(t) >= nat
    BY <1>1, <2>1, ResultIs DEF IExact
  <2>3. CASE sub = 1
    BY <2>1, <2>2, <2>3 DEF Tests, Result
  <2>4. CASE sub = 2
    <3>1. nat \notin {OPEN_INTERNET, FULL_CONE}
      BY <1>5, <2>4 DEF IExact, SoFar
    <3> QED BY <2>1, <2>2, <2>4, <3>1 DEF Tests, Result
  <2> QED BY <1>1, <2>3, <2>4
<1>6. ASSUME ~missed PROVE SoFar'
  <2>1. SoFar
    BY <1>6 DEF IExact
  <2>2. CASE sub' = 1
    <3>1. sub = 1 /\ (t \notin {1, 2} \/ Result(t) = Unknown)
      BY <1>1, <1>2, <2>2 DEF Tests
    <3>2. t \in {1, 2}
      BY <1>1, <3>1 DEF IExact, NatInv, Sent, Tests
    <3>3. t = 1 /\ nat # OPEN_INTERNET
      BY <3>1, <3>2 DEF Result
    <3> QED BY <1>1, <2>1, <2>2, <3>1, <3>3 DEF SoFar
  <2>3. CASE sub' = 2
    <3>1. sub = 2 /\ t # 4
      BY <1>1, <1>2, <2>3 DEF Tests, Result
    <3>2. nat = RESTRICT_PORT_NAT => first'[1] # {} /\ first'[1] = first[1]
      BY <1>1, <2>1, <3>1 DEF SoFar
    <3>3. ASSUME nat = RESTRICT_PORT_NAT, first'[3] # {}
          PROVE  fallback' = RESTRICT_PORT_NAT
      <4>1. CASE first[3] # {}
        BY <1>1, <2>1, <3>1, <3>3, <4>1 DEF SoFar
      <4>2. CASE first[3] = {}
        <5>1. t = 3
          BY <1>1, <3>3, <4>2
        <5>2. \A u \in {1, 3} : first'[u] # {} /\ \A m \in first'[u] : m = <<>>
          BY <1>1, <1>4, <3>2, <3>3 DEF ContactsRecorded
        <5>3. \A u \in {1, 3} : \A m : m \in first'[u] <=> m = <<>>
          <6>1. SUFFICES ASSUME NEW u \in {1, 3} PROVE \A m : m \in first'[u] <=> m = <<>>
            OBVIOUS
          <6>2. PICK m \in first'[u] : TRUE
            BY <5>2
          <6> QED BY <5>2, <6>2, Zenon
        <5>4. first'[1] = first'[3]
          BY <5>3
        <5> QED BY <1>1, <5>1, <5>2, <5>4 DEF NonSymmetric
      <4> QED BY <4>1, <4>2
    <3> QED BY <1>1, <2>1, <2>3, <3>1, <3>2, <3>3 DEF SoFar
  <2> QED BY <1>1, <1>2, <2>2, <2>3 DEF SoFar
<1>7. ExactIfAnswered'
  BY <1>1, <1>3, <1>5 DEF ExactIfAnswered, NatInv, Ended
<1> QED BY <1>1, <1>3, <1>4, <1>6, <1>7 DEF IExact

LEMMA ExactSubTestEnds ==
  ASSUME StunServer # {}, IExact, SubTestEnds
  PROVE  IExact'
<1>1. /\ sub \in {1, 2} /\ sub' = sub + 1 /\ UNCHANGED <<nat, got, first, fallback>>
      /\ nat \in NatType /\ Sent /\ verdict = Unknown
      /\ missed' = (missed \/ \E x \in sent \ got : x[1] \in Tests(sub) /\ LetsIn(x[1], x[2]))
  BY DEF SubTestEnds, IExact, NatInv, NatTypeOK, Ended
<1>2. NatInv' /\ ContactsRecorded'
  BY <1>1, SubTestEndsStep DEF IExact, ContactsRecorded
<1>3. PICK s \in StunServer : TRUE
  OBVIOUS
<1> USE DEF OPEN_INTERNET, FULL_CONE, RESTRICT_NAT, RESTRICT_PORT_NAT,
            SYMMETRIC_NAT, BLOCKED_NAT, NatType, Unknown
<1>4. ASSUME ~missed', NEW t \in Tests(sub), <<t, s>> \in sent, LetsIn(t, s)
      PROVE  <<t, s>> \in got
  <2>1. ~\E x \in sent \ got : x[1] \in Tests(sub) /\ LetsIn(x[1], x[2])
    BY <1>1, <1>4, Zenon
  <2>2. <<t, s>>[1] = t /\ <<t, s>>[2] = s
    OBVIOUS
  <2> QED BY <1>4, <2>1, <2>2, Zenon
<1>5. ASSUME ~missed' PROVE SoFar
  <2>1. ~missed
    BY <1>1, <1>5, Zenon
  <2> QED BY <2>1 DEF IExact
<1>6. CASE sub = 1
  <2>1. UNCHANGED verdict
    BY <1>6 DEF SubTestEnds
  <2>2. ASSUME ~missed' PROVE SoFar'
    <3>1. nat \notin {OPEN_INTERNET, FULL_CONE}
      <4>1. nat = OPEN_INTERNET => <<1, s>> \in got
        BY <1>1, <1>4, <1>6, <2>2, LetIn DEF Tests
      <4>2. nat = FULL_CONE => <<2, s>> \in got
        BY <1>1, <1>4, <1>6, <2>2, LetIn DEF Tests
      <4> QED BY <1>5, <1>6, <2>2, <4>1, <4>2 DEF SoFar
    <3>2. nat # BLOCKED_NAT => <<1, s>> \in got /\ first[1] # {}
      <4>1. nat # BLOCKED_NAT => <<1, s>> \in got
        BY <1>1, <1>4, <1>6, <2>2, <3>1, LetIn DEF Tests
      <4> QED BY <4>1 DEF IExact, ContactsRecorded
    <3>3. \A u \in StunServer : <<4, u>> \notin got
      BY <1>1, <1>6 DEF IExact, NatInv, NatTypeOK, Sent, Tests
    <3>4. first[3] = {}
      BY <1>5, <1>6, <2>2 DEF SoFar
    <3> QED BY <1>1, <1>6, <3>1, <3>2, <3>3, <3>4 DEF SoFar
  <2> QED BY <1>1, <1>2, <1>6, <2>1, <2>2 DEF IExact, ExactIfAnswered
<1>7. CASE sub = 2
  <2>1. verdict' = IF got = {} THEN BLOCKED_NAT ELSE fallback
    BY <1>7 DEF SubTestEnds
  <2>2. ASSUME ~missed' PROVE verdict' = nat
    <3>1. nat \notin {OPEN_INTERNET, FULL_CONE} /\ (nat # BLOCKED_NAT => got # {})
      BY <1>5, <1>7, <2>2 DEF SoFar
    <3>2. nat # RESTRICT_NAT
      <4>1. nat = RESTRICT_NAT => <<4, s>> \in got
        BY <1>1, <1>4, <1>7, <2>2, LetIn DEF Tests
      <4> QED BY <1>5, <1>7, <2>2, <4>1 DEF SoFar
    <3>3. nat = RESTRICT_PORT_NAT => fallback = RESTRICT_PORT_NAT
      <4>1. nat = RESTRICT_PORT_NAT => <<3, s>> \in got
        BY <1>1, <1>4, <1>7, <2>2, LetIn DEF Tests
      <4>2. nat = RESTRICT_PORT_NAT => first[3] # {}
        BY <4>1 DEF IExact, ContactsRecorded
      <4> QED BY <1>5, <1>7, <2>2, <4>2 DEF SoFar
    <3>4. nat = SYMMETRIC_NAT => fallback = SYMMETRIC_NAT
      BY DEF IExact, NatInv, Shown
    <3>5. nat = BLOCKED_NAT => got = {}
      BY DEF IExact, NatInv, Shown
    <3> QED BY <1>1, <2>1, <3>1, <3>2, <3>3, <3>4, <3>5
  <2> QED BY <1>1, <1>2, <1>7, <2>2 DEF IExact, ExactIfAnswered, SoFar
<1> QED BY <1>1, <1>6, <1>7

LEMMA ExactStep == StunServer # {} /\ IExact /\ [NatNext]_natvars => IExact'
<1> SUFFICES ASSUME StunServer # {}, IExact, [NatNext]_natvars PROVE IExact'
  OBVIOUS
<1>1. CASE SubTestEnds
  BY <1>1, ExactSubTestEnds
<1>2. CASE \E t \in 1 .. 4, s \in StunServer : Reply(t, s)
  BY <1>2, ExactReply
<1>3. CASE UNCHANGED natvars
  BY <1>3 DEF natvars, IExact, NatInv, NatTypeOK, Sent, Shown, Ended, NeverEasier,
              ContactsRecorded, SoFar, ExactIfAnswered
<1> QED BY <1>1, <1>2, <1>3 DEF NatNext

\* With at least one STUN server the verdict of fast_nat_test is what the route
\* is behind, when no reply that the NAT lets in misses its sub-test.
THEOREM ExactWhenAnswered ==
  ASSUME StunServer # {}
  PROVE  NatSpec => []ExactIfAnswered
<1>1. IExact /\ [NatNext]_natvars => IExact'
  BY ExactStep
<1>2. IExact => ExactIfAnswered
  BY DEF IExact
<1> QED BY ExactInit, <1>1, <1>2, PTL DEF NatSpec

-----------------------------------------------------------------------------
(***************************************************************************)
(* RestApi, for any names, connections and listeners.                      *)
(*                                                                         *)
(* A name that is being opened is in no entry, a connection that open has  *)
(* not stored yet has no callback, and two entries differ in their names:  *)
(* so the callback that was added to a connection deletes the connection's *)
(* own entry or none when this connection ends.  A name that two opens are *)
(* under way for is out of this, and so is one whose callback runs because *)
(* another connection of the same listener ends.                           *)
(***************************************************************************)

Types ==
  /\ cons \subseteq ConName \X Con
  /\ link \in [Con -> {"unused", "open", "closing", "ended"}]
  /\ endCbs \in [Con -> SUBSET ConName]
  /\ \A o \in opening : o = <<o[1], o[2], o[3]>> /\ o[1] \in ConName /\ o[3] \subseteq Con

\* The names of entries are different, and those of open requests, unless
\* they raced.
OneEach ==
  /\ \A e, f \in cons : e[1] = f[1] => e = f
  /\ \A o, r \in opening : o[1] = r[1] /\ o[1] \notin raced => o = r
  /\ \A o \in opening, e \in cons : o[1] = e[1] => o[1] \in raced

\* What has no callback yet: a connection that is unused, or that an open
\* request has and no other one has.
NoCallback ==
  /\ \A c \in Con : link[c] = "unused" => endCbs[c] = {} /\ \A o \in opening : c \notin o[3]
  /\ \A o \in opening : \A c \in o[3] :
       endCbs[c] = {} /\ \A r \in opening : c \in r[3] => r = o

RestInv == Types /\ OneEach /\ NoCallback /\ NameLeadsToCon

-----------------------------------------------------------------------------
LEMMA RestInitHolds == RestInit => RestInv
BY DEF RestInit, RestInv, Types, OneEach, NoCallback, NameLeadsToCon

\* Callbacks are never taken off, and what has ended stays so.
LEMMA LostStays ==
  ASSUME RestApiAssumption, NEW n, LostWithAnother(n),
         \A c \in Con : endCbs[c] \subseteq endCbs'[c],
         \A c \in Con : link[c] = "ended" => link'[c] = "ended"
  PROVE  LostWithAnother(n)'
BY DEF LostWithAnother, RestApiAssumption

\* A step that keeps the entries keeps the property.
LEMMA LeadsStay ==
  ASSUME RestApiAssumption, RestInv, cons \subseteq cons', raced \subseteq raced', endCbs' = endCbs,
         \A c \in Con : link[c] = "ended" => link'[c] = "ended",
         \A c \in Con : link'[c] \in {"open", "closing"} /\ endCbs[c] # {} =>
                          link[c] \in {"open", "closing"}
  PROVE  NameLeadsToCon'
<1> SUFFICES ASSUME NEW c \in Con, link'[c] \in {"open", "closing"}, NEW n \in endCbs[c]
             PROVE  <<n, c>> \in cons' \/ n \in raced' \/ LostWithAnother(n)'
  BY DEF NameLeadsToCon
<1>1. <<n, c>> \in cons \/ n \in raced \/ LostWithAnother(n)
  BY DEF RestInv, NameLeadsToCon
<1>2. LostWithAnother(n) => LostWithAnother(n)'
  BY LostStays
<1> QED BY <1>1, <1>2

LEMMA OpenBeginStep ==
  ASSUME RestApiAssumption, RestInv, NEW n \in ConName, OpenBegin(n)
  PROVE  RestInv'
<1>1. PICK k \in 1 .. AtOnce : opening' = opening \cup {<<n, k, {}>>}
  BY DEF OpenBegin
<1> DEFINE new == <<n, k, {}>>
<1>2. /\ \A e \in cons : e[1] # n
      /\ new = <<new[1], new[2], new[3]>> /\ new[1] = n /\ new[3] = {}
      /\ \A o \in opening' : o \in opening \/ o = new
      /\ raced \subseteq raced' /\ ((\E o \in opening : o[1] = n) => n \in raced')
      /\ UNCHANGED <<cons, link, endCbs>>
  BY <1>1 DEF OpenBegin, Names
<1> HIDE DEF new
<1>3. Types'
  BY <1>2 DEF RestInv, Types
<1>4. OneEach'
  BY <1>2 DEF RestInv, OneEach
<1>5. NoCallback'
  BY <1>2 DEF RestInv, NoCallback
<1>6. NameLeadsToCon'
  BY <1>2, LeadsStay
<1> QED BY <1>3, <1>4, <1>5, <1>6 DEF RestInv

LEMMA OpenConnectedStep ==
  ASSUME RestApiAssumption, RestInv, NEW o \in opening, OpenConnected(o)
  PROVE  RestInv'
<1>1. PICK c \in Con : /\ link[c] = "unused" /\ link' = [link EXCEPT ![c] = "open"]
                       /\ opening' = (opening \ {o}) \cup {<<o[1], o[2], {c}>>}
  BY DEF OpenConnected
<1>2. UNCHANGED <<cons, endCbs, raced>> /\ endCbs[c] = {} /\ \A r \in opening : c \notin r[3]
  BY <1>1 DEF OpenConnected, RestInv, NoCallback
<1>3. Types'
  BY <1>1, <1>2 DEF RestInv, Types
<1> DEFINE new == <<o[1], o[2], {c}>>
<1>4. /\ new[1] = o[1] /\ new[3] = {c}
      /\ \A r \in opening' : r = new \/ (r \in opening /\ r # o)
  BY <1>1
<1> HIDE DEF new
<1>5. OneEach'
  <2>1. \A q, r \in opening' : q[1] = r[1] /\ q[1] \notin raced => q = r
    BY <1>4 DEF RestInv, OneEach
  <2>2. \A r \in opening', e \in cons : r[1] = e[1] => r[1] \in raced
    BY <1>4 DEF RestInv, OneEach
  <2> QED BY <1>2, <2>1, <2>2 DEF RestInv, OneEach
<1>6. NoCallback'
  <2>1. \A d \in Con : link'[d] = "unused" => link[d] = "unused" /\ d # c
    BY <1>1 DEF RestInv, Types
  <2>2. \A d \in Con : link'[d] = "unused" =>
          endCbs'[d] = {} /\ \A r \in opening' : d \notin r[3]
    BY <1>2, <1>4, <2>1 DEF RestInv, NoCallback
  <2>3. \A r \in opening' : \A d \in r[3] :
          endCbs'[d] = {} /\ \A q \in opening' : d \in q[3] => q = r
    BY <1>2, <1>4 DEF RestInv, NoCallback
  <2> QED BY <2>2, <2>3 DEF NoCallback
<1>7. \A d \in Con : d # c => link'[d] = link[d]
  BY <1>1 DEF RestInv, Types
<1>8. NameLeadsToCon'
  BY <1>1, <1>2, <1>7, LeadsStay
<1> QED BY <1>3, <1>5, <1>6, <1>8 DEF RestInv

LEMMA AcceptStep ==
  ASSUME RestApiAssumption, RestInv, NEW c \in Con, Accept(c)
  PROVE  RestInv'
<1>1. /\ link[c] = "unused" /\ link' = [link EXCEPT ![c] = "open"]
      /\ UNCHANGED <<cons, opening, endCbs, raced>> /\ endCbs[c] = {}
  BY DEF Accept, RestInv, NoCallback
<1>2. \A d \in Con : d # c => link'[d] = link[d]
  BY <1>1 DEF RestInv, Types
<1>3. Types' /\ OneEach'
  BY <1>1 DEF RestInv, Types, OneEach
<1>4. NoCallback'
  BY <1>1, <1>2 DEF RestInv, NoCallback, Types
<1>5. NameLeadsToCon'
  BY <1>1, <1>2, LeadsStay
<1> QED BY <1>3, <1>4, <1>5 DEF RestInv

LEMMA OpenFailedStep ==
  ASSUME RestApiAssumption, RestInv, NEW o \in opening, OpenFailed(o)
  PROVE  RestInv'
<1>1. opening' \subseteq opening /\ UNCHANGED <<cons, link, endCbs, raced>>
  BY DEF OpenFailed
<1>2. NameLeadsToCon'
  BY <1>1, LeadsStay
<1> QED BY <1>1, <1>2 DEF RestInv, Types, OneEach, NoCallback

LEMMA OpenStoreStep ==
  ASSUME RestApiAssumption, RestInv, NEW o \in opening, OpenStore(o)
  PROVE  RestInv'
<1>1. PICK c \in o[3] : /\ endCbs' = [endCbs EXCEPT ![c] = @ \cup {o[1]}]
                        /\ cons' = Without(cons, o[1]) \cup {<<o[1], c>>}
  BY DEF OpenStore
<1>2. /\ opening' = opening \ {o} /\ UNCHANGED <<link, raced>>
      /\ c \in Con /\ o[1] \in ConName /\ endCbs[c] = {}
  BY <1>1 DEF OpenStore, RestInv, Types, NoCallback
<1>3. \A e \in cons' : e = <<o[1], c>> \/ (e \in cons /\ e[1] # o[1])
  BY <1>1 DEF Without
<1>4. endCbs'[c] = {o[1]} /\ \A d \in Con : d # c => endCbs'[d] = endCbs[d]
  BY <1>1, <1>2 DEF RestInv, Types
<1>5. Types'
  BY <1>1, <1>2, <1>3 DEF RestInv, Types
<1>6. OneEach'
  <2>1. \A e, f \in cons' : e[1] = f[1] => e = f
    BY <1>3 DEF RestInv, OneEach
  <2>2. \A r \in opening', e \in cons' : r[1] = e[1] => r[1] \in raced
    BY <1>2, <1>3 DEF RestInv, OneEach
  <2> QED BY <1>2, <2>1, <2>2 DEF RestInv, OneEach
<1>7. NoCallback'
  BY <1>1, <1>2, <1>4 DEF RestInv, NoCallback, Types
<1>8. NameLeadsToCon'
  <2> SUFFICES ASSUME NEW d \in Con, link[d] \in {"open", "closing"}, NEW n \in endCbs'[d]
               PROVE  <<n, d>> \in cons' \/ n \in raced \/ LostWithAnother(n)'
    BY <1>2 DEF NameLeadsToCon
  <2>1. CASE d = c
    BY <1>1, <1>4, <2>1
  <2>2. CASE d # c
    <3>1. <<n, d>> \in cons \/ n \in raced \/ LostWithAnother(n)
      BY <1>4, <2>2 DEF RestInv, NameLeadsToCon
    <3>2. LostWithAnother(n) => LostWithAnother(n)'
      <4>1. \A x \in Con : endCbs[x] \subseteq endCbs'[x]
        BY <1>2, <1>4
      <4> QED BY <1>2, <4>1, LostStays
    <3>3. CASE <<n, d>> \in cons
      <4>1. n = o[1] => n \in raced
        BY <3>3 DEF RestInv, OneEach
      <4>2. n # o[1] => <<n, d>> \in cons'
        BY <1>1, <3>3 DEF Without
      <4> QED BY <4>1, <4>2
    <3> QED BY <3>1, <3>2, <3>3
  <2> QED BY <2>1, <2>2
<1> QED BY <1>5, <1>6, <1>7, <1>8 DEF RestInv

LEMMA RestCloseStep ==
  ASSUME RestApiAssumption, RestInv, NEW n, NEW c \in Con, Close(n, c)
  PROVE  RestInv'
<1>1. /\ UNCHANGED <<cons, opening, endCbs, raced>>
      /\ link' \in [Con -> {"unused", "open", "closing", "ended"}]
      /\ \A d \in Con : /\ link'[d] = "unused" => link[d] = "unused"
                        /\ link[d] = "ended" => link'[d] = "ended"
                        /\ link'[d] \in {"open", "closing"} => link[d] \in {"open", "closing"}
  BY DEF Close, RestInv, Types
<1>2. NameLeadsToCon'
  BY <1>1, LeadsStay
<1> QED BY <1>1, <1>2 DEF RestInv, Types, OneEach, NoCallback

LEMMA ConnectionLostStep ==
  ASSUME RestApiAssumption, RestInv, NEW c \in Con, ConnectionLost(c)
  PROVE  RestInv'
<1>1. /\ link[c] \in {"open", "closing"} /\ link' = [link EXCEPT ![c] = "ended"]
      /\ cons' = {e \in cons : e[1] \notin Callbacks(c)}
      /\ UNCHANGED <<opening, endCbs, raced>>
  BY DEF ConnectionLost
<1>2. Types' /\ OneEach'
  BY <1>1 DEF RestInv, Types, OneEach
<1>3. NoCallback'
  BY <1>1 DEF RestInv, NoCallback, Types
<1>4. NameLeadsToCon'
  <2> SUFFICES ASSUME NEW d \in Con, link'[d] \in {"open", "closing"}, NEW n \in endCbs[d]
               PROVE  <<n, d>> \in cons' \/ n \in raced \/ LostWithAnother(n)'
    BY <1>1 DEF NameLeadsToCon
  <2>1. d # c /\ link[d] \in {"open", "closing"} /\ link'[c] = "ended"
    BY <1>1 DEF RestInv, Types
  <2>2. LostWithAnother(n) => LostWithAnother(n)'
    <3>1. \A x \in Con : link[x] = "ended" => link'[x] = "ended"
      BY <1>1 DEF RestInv, Types
    <3> QED BY <1>1, <3>1, LostStays
  <2>3. <<n, d>> \in cons \/ n \in raced \/ LostWithAnother(n)
    BY <2>1 DEF RestInv, NameLeadsToCon
  <2>4. CASE <<n, d>> \in cons /\ n \in Callbacks(c)
    <3>1. PICK x \in Con : SameList(c, x) /\ n \in endCbs[x]
      BY <2>4 DEF Callbacks
    <3>2. CASE x = c
      <4>1. <<n, c>> \in cons => <<n, c>> = <<n, d>>
        BY <2>4 DEF RestInv, OneEach
      <4>2. <<n, c>> \notin cons
        BY <2>1, <4>1
      <4> QED BY <1>1, <2>2, <3>1, <3>2, <4>2 DEF RestInv, NameLeadsToCon
    <3>3. CASE x # c
      BY <1>1, <2>1, <3>1, <3>3 DEF SameList, LostWithAnother
    <3> QED BY <3>2, <3>3
  <2> QED BY <1>1, <2>2, <2>3, <2>4
<1> QED BY <1>2, <1>3, <1>4 DEF RestInv

-----------------------------------------------------------------------------
LEMMA RestStepHolds ==
  RestApiAssumption /\ RestInv /\ [RestNext]_restvars => RestInv'
<1> SUFFICES ASSUME RestApiAssumption, RestInv, [RestNext]_restvars PROVE RestInv'
  OBVIOUS
<1>0. ASSUME UNCHANGED <<cons, opening, link, endCbs, raced>> PROVE RestInv'
  BY <1>0 DEF RestInv, Types, OneEach, NoCallback, NameLeadsToCon, LostWithAnother
<1>1. CASE \E n \in ConName : OpenBegin(n)
  BY <1>1, OpenBeginStep
<1>2. CASE \E o \in opening : OpenConnected(o) \/ OpenFailed(o) \/ OpenStore(o)
  BY <1>2, OpenConnectedStep, OpenFailedStep, OpenStoreStep
<1>3. CASE \E c \in Con : Accept(c) \/ ConnectionLost(c)
  BY <1>3, AcceptStep, ConnectionLostStep
<1>4. ASSUME NEW e \in cons,
             \/ Close(e[1], e[2]) \/ UnsubAll(e[1], e[2])
             \/ \E s \in SubName, p \in Pattern :
                  Sub(e[1], e[2], s, p) \/ Unsub(e[1], e[2], s, p)
      PROVE  RestInv'
  <2>1. e[2] \in Con
    BY DEF RestInv, Types
  <2>2. CASE Close(e[1], e[2])
    BY <2>1, <2>2, RestCloseStep
  <2>3. CASE ~Close(e[1], e[2])
    <3>1. UNCHANGED <<cons, opening, link, endCbs, raced>>
      BY <1>4, <2>3 DEF UnsubAll, Sub, Unsub
    <3> QED BY <1>0, <3>1
  <2> QED BY <2>2, <2>3
<1>5. CASE UNCHANGED restvars
  <2>1. UNCHANGED <<cons, opening, link, endCbs, raced>>
    BY <1>5 DEF restvars
  <2> QED BY <1>0, <2>1
<1> QED BY <1>1, <1>2, <1>3, <1>4, <1>5 DEF RestNext

\* As long as a connection that open has stored lasts, its name leads to it,
\* unless opens of the name overlapped, or it has been the name of a listener's
\* connection and another one of that listener has ended.
THEOREM NamesLeadToCons == RestSpec => []NameLeadsToCon
<1> USE RestApiAssumption
<1>1. RestInv /\ [RestNext]_restvars => RestInv'
  BY RestStepHolds
<1>2. RestInv => NameLeadsToCon
  BY DEF RestInv
<1> QED BY RestInitHolds, <1>1, <1>2, PTL DEF RestSpec

-----------------------------------------------------------------------------
(***************************************************************************)
(* NodeLife, for any processes, addresses and pipe ids, and   *)
(* any number of nodes that connect while they close.                      *)
(*                                                                         *)
(* The lock file is what counts: a process that is between the lock and the*)
(* bind, or listens, holds the lock of that address.  For close, an entry  *)
(* that was open is closed once its table has been walked, because nothing *)
(* that attempts do to a table opens an entry again: or the loop has passed*)
(* over it, and at most one entry for each that was deleted.               *)
(***************************************************************************)

\* A process that tries an address has one to try; once it has the lock it
\* holds it, and nobody listens there.
Trying ==
  \A p \in Proc :
    /\ stage[p] = "down" => tried[p] = 0
    /\ stage[p] \in {"listen", "probe", "bind"} => tried[p] + 1 \in DOMAIN Addrs
    /\ stage[p] \in {"probe", "bind"} =>
         lock[Here(p)] = p /\ \A b \in bound : b[2] # Here(p)

BoundLocked == \A b \in bound : lock[b[2]] = b[1]

\* What was open when close began, in each table before and after its walk.
HeldTurnAt(p, i) ==
  stage[p] \in {"closing", "closed"} /\ <<"turn", i>> \in held[p] =>
    /\ turn[p][i] \in {"open", "closed", "deleted"}
    /\ walk[p].table # "turn" \/ i \in walk[p].seen =>
         turn[p][i] # "open" \/ <<"turn", i>> \in passed[p]

HeldPipeAt(p, i) ==
  stage[p] \in {"closing", "closed"} /\ <<"pipes", i>> \in held[p] =>
    /\ future[p][i] \in {"open", "closed"}
    /\ \/ walk[p].table = "servers"
       \/ walk[p].table = "pipes" /\ i \in walk[p].seen
       => future[p][i] = "closed" \/ <<"pipes", i>> \in passed[p]

HeldTurn == \A p \in Proc, i \in Id : HeldTurnAt(p, i)
HeldPipe == \A p \in Proc, i \in Id : HeldPipeAt(p, i)

\* Only what has walked over the servers is closed, and it holds nothing.
ClosedHolds ==
  \A p \in Proc : stage[p] = "closed" =>
    /\ walk[p].table = "servers"
    /\ \A a \in Addr : <<p, a>> \notin bound /\ lock[a] # p

\* What loops passed over is no more than what was deleted.
Few(items, name, table) == Cardinality(Of(name, items)) <= Cardinality(Deleted(table))
PassedFew ==
  \A p \in Proc : Few(passed[p], "turn", turn[p]) /\ Few(passed[p], "pipes", future[p])

LifeInv == /\ NodeLifeTypeOK /\ Trying /\ BoundLocked /\ HeldTurn /\ HeldPipe
           /\ ClosedHolds /\ PassedFew

-----------------------------------------------------------------------------
\* A table's size is counted.
LEMMA OneWalk ==
  ASSUME NEW p, NEW W, NEW w \in W, walk \in [Proc -> W], walk' = [walk EXCEPT ![p] = w]
  PROVE  walk' \in [Proc -> W]
OBVIOUS

LEMMA WalkType ==
  ASSUME NEW name, NEW table \in [Id -> Item]
  PROVE  /\ WalkOver(name, table).table = name
         /\ WalkOver(name, table).seen = {}
         /\ name \in {"turn", "pipes"} =>
              WalkOver(name, table) \in [table : {Nobody, "turn", "pipes", "servers"},
                                         seen : SUBSET Id, size : 0 .. Cardinality(Id), awaits : SUBSET Id]
<1>1. Entries(table) \subseteq Id /\ IsFiniteSet(Id)
  BY NodeLifeAssumption DEF Entries
<1>2. /\ Cardinality(Entries(table)) \in Nat /\ Cardinality(Id) \in Nat
      /\ Cardinality(Entries(table)) <= Cardinality(Id)
  BY <1>1, FS_Subset, FS_CardinalityType
<1>3. Cardinality(Entries(table)) \in 0 .. Cardinality(Id)
  BY <1>2
<1> QED BY <1>3 DEF WalkOver

LEMMA LifeInitHolds == LifeInit => LifeInv
<1> SUFFICES ASSUME LifeInit PROVE LifeInv
  OBVIOUS
<1>1. IsFiniteSet(Id) /\ Cardinality(Id) \in Nat /\ Len(Addrs) \in Nat
  BY NodeLifeAssumption, FS_CardinalityType
<1>2. NodeLifeTypeOK
  BY <1>1 DEF LifeInit, NodeLifeTypeOK, Stages, Item, NoWalk
<1>3. Trying /\ BoundLocked /\ HeldTurn /\ HeldPipe /\ ClosedHolds
  BY DEF LifeInit, Trying, BoundLocked, HeldTurn, HeldPipe, HeldTurnAt, HeldPipeAt,
         ClosedHolds
<1>4. PassedFew
  <2> SUFFICES ASSUME NEW p \in Proc
               PROVE  Few(passed[p], "turn", turn[p]) /\ Few(passed[p], "pipes", future[p])
    BY DEF PassedFew
  <2>1. /\ passed[p] = {} /\ turn[p] = [i \in Id |-> Nobody] /\ future[p] = [i \in Id |-> Nobody]
    BY DEF LifeInit
  <2>2. Of("turn", passed[p]) = {} /\ Of("pipes", passed[p]) = {}
    BY <2>1 DEF Of
  <2>3. Deleted(turn[p]) = {} /\ Deleted(future[p]) = {}
    BY <2>1 DEF Deleted, Nobody
  <2> QED BY <2>2, <2>3, FS_EmptySet DEF Few
<1> QED BY <1>2, <1>3, <1>4 DEF LifeInv

\* Deleted entries stay deleted, and as few are passed over.
LEMMA FewStays ==
  ASSUME NEW items, NEW more, NEW name, NEW table, NEW next, Few(items, name, table),
         Of(name, more) = Of(name, items),
         \A i \in Id : table[i] = "deleted" => next[i] = "deleted"
  PROVE  Few(more, name, next)
<1>1. IsFiniteSet(Id) /\ Of(name, items) \subseteq Id /\ Deleted(next) \subseteq Id
  BY NodeLifeAssumption DEF Of, Deleted
<1>2. Deleted(table) \subseteq Deleted(next)
  BY DEF Deleted
<1>3. IsFiniteSet(Deleted(next)) /\ IsFiniteSet(Of(name, items))
  BY <1>1, FS_Subset
<1>4. /\ IsFiniteSet(Deleted(table))
      /\ Cardinality(Deleted(table)) <= Cardinality(Deleted(next))
  BY <1>2, <1>3, FS_Subset
<1>5. /\ Cardinality(Deleted(table)) \in Nat /\ Cardinality(Deleted(next)) \in Nat
      /\ Cardinality(Of(name, items)) \in Nat
  BY <1>3, <1>4, FS_CardinalityType
<1> QED BY <1>4, <1>5 DEF Few

LEMMA PassedFewStays ==
  ASSUME PassedFew, UNCHANGED passed,
         \A q \in Proc, i \in Id : /\ turn[q][i] = "deleted" => turn'[q][i] = "deleted"
                                   /\ future[q][i] = "deleted" => future'[q][i] = "deleted"
  PROVE  PassedFew'
<1> SUFFICES ASSUME NEW p \in Proc
             PROVE  Few(passed[p], "turn", turn'[p]) /\ Few(passed[p], "pipes", future'[p])
  BY DEF PassedFew, Few, Of, Deleted
<1>1. Few(passed[p], "turn", turn[p]) /\ Few(passed[p], "pipes", future[p])
  BY DEF PassedFew
<1>2. Few(passed[p], "turn", turn'[p])
  BY <1>1, FewStays
<1>3. Few(passed[p], "pipes", future'[p])
  BY <1>1, FewStays
<1> QED BY <1>2, <1>3

-----------------------------------------------------------------------------
(* start. *)

Early == {"down", "listen", "probe", "bind"}

\* Where NextAddr leads, and that there is an address at each stage.
LEMMA NextAddrType ==
  ASSUME LifeInv, NEW p \in Proc, NEW raised \in BOOLEAN,
         stage[p] \in {"listen", "probe", "bind"}, NextAddr(p, raised)
  PROVE  \E st \in {"failed", "up", "listen"}, k \in 0 .. Len(Addrs) :
           /\ stage' = [stage EXCEPT ![p] = st] /\ tried' = [tried EXCEPT ![p] = k]
           /\ st = "listen" => k + 1 \in DOMAIN Addrs
<1>1. /\ Len(Addrs) \in Nat /\ DOMAIN Addrs = 1 .. Len(Addrs)
      /\ tried \in [Proc -> 0 .. Len(Addrs)]
      /\ tried[p] + 1 \in DOMAIN Addrs
  BY NodeLifeAssumption DEF LifeInv, NodeLifeTypeOK, Trying
<1>2. CASE raised /\ Here(p) \in Global
  <2>1. stage' = [stage EXCEPT ![p] = "failed"] /\ tried' = tried
    BY <1>2 DEF NextAddr, Goto
  <2>2. tried' = [tried EXCEPT ![p] = tried[p]]
    BY <1>1, <2>1
  <2> QED BY <1>1, <2>1, <2>2
<1>3. CASE ~(raised /\ Here(p) \in Global)
  <2>1. /\ tried' = [tried EXCEPT ![p] = tried[p] + 1]
        /\ stage' = [stage EXCEPT ![p] = IF tried[p] + 1 = Len(Addrs) THEN "up" ELSE "listen"]
    BY <1>3 DEF NextAddr, Goto
  <2>2. CASE tried[p] + 1 = Len(Addrs)
    <3>1. tried[p] + 1 \in 0 .. Len(Addrs)
      BY <1>1
    <3> QED BY <2>1, <2>2, <3>1
  <2>3. CASE tried[p] + 1 # Len(Addrs)
    <3>1. tried[p] + 1 \in 0 .. Len(Addrs) /\ tried[p] + 1 + 1 \in DOMAIN Addrs
      BY <1>1, <2>3
    <3> QED BY <2>1, <2>3, <3>1
  <2> QED BY <2>2, <2>3
<1> QED BY <1>2, <1>3

\* A step of start keeps the invariant, if what it does to locks and sockets
\* keeps each of them with its process.
LEMMA Listens ==
  ASSUME LifeInv, NEW p \in Proc, stage[p] \in Early,
         NEW st \in {"listen", "probe", "bind", "up", "failed"},
         NEW k \in 0 .. Len(Addrs),
         stage' = [stage EXCEPT ![p] = st], tried' = [tried EXCEPT ![p] = k],
         st \in {"listen", "probe", "bind"} => k + 1 \in DOMAIN Addrs,
         UNCHANGED <<future, turn, walk, passed, held>>,
         lock' \in [Addr -> Proc \cup {Nobody}], bound' \subseteq Proc \X Addr,
         BoundLocked',
         \A q \in Proc, a \in Addr : q # p =>
           (lock'[a] = q <=> lock[a] = q) /\ (<<q, a>> \in bound' <=> <<q, a>> \in bound),
         st \in {"probe", "bind"} =>
           lock'[Addrs[k + 1]] = p /\ \A b \in bound' : b[2] # Addrs[k + 1]
  PROVE  LifeInv'
<1> USE DEF Early
<1>1. /\ stage \in [Proc -> Stages] /\ tried \in [Proc -> 0 .. Len(Addrs)]
      /\ stage'[p] = st /\ tried'[p] = k
      /\ \A q \in Proc : q # p => stage'[q] = stage[q] /\ tried'[q] = tried[q]
  BY DEF LifeInv, NodeLifeTypeOK
<1>2. stage' \in [Proc -> Stages]
  BY <1>1 DEF Stages
<1>3. tried' \in [Proc -> 0 .. Len(Addrs)]
  BY <1>1
<1>4. NodeLifeTypeOK'
  BY <1>2, <1>3 DEF LifeInv, NodeLifeTypeOK
<1>5. Trying'
  <2> SUFFICES ASSUME NEW q \in Proc
               PROVE  /\ stage'[q] = "down" => tried'[q] = 0
                      /\ stage'[q] \in {"listen", "probe", "bind"} => tried'[q] + 1 \in DOMAIN Addrs
                      /\ stage'[q] \in {"probe", "bind"} =>
                           /\ lock'[Addrs[tried'[q] + 1]] = q
                           /\ \A b \in bound' : b[2] # Addrs[tried'[q] + 1]
    BY DEF Trying, Here
  <2>1. CASE q = p
    BY <1>1, <2>1
  <2>2. CASE q # p
    <3>1. stage'[q] = stage[q] /\ tried'[q] = tried[q]
      BY <1>1, <2>2
    <3>2. ASSUME stage[q] \in {"probe", "bind"}
          PROVE  lock'[Here(q)] = q /\ \A b \in bound' : b[2] # Here(q)
      <4>1. Here(q) \in Addr /\ lock[Here(q)] = q
        BY <3>2 DEF LifeInv, Trying, Here, Addr
      <4>2. lock'[Here(q)] = q
        BY <2>2, <4>1
      <4>3. ASSUME NEW b \in bound', b[2] = Here(q) PROVE FALSE
        <5>1. b[1] = q /\ b = <<b[1], b[2]>>
          BY <4>2, <4>3 DEF BoundLocked
        <5>2. b \in bound
          BY <2>2, <4>1, <4>3, <5>1
        <5> QED BY <3>2, <4>3, <5>2 DEF LifeInv, Trying
      <4> QED BY <4>2, <4>3
    <3> QED BY <3>1, <3>2 DEF LifeInv, Trying, Here
  <2> QED BY <2>1, <2>2
<1>6. HeldTurn' /\ HeldPipe'
  BY <1>1 DEF LifeInv, HeldTurn, HeldPipe, HeldTurnAt, HeldPipeAt
<1>7. ClosedHolds'
  BY <1>1 DEF LifeInv, ClosedHolds
<1>8. PassedFew'
  BY PassedFewStays DEF LifeInv
<1> QED BY <1>4, <1>5, <1>6, <1>7, <1>8 DEF LifeInv

LEMMA StartStep ==
  ASSUME LifeInv, NEW p \in Proc, Start(p)
  PROVE  LifeInv'
<1>1. /\ stage[p] \in Early /\ stage' = [stage EXCEPT ![p] = "listen"] /\ tried[p] = 0
      /\ UNCHANGED <<tried, lock, bound, future, turn, walk, passed, held>>
  BY DEF Start, Goto, Nets, Tables, Closing, LifeInv, Trying, Early
<1>2. /\ tried \in [Proc -> 0 .. Len(Addrs)]
      /\ Len(Addrs) \in Nat /\ DOMAIN Addrs = 1 .. Len(Addrs) /\ 1 \in DOMAIN Addrs
  BY NodeLifeAssumption DEF LifeInv, NodeLifeTypeOK
<1>3. tried' = [tried EXCEPT ![p] = 0] /\ 0 \in 0 .. Len(Addrs) /\ 0 + 1 \in DOMAIN Addrs
  BY <1>1, <1>2
<1>4. /\ lock' \in [Addr -> Proc \cup {Nobody}] /\ bound' \subseteq Proc \X Addr
      /\ BoundLocked'
  BY <1>1 DEF LifeInv, NodeLifeTypeOK, BoundLocked
<1> QED BY <1>1, <1>3, <1>4, Listens

\* What a process tries is an address of Addrs, and only its own lock is there
\* once it has it.
LEMMA HereIs ==
  ASSUME LifeInv, NEW p \in Proc, stage[p] \in {"listen", "probe", "bind"}
  PROVE  /\ Here(p) \in Addr /\ Here(p) = Addrs[tried[p] + 1]
         /\ tried[p] \in 0 .. Len(Addrs) /\ tried[p] + 1 \in DOMAIN Addrs
         /\ tried = [tried EXCEPT ![p] = tried[p]]
         /\ lock \in [Addr -> Proc \cup {Nobody}] /\ bound \subseteq Proc \X Addr
         /\ stage[p] \in {"probe", "bind"} =>
              lock[Here(p)] = p /\ \A b \in bound : b[2] # Here(p)
BY DEF LifeInv, NodeLifeTypeOK, Trying, Here, Addr

LEMMA AcquireLockStep ==
  ASSUME LifeInv, NEW p \in Proc, AcquireLock(p)
  PROVE  LifeInv'
<1>1. /\ stage[p] = "listen" /\ stage[p] \in Early
      /\ UNCHANGED <<bound, future, turn, walk, passed, held>>
  BY DEF AcquireLock, Tables, Closing, Early
<1>2. CASE lock[Here(p)] = Nobody
  <2>1. /\ lock' = [lock EXCEPT ![Here(p)] = p] /\ tried' = tried
        /\ stage' = [stage EXCEPT ![p] = "probe"]
    BY <1>2 DEF AcquireLock, Goto
  <2>2. \A b \in bound : b[1] \in Proc /\ lock[b[2]] = b[1] /\ b[2] \in Addr
    BY <1>1, HereIs DEF LifeInv, BoundLocked
  <2>3. \A b \in bound : b[2] # Here(p)
    BY <1>2, <2>2, NodeLifeAssumption
  <2>4. BoundLocked'
    BY <1>1, <2>1, <2>2, <2>3, HereIs DEF BoundLocked
  <2>5. /\ lock' \in [Addr -> Proc \cup {Nobody}] /\ lock'[Here(p)] = p
        /\ \A q \in Proc, a \in Addr : q # p => (lock'[a] = q <=> lock[a] = q)
    BY <1>1, <1>2, <2>1, HereIs, NodeLifeAssumption
  <2>6. /\ tried' = [tried EXCEPT ![p] = tried[p]] /\ tried[p] \in 0 .. Len(Addrs)
        /\ tried[p] + 1 \in DOMAIN Addrs /\ bound' \subseteq Proc \X Addr
        /\ \A q \in Proc, a \in Addr : q # p =>
             (lock'[a] = q <=> lock[a] = q) /\ (<<q, a>> \in bound' <=> <<q, a>> \in bound)
        /\ lock'[Addrs[tried[p] + 1]] = p /\ \A b \in bound' : b[2] # Addrs[tried[p] + 1]
    BY <1>1, <2>1, <2>3, <2>5, HereIs
  <2>7. "probe" \in {"listen", "probe", "bind", "up", "failed"}
    OBVIOUS
  <2> HIDE DEF Early
  <2> QED BY <1>1, <2>1, <2>4, <2>5, <2>6, <2>7, Listens, ZenonT(40)
<1>3. CASE lock[Here(p)] # Nobody
  <2>1. NextAddr(p, TRUE) /\ lock' = lock
    BY <1>3 DEF AcquireLock
  <2>2. BoundLocked'
    BY <1>1, <2>1 DEF LifeInv, BoundLocked
  <2>3. PICK st \in {"failed", "up", "listen"}, k \in 0 .. Len(Addrs) :
           /\ stage' = [stage EXCEPT ![p] = st] /\ tried' = [tried EXCEPT ![p] = k]
           /\ st = "listen" => k + 1 \in DOMAIN Addrs
    BY <1>1, <2>1, NextAddrType
  <2> QED BY <1>1, <2>1, <2>2, <2>3, HereIs, Listens, ZenonT(40)
<1> QED BY <1>2, <1>3

\* A process that gives an address up unlocks it.
LEMMA GivesUp ==
  ASSUME LifeInv, NEW p \in Proc, stage[p] \in {"probe", "bind"},
         lock' = [lock EXCEPT ![Here(p)] = Nobody], NextAddr(p, TRUE),
         UNCHANGED <<bound, future, turn, walk, passed, held>>
  PROVE  LifeInv'
<1>1. /\ stage[p] \in Early /\ lock[Here(p)] = p /\ \A b \in bound : b[2] # Here(p)
  BY HereIs DEF Early
<1>2. BoundLocked'
  BY <1>1, HereIs DEF LifeInv, BoundLocked
<1>3. /\ lock' \in [Addr -> Proc \cup {Nobody}]
      /\ \A q \in Proc, a \in Addr : q # p => (lock'[a] = q <=> lock[a] = q)
  BY <1>1, HereIs, NodeLifeAssumption
<1>4. PICK st \in {"failed", "up", "listen"}, k \in 0 .. Len(Addrs) :
         /\ stage' = [stage EXCEPT ![p] = st] /\ tried' = [tried EXCEPT ![p] = k]
         /\ st = "listen" => k + 1 \in DOMAIN Addrs
  BY NextAddrType
<1> QED BY <1>1, <1>2, <1>3, <1>4, HereIs, Listens, ZenonT(40)

LEMMA ProbeStep ==
  ASSUME LifeInv, NEW p \in Proc, Probe(p)
  PROVE  LifeInv'
<1>1. /\ stage[p] = "probe" /\ stage[p] \in Early
      /\ UNCHANGED <<bound, future, turn, walk, passed, held>>
  BY DEF Probe, Tables, Closing, Early
<1>2. CASE Goto(p, "bind") /\ UNCHANGED <<tried, lock>>
  <2>1. stage' = [stage EXCEPT ![p] = "bind"] /\ tried' = tried /\ lock' = lock
    BY <1>2 DEF Goto
  <2>2. BoundLocked'
    BY <1>1, <2>1 DEF LifeInv, BoundLocked
  <2>3. /\ tried' = [tried EXCEPT ![p] = tried[p]] /\ tried[p] \in 0 .. Len(Addrs)
        /\ tried[p] + 1 \in DOMAIN Addrs
        /\ lock' \in [Addr -> Proc \cup {Nobody}] /\ bound' \subseteq Proc \X Addr
        /\ lock'[Addrs[tried[p] + 1]] = p /\ \A b \in bound' : b[2] # Addrs[tried[p] + 1]
    BY <1>1, <2>1, HereIs
  <2> QED BY <1>1, <2>1, <2>2, <2>3, Listens
<1>3. CASE lock' = [lock EXCEPT ![Here(p)] = Nobody] /\ NextAddr(p, TRUE)
  BY <1>1, <1>3, GivesUp
<1> QED BY <1>2, <1>3 DEF Probe

LEMMA BindStep ==
  ASSUME LifeInv, NEW p \in Proc, Bind(p)
  PROVE  LifeInv'
<1>1. /\ stage[p] = "bind" /\ stage[p] \in Early /\ UNCHANGED <<future, turn, walk, passed, held>>
  BY DEF Bind, Tables, Closing, Early
<1>2. CASE bound' = bound \cup {<<p, Here(p)>>} /\ NextAddr(p, FALSE) /\ lock' = lock
  <2>1. BoundLocked'
    BY <1>1, <1>2, HereIs DEF LifeInv, BoundLocked
  <2>2. PICK st \in {"failed", "up", "listen"}, k \in 0 .. Len(Addrs) :
           /\ stage' = [stage EXCEPT ![p] = st] /\ tried' = [tried EXCEPT ![p] = k]
           /\ st = "listen" => k + 1 \in DOMAIN Addrs
    BY <1>1, <1>2, NextAddrType
  <2>3. /\ bound' \subseteq Proc \X Addr
        /\ \A q \in Proc, a \in Addr : q # p => (<<q, a>> \in bound' <=> <<q, a>> \in bound)
    BY <1>1, <1>2, HereIs
  <2> QED BY <1>1, <1>2, <2>1, <2>2, <2>3, HereIs, Listens
<1>3. CASE lock' = [lock EXCEPT ![Here(p)] = Nobody] /\ NextAddr(p, TRUE) /\ bound' = bound
  BY <1>1, <1>3, GivesUp
<1> QED BY <1>2, <1>3 DEF Bind

-----------------------------------------------------------------------------
(* The tables. *)

\* An entry of one node's table changes, and nothing else does.
LEMMA EntrySet ==
  ASSUME NEW t \in [Proc -> [Id -> Item]], NEW p \in Proc, NEW i \in Id, NEW x \in Item
  PROVE  LET u == [t EXCEPT ![p][i] = x] IN
         /\ u \in [Proc -> [Id -> Item]]
         /\ u[p][i] = x
         /\ \A q \in Proc, j \in Id : q # p \/ j # i => u[q][j] = t[q][j]
<1>1. t[p] \in [Id -> Item]
  OBVIOUS
<1>2. [t[p] EXCEPT ![i] = x] \in [Id -> Item]
  BY <1>1
<1>3. [t EXCEPT ![p][i] = x] = [t EXCEPT ![p] = [t[p] EXCEPT ![i] = x]]
  OBVIOUS
<1> QED BY <1>1, <1>2, <1>3

\* How an entry of each table may change, by attempts and by close.
TurnSteps == {<<Nobody, "open">>, <<"open", "closed">>}
               \cup {<<x, "deleted">> : x \in {"open", "closed", "pending", "cancelled"}}
PipeSteps == {<<Nobody, "pending">>, <<"pending", "open">>, <<"pending", "cancelled">>,
              <<"cancelled", "deleted">>, <<"open", "closed">>}

LEMMA TableStep ==
  ASSUME LifeInv, NEW p \in Proc, NEW i \in Id,
         \/ NewFuture(p, i) \/ NewTurnClient(p, i) \/ PipeReady(p, i)
         \/ AttemptTimeout(p, i) \/ TurnCleanup(p, i) \/ DeleteFuture(p, i)
  PROVE  LifeInv'
<1>1. UNCHANGED <<stage, tried, lock, bound, walk, held>>
  BY DEF NewFuture, NewTurnClient, PipeReady, AttemptTimeout, TurnCleanup, DeleteFuture,
         Nets, Closing
<1>9. \/ UNCHANGED passed
      \/ /\ UNCHANGED turn /\ NewFuture(p, i) /\ Put(p, "pipes", future[p], i)
      \/ /\ UNCHANGED future /\ NewTurnClient(p, i) /\ Put(p, "turn", turn[p], i)
  BY DEF NewFuture, NewTurnClient, PipeReady, AttemptTimeout, TurnCleanup, DeleteFuture, Closing
<1>10. /\ passed' \in [Proc -> SUBSET ({"turn", "pipes"} \X Id)]
       /\ \A q \in Proc : passed[q] \subseteq passed'[q]
       /\ \/ passed' = passed
          \/ /\ \A q \in Proc : q # p => passed'[q] = passed[q]
             /\ \/ /\ UNCHANGED turn /\ Of("turn", passed'[p]) = Of("turn", passed[p])
                   /\ Few(passed'[p], "pipes", future[p])
                \/ /\ UNCHANGED future /\ Of("pipes", passed'[p]) = Of("pipes", passed[p])
                   /\ Few(passed'[p], "turn", turn[p])
  <2>1. passed \in [Proc -> SUBSET ({"turn", "pipes"} \X Id)]
    BY DEF LifeInv, NodeLifeTypeOK
  <2>2. ASSUME NEW name \in {"turn", "pipes"}, NEW table, Put(p, name, table, i)
        PROVE  \/ passed' = passed
               \/ \E S \in SUBSET Id :
                    LET over == passed[p] \cup ({name} \X S) IN
                    passed' = [passed EXCEPT ![p] = over] /\ Few(over, name, table)
    <3>1. (Entries(table) \cup {i}) \ walk[p].seen \subseteq Id
      BY DEF Entries
    <3> QED BY <2>2, <3>1 DEF Put, Few
  <2>3. ASSUME NEW S \in SUBSET Id
        PROVE  /\ Of("turn", passed[p] \cup ({"pipes"} \X S)) = Of("turn", passed[p])
               /\ Of("pipes", passed[p] \cup ({"turn"} \X S)) = Of("pipes", passed[p])
    BY DEF Of
  <2>4. CASE passed' = passed
    BY <2>1, <2>4
  <2>5. CASE UNCHANGED turn /\ Put(p, "pipes", future[p], i)
    <3>1. CASE passed' = passed
      BY <2>1, <3>1
    <3>2. CASE passed' # passed
      <4>1. PICK S \in SUBSET Id :
              /\ passed' = [passed EXCEPT ![p] = passed[p] \cup ({"pipes"} \X S)]
              /\ Few(passed[p] \cup ({"pipes"} \X S), "pipes", future[p])
        BY <2>2, <2>5, <3>2
      <4> QED BY <2>1, <2>3, <2>5, <4>1
    <3> QED BY <3>1, <3>2
  <2>6. CASE UNCHANGED future /\ Put(p, "turn", turn[p], i)
    <3>1. CASE passed' = passed
      BY <2>1, <3>1
    <3>2. CASE passed' # passed
      <4>1. PICK S \in SUBSET Id :
              /\ passed' = [passed EXCEPT ![p] = passed[p] \cup ({"turn"} \X S)]
              /\ Few(passed[p] \cup ({"turn"} \X S), "turn", turn[p])
        BY <2>2, <2>6, <3>2
      <4> QED BY <2>1, <2>3, <2>6, <4>1
    <3> QED BY <3>1, <3>2
  <2> QED BY <1>9, <2>4, <2>5, <2>6
<1>2. /\ turn \in [Proc -> [Id -> Item]] /\ future \in [Proc -> [Id -> Item]]
      /\ turn[p] \in [Id -> Item] /\ future[p] \in [Id -> Item]
  BY DEF LifeInv, NodeLifeTypeOK
<1>3. \/ /\ UNCHANGED turn
         /\ \E x \in Item : /\ future' = [future EXCEPT ![p][i] = x]
                            /\ <<future[p][i], x>> \in PipeSteps
                            /\ future[p][i] # "open"
      \/ /\ UNCHANGED future
         /\ \E x \in Item : /\ turn' = [turn EXCEPT ![p][i] = x]
                            /\ <<turn[p][i], x>> \in TurnSteps
  <2>1. CASE NewFuture(p, i)
    BY <2>1 DEF NewFuture, PipeSteps, Item, Nobody
  <2>2. CASE NewTurnClient(p, i)
    BY <2>2 DEF NewTurnClient, TurnSteps, Item
  <2>3. CASE PipeReady(p, i)
    BY <2>3 DEF PipeReady, PipeSteps, Item
  <2>4. CASE AttemptTimeout(p, i)
    BY <2>4 DEF AttemptTimeout, PipeSteps, Item
  <2>5. CASE TurnCleanup(p, i)
    <3>1. turn[p][i] \in Item \ Absent
      BY <1>2, <2>5 DEF TurnCleanup
    <3> QED BY <2>5, <3>1 DEF TurnCleanup, TurnSteps, Item, Absent
  <2>6. CASE DeleteFuture(p, i)
    BY <2>6 DEF DeleteFuture, PipeSteps, Item
  <2> QED BY <2>1, <2>2, <2>3, <2>4, <2>5, <2>6
<1>4. /\ turn' \in [Proc -> [Id -> Item]] /\ future' \in [Proc -> [Id -> Item]]
      /\ \A q \in Proc, j \in Id :
           /\ turn'[q][j] = turn[q][j] \/ <<turn[q][j], turn'[q][j]>> \in TurnSteps
           /\ \/ future'[q][j] = future[q][j]
              \/ <<future[q][j], future'[q][j]>> \in PipeSteps /\ future[q][j] # "open"
  <2>1. CASE /\ UNCHANGED turn
             /\ \E x \in Item : /\ future' = [future EXCEPT ![p][i] = x]
                                /\ <<future[p][i], x>> \in PipeSteps
                                /\ future[p][i] # "open"
    <3>1. PICK x \in Item : /\ future' = [future EXCEPT ![p][i] = x]
                            /\ <<future[p][i], x>> \in PipeSteps
                            /\ future[p][i] # "open"
      BY <2>1
    <3>2. /\ future' \in [Proc -> [Id -> Item]] /\ future'[p][i] = x
          /\ \A q \in Proc, j \in Id : q # p \/ j # i => future'[q][j] = future[q][j]
      BY <1>2, <3>1, EntrySet
    <3> QED BY <1>2, <2>1, <3>1, <3>2
  <2>2. CASE /\ UNCHANGED future
             /\ \E x \in Item : /\ turn' = [turn EXCEPT ![p][i] = x]
                                /\ <<turn[p][i], x>> \in TurnSteps
    <3>1. PICK x \in Item : /\ turn' = [turn EXCEPT ![p][i] = x]
                            /\ <<turn[p][i], x>> \in TurnSteps
      BY <2>2
    <3>2. /\ turn' \in [Proc -> [Id -> Item]] /\ turn'[p][i] = x
          /\ \A q \in Proc, j \in Id : q # p \/ j # i => turn'[q][j] = turn[q][j]
      BY <1>2, <3>1, EntrySet
    <3> QED BY <1>2, <2>2, <3>1, <3>2
  <2> QED BY <1>3, <2>1, <2>2
<1>5. NodeLifeTypeOK'
  BY <1>1, <1>4, <1>10 DEF LifeInv, NodeLifeTypeOK
<1>6. Trying' /\ BoundLocked' /\ ClosedHolds'
  BY <1>1 DEF LifeInv, Trying, BoundLocked, ClosedHolds, Here
<1>7. HeldTurn'
  <2> SUFFICES ASSUME NEW q \in Proc, NEW j \in Id PROVE HeldTurnAt(q, j)'
    BY DEF HeldTurn
  <2>1. turn'[q][j] = turn[q][j] \/ <<turn[q][j], turn'[q][j]>> \in TurnSteps
    BY <1>4
  <2>2. turn[q][j] \in {"open", "closed", "deleted"} => turn'[q][j] \in {"open", "closed", "deleted"}
    BY <2>1 DEF TurnSteps
  <2>3. turn'[q][j] = "open" => turn[q][j] \in {"open", Nobody}
    BY <2>1 DEF TurnSteps
  <2>4. HeldTurnAt(q, j)
    BY DEF LifeInv, HeldTurn
  <2> QED BY <1>1, <1>10, <2>2, <2>3, <2>4 DEF HeldTurnAt, Nobody
<1>8. HeldPipe'
  <2> SUFFICES ASSUME NEW q \in Proc, NEW j \in Id PROVE HeldPipeAt(q, j)'
    BY DEF HeldPipe
  <2>1. \/ future'[q][j] = future[q][j]
        \/ <<future[q][j], future'[q][j]>> \in PipeSteps /\ future[q][j] # "open"
    BY <1>4
  <2>2. future[q][j] \in {"open", "closed"} => future'[q][j] = future[q][j]
    BY <2>1 DEF PipeSteps, Nobody
  <2>3. HeldPipeAt(q, j)
    BY DEF LifeInv, HeldPipe
  <2> QED BY <1>1, <1>10, <2>2, <2>3 DEF HeldPipeAt
<1>11. \A q \in Proc, j \in Id : /\ turn[q][j] = "deleted" => turn'[q][j] = "deleted"
                                 /\ future[q][j] = "deleted" => future'[q][j] = "deleted"
  BY <1>4 DEF TurnSteps, PipeSteps, Nobody
<1>12. PassedFew'
  <2>1. CASE passed' = passed
    BY <1>11, <2>1, PassedFewStays DEF LifeInv
  <2>2. CASE passed' # passed
    <3> SUFFICES ASSUME NEW q \in Proc
                 PROVE  Few(passed'[q], "turn", turn'[q]) /\ Few(passed'[q], "pipes", future'[q])
      BY DEF PassedFew, Few, Of, Deleted
    <3>1. Few(passed[q], "turn", turn[q]) /\ Few(passed[q], "pipes", future[q])
      BY DEF LifeInv, PassedFew
    <3>2. \/ /\ Of("turn", passed'[q]) = Of("turn", passed[q])
             /\ Of("pipes", passed'[q]) = Of("pipes", passed[q])
          \/ /\ Of("turn", passed'[q]) = Of("turn", passed[q])
             /\ Few(passed'[q], "pipes", future[q])
          \/ /\ Of("pipes", passed'[q]) = Of("pipes", passed[q])
             /\ Few(passed'[q], "turn", turn[q])
      BY <1>10, <2>2
    <3>3. Few(passed'[q], "turn", turn'[q])
      BY <1>11, <3>1, <3>2, FewStays
    <3>4. Few(passed'[q], "pipes", future'[q])
      BY <1>11, <3>1, <3>2, FewStays
    <3> QED BY <3>3, <3>4
  <2> QED BY <2>1, <2>2
<1> QED BY <1>5, <1>6, <1>7, <1>8, <1>12 DEF LifeInv

-----------------------------------------------------------------------------
(* close. *)

LEMMA CloseBeginStep ==
  ASSUME LifeInv, NEW p \in Proc, CloseBegin(p)
  PROVE  LifeInv'
<1>1. /\ UNCHANGED <<tried, lock, bound, future, turn, passed>> /\ stage[p] = "up"
      /\ stage' = [stage EXCEPT ![p] = "closing"]
      /\ walk' = [walk EXCEPT ![p] = WalkOver("turn", turn[p])]
      /\ held' = [held EXCEPT ![p] =
           {<<"turn", i>> : i \in OpenIn(turn[p])} \cup {<<"pipes", i>> : i \in OpenIn(future[p])}]
  BY DEF CloseBegin, Goto, Nets, Tables
<1>2. /\ turn[p] \in [Id -> Item] /\ stage \in [Proc -> Stages]
      /\ DOMAIN walk = Proc /\ DOMAIN held = Proc
  BY DEF LifeInv, NodeLifeTypeOK
<1>3. NodeLifeTypeOK'
  <2>1. walk' \in [Proc -> [table : {Nobody, "turn", "pipes", "servers"},
                            seen : SUBSET Id, size : 0 .. Cardinality(Id), awaits : SUBSET Id]]
    <3> DEFINE Walk == [table : {Nobody, "turn", "pipes", "servers"},
                        seen : SUBSET Id, size : 0 .. Cardinality(Id), awaits : SUBSET Id]
    <3>1. WalkOver("turn", turn[p]) \in Walk
      BY <1>2, WalkType
    <3>2. walk \in [Proc -> Walk]
      BY DEF LifeInv, NodeLifeTypeOK
    <3> HIDE DEF Walk
    <3>3. walk' \in [Proc -> Walk]
      BY <1>1, <3>1, <3>2, OneWalk
    <3> QED BY <3>3 DEF Walk
  <2>2. held' \in [Proc -> SUBSET ({"turn", "pipes"} \X Id)]
    BY <1>1 DEF LifeInv, NodeLifeTypeOK, OpenIn
  <2>3. stage' \in [Proc -> Stages]
    BY <1>1, <1>2 DEF Stages
  <2> QED BY <1>1, <2>1, <2>2, <2>3 DEF LifeInv, NodeLifeTypeOK
<1>4. \A q \in Proc : q # p => stage'[q] = stage[q] /\ walk'[q] = walk[q] /\ held'[q] = held[q]
  BY <1>1, <1>2
<1>5. /\ stage'[p] = "closing" /\ walk'[p].table = "turn" /\ walk'[p].seen = {}
      /\ \A i \in Id : /\ <<"turn", i>> \in held'[p] => turn[p][i] = "open"
                       /\ <<"pipes", i>> \in held'[p] => future[p][i] = "open"
  BY <1>1, <1>2, WalkType DEF OpenIn
<1>6. Trying' /\ BoundLocked' /\ ClosedHolds'
  BY <1>1, <1>4, <1>5 DEF LifeInv, Trying, BoundLocked, ClosedHolds, Here
<1>7. HeldTurn' /\ HeldPipe'
  <2> SUFFICES ASSUME NEW q \in Proc, NEW j \in Id
               PROVE  HeldTurnAt(q, j)' /\ HeldPipeAt(q, j)'
    BY DEF HeldTurn, HeldPipe
  <2>1. CASE q = p
    BY <1>1, <1>5, <2>1 DEF HeldTurnAt, HeldPipeAt
  <2>2. CASE q # p
    <3>1. HeldTurnAt(q, j) /\ HeldPipeAt(q, j)
      BY DEF LifeInv, HeldTurn, HeldPipe
    <3> QED BY <1>1, <1>4, <2>2, <3>1 DEF HeldTurnAt, HeldPipeAt
  <2> QED BY <2>1, <2>2
<1>8. PassedFew'
  BY <1>1, PassedFewStays DEF LifeInv
<1> QED BY <1>3, <1>6, <1>7, <1>8 DEF LifeInv

\* Where the walk fails the node is left as it is: close has not returned.
LEMMA CloseFails ==
  ASSUME LifeInv, NEW p \in Proc, stage[p] = "closing",
         stage' = [stage EXCEPT ![p] = "failed"],
         UNCHANGED <<tried, lock, bound, future, turn, walk, passed, held>>
  PROVE  LifeInv'
<1>1. /\ stage \in [Proc -> Stages] /\ stage'[p] = "failed"
      /\ \A q \in Proc : q # p => stage'[q] = stage[q]
  BY DEF LifeInv, NodeLifeTypeOK
<1>2. stage' \in [Proc -> Stages]
  BY <1>1 DEF Stages
<1>3. NodeLifeTypeOK'
  BY <1>2 DEF LifeInv, NodeLifeTypeOK
<1>4. Trying' /\ BoundLocked' /\ ClosedHolds'
  BY <1>1 DEF LifeInv, Trying, BoundLocked, ClosedHolds, Here
<1>5. HeldTurn' /\ HeldPipe'
  BY <1>1 DEF LifeInv, HeldTurn, HeldPipe, HeldTurnAt, HeldPipeAt
<1>6. PassedFew'
  BY PassedFewStays DEF LifeInv
<1> QED BY <1>3, <1>4, <1>5, <1>6 DEF LifeInv

LEMMA CloseEntryStep ==
  ASSUME LifeInv, NEW p \in Proc, CloseEntry(p)
  PROVE  LifeInv'
<1>1. PICK i \in Entries(Table(p)) \ LoopPast(p) :
        IF Resized(p) \/ Table(p)[i] = "cancelled"
          THEN Goto(p, "failed") /\ UNCHANGED <<Tables, walk>>
          ELSE /\ walk' = [walk EXCEPT ![p].seen = Seen(@, i, Table(p)[i]),
                                       ![p].awaits = IF Table(p)[i] = "open" THEN {i} ELSE {}]
               /\ IF Table(p)[i] # "open" THEN UNCHANGED Tables
                  ELSE IF walk[p].table = "turn"
                    THEN turn' = [turn EXCEPT ![p][i] = "closed"] /\ UNCHANGED future
                    ELSE future' = [future EXCEPT ![p][i] = "closed"] /\ UNCHANGED turn
               /\ UNCHANGED stage
  BY DEF CloseEntry
<1>2. /\ stage[p] = "closing" /\ walk[p].table \in {"turn", "pipes"}
      /\ UNCHANGED <<tried, lock, bound, passed, held>> /\ i \in Id
  BY DEF CloseEntry, AtTable, Nets, Entries
<1>3. CASE Resized(p) \/ Table(p)[i] = "cancelled"
  BY <1>1, <1>2, <1>3, CloseFails DEF Goto, Tables
<1>4. CASE ~(Resized(p) \/ Table(p)[i] = "cancelled")
  <2> DEFINE new == IF Table(p)[i] = "open" THEN {i} ELSE {}
  <2>1. /\ stage' = stage
        /\ walk' = [walk EXCEPT ![p].seen = walk[p].seen \cup {i},
                                ![p].awaits = new]
        /\ \/ /\ Table(p)[i] # "open" /\ UNCHANGED <<future, turn>>
           \/ /\ walk[p].table = "turn" /\ turn[p][i] = "open"
              /\ turn' = [turn EXCEPT ![p][i] = "closed"] /\ UNCHANGED future
           \/ /\ walk[p].table = "pipes" /\ future[p][i] = "open"
              /\ future' = [future EXCEPT ![p][i] = "closed"] /\ UNCHANGED turn
    BY <1>1, <1>2, <1>4 DEF Seen, Tables, Table
  <2> HIDE DEF new
  <2>2. /\ turn \in [Proc -> [Id -> Item]] /\ future \in [Proc -> [Id -> Item]]
        /\ walk \in [Proc -> [table : {Nobody, "turn", "pipes", "servers"},
                              seen : SUBSET Id, size : 0 .. Cardinality(Id), awaits : SUBSET Id]]
    BY DEF LifeInv, NodeLifeTypeOK
  <2>3. turn' \in [Proc -> [Id -> Item]] /\ future' \in [Proc -> [Id -> Item]]
    <3>1. "closed" \in Item
      BY DEF Item
    <3>2. [turn EXCEPT ![p][i] = "closed"] \in [Proc -> [Id -> Item]]
      BY <1>2, <2>2, <3>1, EntrySet
    <3>3. [future EXCEPT ![p][i] = "closed"] \in [Proc -> [Id -> Item]]
      BY <1>2, <2>2, <3>1, EntrySet
    <3> QED BY <2>1, <2>2, <3>2, <3>3
  <2>4. /\ walk' \in [Proc -> [table : {Nobody, "turn", "pipes", "servers"},
                               seen : SUBSET Id, size : 0 .. Cardinality(Id), awaits : SUBSET Id]]
        /\ \A q \in Proc : /\ walk'[q].table = walk[q].table
                           /\ walk'[q].seen = IF q = p THEN walk[q].seen \cup {i}
                                              ELSE walk[q].seen
    <3> DEFINE w == [table |-> walk[p].table, seen |-> walk[p].seen \cup {i},
                     size |-> walk[p].size, awaits |-> new]
    <3>1. walk[p] \in [table : {Nobody, "turn", "pipes", "servers"},
                        seen : SUBSET Id, size : 0 .. Cardinality(Id), awaits : SUBSET Id]
      BY <2>2
    <3>2. [walk EXCEPT ![p].seen = walk[p].seen \cup {i}, ![p].awaits = new]
            = [walk EXCEPT ![p] = w]
      <4>1. [[walk[p] EXCEPT !.seen = walk[p].seen \cup {i}] EXCEPT !.awaits = new] = w
        <5> DEFINE half == [walk[p] EXCEPT !.seen = walk[p].seen \cup {i}]
        <5>1. half = [table |-> walk[p].table, seen |-> walk[p].seen \cup {i},
                      size |-> walk[p].size, awaits |-> walk[p].awaits]
          BY <3>1
        <5> HIDE DEF half
        <5>2. [half EXCEPT !.awaits = new] = w
          BY <5>1
        <5> QED BY <5>2 DEF half
      <4> HIDE DEF w
      <4> QED BY <2>2, <4>1
    <3>3. w.table = walk[p].table /\ w.seen = walk[p].seen \cup {i}
      OBVIOUS
    <3>4. w \in [table : {Nobody, "turn", "pipes", "servers"},
                 seen : SUBSET Id, size : 0 .. Cardinality(Id), awaits : SUBSET Id]
      <4>1. new \in SUBSET Id
        BY <1>2 DEF new
      <4> QED BY <1>2, <3>1, <4>1
    <3> HIDE DEF w
    <3> QED BY <2>1, <2>2, <3>2, <3>3, <3>4
  <2>5. NodeLifeTypeOK'
    BY <1>2, <2>1, <2>3, <2>4 DEF LifeInv, NodeLifeTypeOK
  <2>6. Trying' /\ BoundLocked' /\ ClosedHolds'
    BY <1>2, <2>1, <2>4 DEF LifeInv, Trying, BoundLocked, ClosedHolds, Here
  <2>7. HeldTurn' /\ HeldPipe'
    <3> SUFFICES ASSUME NEW q \in Proc, NEW j \in Id
                 PROVE  HeldTurnAt(q, j)' /\ HeldPipeAt(q, j)'
      BY DEF HeldTurn, HeldPipe
    <3>1. HeldTurnAt(q, j) /\ HeldPipeAt(q, j)
      BY DEF LifeInv, HeldTurn, HeldPipe
    <3>2. \/ q # p \/ j # i
          \/ walk[p].table = "turn" /\ turn'[q][j] # "open"
               /\ (turn'[q][j] = turn[q][j] \/ turn'[q][j] = "closed") /\ future' = future
          \/ walk[p].table = "pipes" /\ future'[q][j] # "open"
               /\ (future'[q][j] = future[q][j] \/ future'[q][j] = "closed") /\ turn' = turn
      <4>1. "closed" \in Item
        BY DEF Item
      <4> QED BY <1>2, <2>1, <2>2, <4>1, EntrySet DEF Table
    <3>3. q # p \/ j # i => turn'[q][j] = turn[q][j] /\ future'[q][j] = future[q][j]
      BY <2>1, <2>2
    <3>4. q = p /\ j = i => HeldTurnAt(q, j)' /\ HeldPipeAt(q, j)'
      BY <1>2, <2>1, <2>4, <3>1, <3>2 DEF HeldTurnAt, HeldPipeAt
    <3>5. q # p \/ j # i => HeldTurnAt(q, j)' /\ HeldPipeAt(q, j)'
      BY <1>2, <2>1, <2>4, <3>1, <3>3 DEF HeldTurnAt, HeldPipeAt
    <3> QED BY <3>4, <3>5
  <2>8. \A q \in Proc, j \in Id : /\ turn[q][j] = "deleted" => turn'[q][j] = "deleted"
                                  /\ future[q][j] = "deleted" => future'[q][j] = "deleted"
    BY <2>1, <2>2
  <2>9. PassedFew'
    BY <1>2, <2>8, PassedFewStays DEF LifeInv
  <2> QED BY <2>5, <2>6, <2>7, <2>9 DEF LifeInv
<1> QED BY <1>3, <1>4

LEMMA CloseNextTableStep ==
  ASSUME LifeInv, NEW p \in Proc, CloseNextTable(p)
  PROVE  LifeInv'
<1>1. /\ stage[p] = "closing" /\ walk[p].table \in {"turn", "pipes"}
      /\ Entries(Table(p)) \subseteq LoopPast(p)
      /\ UNCHANGED <<tried, lock, bound, future, turn, passed, held>>
  BY DEF CloseNextTable, AtTable, Nets, Tables
<1>2. CASE Resized(p)
  BY <1>1, <1>2, CloseFails DEF CloseNextTable, Goto
<1>3. CASE ~Resized(p)
  <2>1. /\ stage' = stage
        /\ walk' = [walk EXCEPT ![p] = IF walk[p].table = "turn" THEN WalkOver("pipes", future[p])
                                       ELSE [NoWalk EXCEPT !.table = "servers"]]
    BY <1>3 DEF CloseNextTable
  <2>2. /\ future[p] \in [Id -> Item] /\ turn[p] \in [Id -> Item] /\ DOMAIN walk = Proc
        /\ Cardinality(Id) \in Nat
    BY NodeLifeAssumption, FS_CardinalityType DEF LifeInv, NodeLifeTypeOK
  <2>3. walk'[p] \in [table : {Nobody, "turn", "pipes", "servers"},
                      seen : SUBSET Id, size : 0 .. Cardinality(Id), awaits : SUBSET Id]
    BY <2>1, <2>2, WalkType DEF NoWalk
  <2>4. \A q \in Proc : q # p => walk'[q] = walk[q]
    BY <2>1, <2>2
  <2>5. walk' \in [Proc -> [table : {Nobody, "turn", "pipes", "servers"},
                            seen : SUBSET Id, size : 0 .. Cardinality(Id), awaits : SUBSET Id]]
    BY <2>1, <2>3 DEF LifeInv, NodeLifeTypeOK
  <2>6. NodeLifeTypeOK'
    BY <1>1, <2>1, <2>5 DEF LifeInv, NodeLifeTypeOK
  <2>7. \/ walk[p].table = "turn" /\ walk'[p].table = "pipes" /\ walk'[p].seen = {}
        \/ walk[p].table = "pipes" /\ walk'[p].table = "servers"
    BY <1>1, <2>1, <2>2, WalkType DEF NoWalk
  <2>8. Trying' /\ BoundLocked' /\ ClosedHolds'
    BY <1>1, <2>1, <2>4 DEF LifeInv, Trying, BoundLocked, ClosedHolds, Here
  <2>9. HeldTurn' /\ HeldPipe'
    <3> SUFFICES ASSUME NEW q \in Proc, NEW j \in Id
                 PROVE  HeldTurnAt(q, j)' /\ HeldPipeAt(q, j)'
      BY DEF HeldTurn, HeldPipe
    <3>1. HeldTurnAt(q, j) /\ HeldPipeAt(q, j)
      BY DEF LifeInv, HeldTurn, HeldPipe
    <3>2. CASE q # p
      BY <1>1, <2>1, <2>4, <3>1, <3>2 DEF HeldTurnAt, HeldPipeAt
    <3>3. CASE q = p
      <4>1. \/ Table(p)[j] \in Absent \/ j \in walk[p].seen
            \/ <<walk[p].table, j>> \in passed[p]
        BY <1>1 DEF Entries, LoopPast, Of
      <4>2. CASE walk[p].table = "turn"
        BY <1>1, <2>1, <2>7, <3>1, <3>3, <4>1, <4>2
           DEF HeldTurnAt, HeldPipeAt, Table, Absent, Nobody
      <4>3. CASE walk[p].table = "pipes"
        BY <1>1, <2>1, <2>7, <3>1, <3>3, <4>1, <4>3
           DEF HeldTurnAt, HeldPipeAt, Table, Absent, Nobody
      <4> QED BY <1>1, <4>2, <4>3
    <3> QED BY <3>2, <3>3
  <2>10. PassedFew'
    BY <1>1, PassedFewStays DEF LifeInv
  <2> QED BY <2>6, <2>8, <2>9, <2>10 DEF LifeInv
<1> QED BY <1>2, <1>3

LEMMA ServersStep ==
  ASSUME LifeInv, NEW p \in Proc,
         CloseSocket(p) \/ ReleaseLock(p) \/ CloseReturns(p) \/ Exit(p)
  PROVE  LifeInv'
<1>1. UNCHANGED <<tried, future, turn, walk, passed, held>>
  BY DEF CloseSocket, ReleaseLock, CloseReturns, Exit, Tables, Closing
<1>2. /\ stage \in [Proc -> Stages] /\ lock \in [Addr -> Proc \cup {Nobody}]
      /\ bound \subseteq Proc \X Addr /\ Nobody \notin Proc
  BY NodeLifeAssumption DEF LifeInv, NodeLifeTypeOK
<1>3. /\ stage' \in [Proc -> Stages]
      /\ \A q \in Proc : q # p => stage'[q] = stage[q]
      /\ \/ stage'[p] = stage[p] /\ stage[p] = "closing"
         \/ stage'[p] = "gone"
         \/ /\ stage[p] = "closing" /\ stage'[p] = "closed" /\ walk[p].table = "servers"
            /\ \A a \in Addr : <<p, a>> \notin bound /\ lock[a] # p
            /\ UNCHANGED <<lock, bound>>
  BY <1>2 DEF CloseSocket, ReleaseLock, CloseReturns, Exit, Goto, Nets, Stages
<1>4. /\ bound' \subseteq bound /\ lock' \in [Addr -> Proc \cup {Nobody}]
      /\ \A a \in Addr, q \in Proc : q # p => (lock'[a] = q <=> lock[a] = q)
      /\ \A b \in bound' : lock'[b[2]] = lock[b[2]]
  <2>1. CASE CloseSocket(p)
    BY <1>2, <2>1 DEF CloseSocket
  <2>2. CASE ReleaseLock(p)
    BY <1>2, <2>2 DEF ReleaseLock, LifeInv, BoundLocked
  <2>3. CASE CloseReturns(p)
    BY <1>2, <2>3 DEF CloseReturns, Nets
  <2>4. CASE Exit(p)
    BY <1>2, <2>4 DEF Exit, LifeInv, BoundLocked
  <2> QED BY <2>1, <2>2, <2>3, <2>4
<1>5. NodeLifeTypeOK'
  BY <1>1, <1>2, <1>3, <1>4 DEF LifeInv, NodeLifeTypeOK
<1>6. BoundLocked'
  BY <1>4 DEF LifeInv, BoundLocked
<1>7. Trying'
  <2> SUFFICES ASSUME NEW q \in Proc, stage'[q] \in Early
               PROVE  /\ stage'[q] = "down" => tried[q] = 0
                      /\ stage'[q] \in {"listen", "probe", "bind"} => tried[q] + 1 \in DOMAIN Addrs
                      /\ stage'[q] \in {"probe", "bind"} =>
                           lock'[Here(q)] = q /\ \A b \in bound' : b[2] # Here(q)
    BY <1>1 DEF Trying, Here, Early
  <2>1. q # p /\ stage[q] = stage'[q]
    BY <1>3 DEF Early
  <2>2. stage[q] \in {"listen", "probe", "bind"} => Here(q) \in Addr
    BY HereIs
  <2> QED BY <1>4, <2>1, <2>2 DEF LifeInv, Trying
<1>8. HeldTurn' /\ HeldPipe'
  BY <1>1, <1>3 DEF LifeInv, HeldTurn, HeldPipe, HeldTurnAt, HeldPipeAt
<1>9. ClosedHolds'
  BY <1>1, <1>2, <1>3, <1>4 DEF LifeInv, ClosedHolds
<1>10. PassedFew'
  BY <1>1, PassedFewStays DEF LifeInv
<1> QED BY <1>5, <1>6, <1>7, <1>8, <1>9, <1>10 DEF LifeInv

-----------------------------------------------------------------------------
LEMMA LifeStepHolds == LifeInv /\ [LifeNext]_lifevars => LifeInv'
<1> SUFFICES ASSUME LifeInv, [LifeNext]_lifevars PROVE LifeInv'
  OBVIOUS
<1>1. CASE UNCHANGED lifevars
  <2>1. UNCHANGED <<stage, tried, lock, bound, future, turn, walk, passed, held>>
    BY <1>1 DEF lifevars
  <2> QED BY <2>1 DEF LifeInv, NodeLifeTypeOK, Trying, Here, BoundLocked, HeldTurn, HeldPipe,
                      HeldTurnAt, HeldPipeAt, ClosedHolds, PassedFew
<1>2. ASSUME NEW p \in Proc,
             \/ Start(p) \/ AcquireLock(p) \/ Probe(p) \/ Bind(p)
             \/ \E i \in Id : \/ NewFuture(p, i) \/ NewTurnClient(p, i) \/ PipeReady(p, i)
                              \/ AttemptTimeout(p, i) \/ TurnCleanup(p, i) \/ DeleteFuture(p, i)
             \/ CloseBegin(p) \/ CloseEntry(p) \/ CloseNextTable(p)
             \/ CloseSocket(p) \/ ReleaseLock(p) \/ CloseReturns(p) \/ Exit(p)
      PROVE  LifeInv'
  BY <1>2, StartStep, AcquireLockStep, ProbeStep, BindStep, TableStep, CloseBeginStep,
     CloseEntryStep, CloseNextTableStep, ServersStep
<1> QED BY <1>1, <1>2 DEF LifeNext

LEMMA LifeInvHolds == LifeSpec => []LifeInv
<1> QED BY LifeInitHolds, LifeStepHolds, PTL DEF LifeSpec

\* The tables, locks and stages of every node keep their types.
THEOREM NodeLifeTypesHold == LifeSpec => []NodeLifeTypeOK
<1>1. LifeInv => NodeLifeTypeOK
  BY DEF LifeInv
<1> QED BY LifeInvHolds, <1>1, PTL

\* The lock file of add_listener is enough, without the probe and whatever the
\* system allows: one process listens at an address.
THEOREM ListensAlone == LifeSpec => []OneServerPerAddress
<1>1. LifeInv => OneServerPerAddress
  <2> SUFFICES ASSUME LifeInv, NEW p \in Proc, NEW q \in Proc, NEW a \in Addr,
                      <<p, a>> \in bound, <<q, a>> \in bound
               PROVE  p = q
    BY DEF OneServerPerAddress
  <2> QED BY DEF LifeInv, BoundLocked
<1> QED BY LifeInvHolds, <1>1, PTL

\* close returns with everything closed that was open when it began, but what its
\* loops passed over, at most one entry for each that was deleted; with no server
\* and no lock, whatever attempts did to the tables meanwhile.
THEOREM ReturnsReleased == LifeSpec => []CloseReleases
<1>1. LifeInv => CloseReleases
  <2> SUFFICES ASSUME LifeInv, NEW p \in Proc, stage[p] = "closed"
               PROVE  /\ \A x \in held[p] :
                           (IF x[1] = "turn" THEN turn ELSE future)[p][x[2]] = "open"
                             => x \in passed[p]
                      /\ Few(passed[p], "turn", turn[p]) /\ Few(passed[p], "pipes", future[p])
                      /\ \A a \in Addr : <<p, a>> \notin bound /\ lock[a] # p
    BY DEF CloseReleases, Few
  <2>1. walk[p].table = "servers" /\ \A a \in Addr : <<p, a>> \notin bound /\ lock[a] # p
    BY DEF LifeInv, ClosedHolds
  <2>2. ASSUME NEW x \in held[p]
        PROVE  (IF x[1] = "turn" THEN turn ELSE future)[p][x[2]] = "open" => x \in passed[p]
    <3>1. x[1] \in {"turn", "pipes"} /\ x[2] \in Id /\ x = <<x[1], x[2]>>
      BY DEF LifeInv, NodeLifeTypeOK
    <3>2. HeldTurnAt(p, x[2]) /\ HeldPipeAt(p, x[2])
      BY <3>1 DEF LifeInv, HeldTurn, HeldPipe
    <3>3. CASE x[1] = "turn"
      BY <2>1, <3>1, <3>2, <3>3 DEF HeldTurnAt
    <3>4. CASE x[1] = "pipes"
      BY <2>1, <3>1, <3>2, <3>4 DEF HeldPipeAt
    <3> QED BY <3>1, <3>3, <3>4
  <2>3. Few(passed[p], "turn", turn[p]) /\ Few(passed[p], "pipes", future[p])
    BY DEF LifeInv, PassedFew
  <2> QED BY <2>1, <2>2, <2>3
<1> QED BY LifeInvHolds, <1>1, PTL

-----------------------------------------------------------------------------
(***************************************************************************)
(* Nickname, for any servers and clocks.                                   *)
(***************************************************************************)

Value == Call \cup {NoValue, Empty}

NickTypeOK ==
  /\ usable \in [Server \X AF -> BOOLEAN]
  /\ last \in [Server \X AF -> SUBSET Int]
  /\ row \in [Server -> [value : Value, time : Int]]
  /\ wire \subseteq [to : Server, af : AF, call : Call, updated : Int]
  /\ call \in Call \cup {NoCall} /\ made \subseteq Call
  /\ work \in [Server -> [st : {"idle", "try", "wait", "acked", "failed"}, af : AF]]
  /\ tld \subseteq Server /\ pushed \in Pushes \cup {NoValue}
  /\ late \in BOOLEAN /\ clock \in Int
  /\ fetch \in [st : {"idle", "on", "found", "failed"}, left : SUBSET Server,
                after : Pushes \cup {NoValue}, value : Value]

\* A call in progress is the last one made, and no push stands beside it; the
\* push that stands was made.
OneCall ==
  /\ call # NoCall => call \in made /\ pushed = NoValue
  /\ pushed # NoValue => pushed \in made

\* If no older request was under way, every request is one of the call, and a
\* server that acknowledged a push has its value.
NoneOlder ==
  ~late /\ call # NoCall =>
    /\ \A q \in wire : q.call = call
    /\ call \in Pushes => \A s \in Server : work[s].st = "acked" => row[s].value = call

\* The same of a push that has returned, with the servers that it names.
PushStands ==
  ~late /\ pushed # NoValue =>
    /\ \A q \in wire : q.call = pushed
    /\ \A s \in tld : row[s].value = pushed

\* A fetch knows a push that was made, which is not the call in progress.
FetchAfter == /\ fetch.after # NoValue => fetch.after \in made
              /\ call # NoCall => fetch.after # call

\* What is left of a fetch that knows the push that stands.
FetchLeft ==
  fetch.st = "on" /\ pushed # NoValue /\ fetch.after = pushed => fetch.left \subseteq tld

\* A worker has something to do only while a call is in progress.
Working == \A s \in Server : work[s].st # "idle" => call # NoCall

NickInv == /\ NickTypeOK /\ Working /\ OneCall /\ NoneOlder /\ PushStands /\ FetchAfter
           /\ FetchLeft /\ FetchGetsPush

-----------------------------------------------------------------------------
LEMMA NickInitHolds == NickInit => NickInv
<1> SUFFICES ASSUME NickInit PROVE NickInv
  OBVIOUS
<1> USE DEF NickInit, NoFetch
<1>1. NickTypeOK
  <2>1. row \in [Server -> [value : Value, time : Int]] /\ clock \in Int
    BY DEF Value
  <2>2. work \in [Server -> [st : {"idle", "try", "wait", "acked", "failed"}, af : AF]]
    BY DEF Idle, AF
  <2>3. usable \in [Server \X AF -> BOOLEAN] /\ last \in [Server \X AF -> SUBSET Int]
    OBVIOUS
  <2> QED BY <2>1, <2>2, <2>3 DEF NickTypeOK, Value
<1> QED BY <1>1 DEF NickInv, OneCall, NoneOlder, PushStands, FetchAfter, FetchLeft,
                    FetchGetsPush, Working, Idle

LEMMA TryType == \A af \in AF : Try(af + 1) \in [st : {"try", "failed"}, af : AF]
BY DEF Try, AF

\* The new state of a worker.
LEMMA NewState ==
  ASSUME NickTypeOK, NEW s \in Server, NEW x
  PROVE  [work EXCEPT ![s].st = x] = [work EXCEPT ![s] = [st |-> x, af |-> work[s].af]]
<1>1. [work[s] EXCEPT !.st = x] = [st |-> x, af |-> work[s].af]
  BY DEF NickTypeOK
<1> QED BY <1>1

LEMMA StampType ==
  ASSUME NickTypeOK, NEW c \in Server \X AF, NEW t \in Stamp(c)
  PROVE  t \in Int
<1>1. clock \in Int /\ clock + Skew \in Int
  BY NicknameAssumption DEF NickTypeOK
<1> QED BY <1>1 DEF Stamp

\* The steps of a worker that leave the requests and the rows alone.
LEMMA WorkerStep ==
  ASSUME NickInv, NEW s \in Server, NEW w,
         w \in [st : {"try", "failed", "wait"}, af : AF],
         work[s].st \in {"try", "wait"}, work' = [work EXCEPT ![s] = w],
         last' \in [Server \X AF -> SUBSET Int],
         wire' \subseteq [to : Server, af : AF, call : Call, updated : Int],
         \A q \in wire' : q \in wire \/ q.call = call,
         UNCHANGED <<usable, row, call, tld, pushed, made, late, fetch, clock>>
  PROVE  NickInv'
<1> USE DEF NickInv
<1>1. NickTypeOK'
  BY DEF NickTypeOK
<1>2. \A u \in Server : work'[u].st = "acked" => work[u].st = "acked"
  BY DEF NickTypeOK
<1>3. NoneOlder'
  BY <1>2 DEF NoneOlder
<1>4. PushStands'
  BY DEF PushStands, OneCall, Working
<1>5. Working'
  BY DEF Working, NickTypeOK
<1> QED BY <1>1, <1>3, <1>4, <1>5 DEF OneCall, FetchAfter, FetchLeft, FetchGetsPush

-----------------------------------------------------------------------------
\* One lemma per action.

LEMMA BeginStep == ASSUME NickInv, NEW c \in Call, Begin(c) PROVE NickInv'
<1> USE DEF NickInv
<1>1. /\ call = NoCall /\ c \notin made /\ call' = c /\ made' = made \cup {c}
      /\ pushed' = NoValue /\ late' = (wire # {}) /\ work' = [s \in Server |-> Try(1)]
      /\ UNCHANGED <<usable, last, row, wire, tld, fetch, clock>>
  BY DEF Begin
<1>2. Try(1) = [st |-> "try", af |-> 1]
  BY DEF Try, AF
<1>3. NickTypeOK'
  BY <1>1, <1>2 DEF NickTypeOK, AF
<1>4. c # NoCall /\ c # NoValue
  BY NicknameAssumption
<1>5. OneCall' /\ FetchAfter' /\ Working'
  <2>1. OneCall'
    BY <1>1 DEF OneCall
  <2>2. FetchAfter'
    BY <1>1, <1>4 DEF FetchAfter
  <2>3. Working'
    BY <1>1, <1>4 DEF Working
  <2> QED BY <2>1, <2>2, <2>3
<1>6. NoneOlder'
  <2>1. ~late' => wire = {}
    BY <1>1, Zenon
  <2>2. \A s \in Server : work'[s].st # "acked"
    BY <1>1, <1>2
  <2> QED BY <1>1, <2>1, <2>2 DEF NoneOlder
<1> QED BY <1>1, <1>3, <1>5, <1>6 DEF PushStands, FetchLeft, FetchGetsPush

LEMMA SkipStep == ASSUME NickInv, NEW s \in Server, Skip(s) PROVE NickInv'
<1>1. last' \in [Server \X AF -> SUBSET Int]
  <2>1. <<s, work[s].af>> \in Server \X AF /\ last \in [Server \X AF -> SUBSET Int]
    BY DEF NickInv, NickTypeOK
  <2>2. \A t \in Stamp(<<s, work[s].af>>) : t \in Int
    BY <2>1, StampType DEF NickInv
  <2>3. \/ last' = last
        \/ \E t \in Stamp(<<s, work[s].af>>) :
             last' = [last EXCEPT ![<<s, work[s].af>>] = {t}]
    BY DEF Skip
  <2>4. \A t \in Int : [last EXCEPT ![<<s, work[s].af>>] = {t}] \in [Server \X AF -> SUBSET Int]
    BY <2>1
  <2> QED BY <2>1, <2>2, <2>3, <2>4
<1>2. Try(work[s].af + 1) \in [st : {"try", "failed"}, af : AF]
  BY TryType DEF NickInv, NickTypeOK
<1>3. wire' \subseteq [to : Server, af : AF, call : Call, updated : Int]
  BY DEF NickInv, NickTypeOK, Skip
<1> QED BY <1>1, <1>2, <1>3, WorkerStep DEF Skip

LEMMA SendStep == ASSUME NickInv, NEW s \in Server, Send(s) PROVE NickInv'
<1>1. PICK t \in Stamp(<<s, work[s].af>>) :
        /\ last' = [last EXCEPT ![<<s, work[s].af>>] = {t}]
        /\ wire' = wire \cup {[to |-> s, af |-> work[s].af, call |-> call, updated |-> t]}
  BY DEF Send
<1>2. work[s].af \in AF /\ work[s].st = "try" /\ call \in Call
  BY DEF NickInv, NickTypeOK, Working, Send
<1>3. t \in Int
  BY <1>2, StampType DEF NickInv
<1>4. last' \in [Server \X AF -> SUBSET Int]
  BY <1>1, <1>3 DEF NickInv, NickTypeOK
<1>5. wire' \subseteq [to : Server, af : AF, call : Call, updated : Int]
  BY <1>1, <1>2, <1>3 DEF NickInv, NickTypeOK
<1> DEFINE w == [st |-> "wait", af |-> work[s].af]
<1>6. work' = [work EXCEPT ![s] = w] /\ w \in [st : {"wait"}, af : AF]
  BY <1>2, NewState DEF Send, NickInv
<1>7. \A q \in wire' : q \in wire \/ q.call = call
  BY <1>1
<1> HIDE DEF w
<1> QED BY <1>2, <1>4, <1>5, <1>6, <1>7, WorkerStep DEF Send

LEMMA GiveUpStep == ASSUME NickInv, NEW s \in Server, GiveUp(s) PROVE NickInv'
<1>1. Try(work[s].af + 1) \in [st : {"try", "failed"}, af : AF]
  BY TryType DEF NickInv, NickTypeOK
<1>2. /\ last' \in [Server \X AF -> SUBSET Int]
      /\ wire' \subseteq [to : Server, af : AF, call : Call, updated : Int]
  BY DEF NickInv, NickTypeOK, GiveUp
<1> QED BY <1>1, <1>2, WorkerStep DEF GiveUp

LEMMA TimeoutStep == ASSUME NickInv, NEW s \in Server, Timeout(s) PROVE NickInv'
<1>1. /\ last' \in [Server \X AF -> SUBSET Int]
      /\ wire' \subseteq [to : Server, af : AF, call : Call, updated : Int]
  BY DEF NickInv, NickTypeOK, Timeout
<1> DEFINE w == [st |-> "failed", af |-> work[s].af]
<1>2. work' = [work EXCEPT ![s] = w] /\ w \in [st : {"failed"}, af : AF]
  <2>1. work[s].af \in AF
    BY DEF NickInv, NickTypeOK
  <2> QED BY <2>1, NewState DEF Timeout, NickInv
<1> HIDE DEF w
<1> QED BY <1>1, <1>2, WorkerStep DEF Timeout

LEMMA ReturnStep == ASSUME NickInv, Return PROVE NickInv'
<1> USE DEF NickInv
<1> DEFINE acked == {s \in Server : work[s].st = "acked"}
<1>1. /\ call # NoCall /\ call' = NoCall /\ work' = [s \in Server |-> Idle]
      /\ UNCHANGED <<usable, last, row, wire, made, late, fetch, clock>>
      /\ \/ call \in Pushes /\ tld' = acked /\ pushed' = call
         \/ UNCHANGED <<tld, pushed>>
  BY DEF Return, NamedServers
<1>2. NickTypeOK'
  BY <1>1 DEF NickTypeOK, Idle, AF
<1>3. pushed = NoValue /\ call \in made /\ fetch.after # call
  BY <1>1 DEF OneCall, FetchAfter
<1>4. OneCall' /\ FetchAfter' /\ Working'
  BY <1>1, <1>3 DEF OneCall, FetchAfter, Working, Idle
<1>5. PushStands'
  BY <1>1, <1>3 DEF PushStands, NoneOlder
<1>6. FetchLeft' /\ FetchGetsPush' /\ NoneOlder'
  BY <1>1, <1>3 DEF FetchLeft, FetchGetsPush, NoneOlder
<1> QED BY <1>2, <1>4, <1>5, <1>6

LEMMA HandleStep == ASSUME NickInv, NEW q \in wire, Handle(q) PROVE NickInv'
<1> USE DEF NickInv
<1>1. /\ wire' = wire \ {q}
      /\ UNCHANGED <<usable, last, call, tld, pushed, made, late, fetch, clock>>
  BY DEF Handle
<1>2. q.to \in Server /\ q.af \in AF /\ q.call \in Call /\ q.updated \in Int
  BY DEF NickTypeOK
<1>3. CASE UNCHANGED <<row, work>>
  BY <1>1, <1>3 DEF NickTypeOK, Working, OneCall, NoneOlder, PushStands, FetchAfter,
                    FetchLeft, FetchGetsPush
<1>4. ASSUME NEW r, r \in [value : Value, time : Int],
             row' = [row EXCEPT ![q.to] = r],
             q.call \in Pushes => r.value = q.call, Acknowledge(q)
      PROVE  NickInv'
  <2>1. /\ \A s \in Server : row'[s] = IF s = q.to THEN r ELSE row[s]
        /\ \A s \in Server : \/ work'[s] = work[s]
                            \/ /\ s = q.to /\ call = q.call /\ work[s].st = "wait"
                               /\ work'[s].st = "acked"
    BY <1>2, <1>4 DEF NickTypeOK, Acknowledge
  <2>2. NickTypeOK'
    BY <1>1, <1>2, <1>4 DEF NickTypeOK, Acknowledge
  <2>3. Working'
    BY <1>1, <2>1 DEF Working
  <2>4. NoneOlder'
    <3> SUFFICES ASSUME ~late, call # NoCall, call \in Pushes,
                        NEW s \in Server, work'[s].st = "acked"
                 PROVE  row'[s].value = call
      BY <1>1 DEF NoneOlder
    <3> QED BY <1>1, <1>4, <2>1 DEF NoneOlder
  <2>5. PushStands'
    BY <1>1, <1>4, <2>1 DEF PushStands, NickTypeOK
  <2> QED BY <1>1, <2>2, <2>3, <2>4, <2>5 DEF OneCall, FetchAfter, FetchLeft, FetchGetsPush
<1>5. CASE row[q.to].value = NoValue /\ Acknowledge(q)
           /\ row' = [row EXCEPT ![q.to] =
                [value |-> IF q.call \in Pushes THEN q.call ELSE Empty, time |-> q.updated]]
  <2> DEFINE r == [value |-> IF q.call \in Pushes THEN q.call ELSE Empty, time |-> q.updated]
  <2>1. r \in [value : Value, time : Int] /\ (q.call \in Pushes => r.value = q.call)
    BY <1>2 DEF Value
  <2>2. row' = [row EXCEPT ![q.to] = r] /\ Acknowledge(q)
    BY <1>5
  <2> HIDE DEF r
  <2> QED BY <1>4, <2>1, <2>2
<1>6. CASE /\ Acknowledge(q)
           /\ row' = [row EXCEPT ![q.to] =
                IF q.call \in Pushes
                  THEN [value |-> q.call, time |-> q.updated - Penalty]
                  ELSE [value |-> NoValue, time |-> 0]]
  <2> DEFINE r == IF q.call \in Pushes
                    THEN [value |-> q.call, time |-> q.updated - Penalty]
                    ELSE [value |-> NoValue, time |-> 0]
  <2>1. r \in [value : Value, time : Int] /\ (q.call \in Pushes => r.value = q.call)
    BY <1>2, NicknameAssumption DEF Value
  <2>2. row' = [row EXCEPT ![q.to] = r] /\ Acknowledge(q)
    BY <1>6
  <2> HIDE DEF r
  <2> QED BY <1>4, <2>1, <2>2
<1> QED BY <1>3, <1>5, <1>6 DEF Handle

LEMMA LoseStep == ASSUME NickInv, NEW q \in wire, Lose(q) PROVE NickInv'
BY DEF NickInv, Lose, NickTypeOK, Working, OneCall, NoneOlder, PushStands, FetchAfter,
       FetchLeft, FetchGetsPush

LEMMA TickStep == ASSUME NickInv, Tick PROVE NickInv'
BY DEF NickInv, Tick, NickTypeOK, Working, OneCall, NoneOlder, PushStands, FetchAfter,
       FetchLeft, FetchGetsPush

\* The steps of the reader change its fetch and nothing else.
LEMMA ReaderStep ==
  ASSUME NickInv, UNCHANGED owner, NickTypeOK', FetchAfter', FetchLeft', FetchGetsPush'
  PROVE  NickInv'
BY DEF NickInv, owner, Working, OneCall, NoneOlder, PushStands

LEMMA FetchBeginStep == ASSUME NickInv, FetchBegin PROVE NickInv'
<1>1. /\ UNCHANGED owner
      /\ fetch' = [st |-> "on", left |-> tld, after |-> pushed, value |-> NoValue]
  BY DEF FetchBegin, NoFetch
<1>2. NickTypeOK'
  BY <1>1 DEF NickInv, NickTypeOK, owner, Value
<1>3. FetchAfter' /\ FetchLeft' /\ FetchGetsPush'
  BY <1>1, NicknameAssumption DEF NickInv, owner, OneCall, FetchAfter, FetchLeft, FetchGetsPush,
     NickTypeOK
<1> QED BY <1>1, <1>2, <1>3, ReaderStep

LEMMA FetchNoAnswerStep ==
  ASSUME NickInv, NEW s \in Server, FetchNoAnswer(s) PROVE NickInv'
<1>1. /\ UNCHANGED owner
      /\ fetch' = [fetch EXCEPT !.st = "failed", !.left = fetch.left \ {s}]
  BY DEF FetchNoAnswer
<1>2. NickTypeOK'
  BY <1>1 DEF NickInv, NickTypeOK, owner
<1>3. FetchAfter' /\ FetchLeft' /\ FetchGetsPush'
  BY <1>1 DEF NickInv, owner, FetchAfter, FetchLeft, FetchGetsPush, NickTypeOK
<1> QED BY <1>1, <1>2, <1>3, ReaderStep

LEMMA FetchAnswerStep ==
  ASSUME NickInv, NEW s \in Server, FetchAnswer(s) PROVE NickInv'
<1> DEFINE left == fetch.left \ {s}
<1>1. /\ UNCHANGED owner /\ fetch.st = "on" /\ s \in fetch.left
      /\ \/ /\ fetch'.st = "found" /\ fetch'.value = row[s].value
         \/ /\ fetch'.st \in {"failed", "on"} /\ fetch'.value = fetch.value
      /\ fetch'.left = left /\ fetch'.after = fetch.after
      /\ fetch' = [st |-> fetch'.st, left |-> fetch'.left, after |-> fetch'.after,
                   value |-> fetch'.value]
  BY DEF FetchAnswer, NickInv, NickTypeOK
<1>2. NickTypeOK'
  BY <1>1 DEF NickInv, NickTypeOK, owner
<1>3. FetchAfter' /\ FetchLeft'
  BY <1>1 DEF NickInv, owner, FetchAfter, FetchLeft
<1>4. FetchGetsPush'
  BY <1>1 DEF NickInv, owner, FetchLeft, FetchGetsPush, PushStands
<1> QED BY <1>1, <1>2, <1>3, <1>4, ReaderStep

-----------------------------------------------------------------------------
LEMMA NickInvInductive == NickInv /\ [NickNext]_nickvars => NickInv'
<1> SUFFICES ASSUME NickInv, [NickNext]_nickvars PROVE NickInv'
  OBVIOUS
<1>1. CASE UNCHANGED nickvars
  BY <1>1 DEF nickvars, NickInv, NickTypeOK, Working, OneCall, NoneOlder, PushStands,
              FetchAfter, FetchLeft, FetchGetsPush
<1>2. CASE NickNext
  BY <1>2, BeginStep, SkipStep, SendStep, GiveUpStep, TimeoutStep, ReturnStep, HandleStep,
     LoseStep, TickStep, FetchBeginStep, FetchNoAnswerStep, FetchAnswerStep DEF NickNext
<1> QED BY <1>1, <1>2

\* What the calls, the requests on their way and the rows of the name servers
\* have to do with each other, for any servers, names of calls and clocks: no
\* row is of a call that was not made, none of the servers of a name holds an
\* older value than the one pushed, and a fetch asks the servers of a push.
THEOREM NickInvHolds == NickSpec => []NickInv
BY NickInitHolds, NickInvInductive, PTL DEF NickSpec

\* Nickname.fetch returns what Nickname.push stored under the name, for any
\* number of servers, whichever of them failed or answer first, if no request
\* of an earlier call was still under way.
THEOREM FetchGetsPushHolds == NickSpec => []FetchGetsPush
<1>1. NickInv => FetchGetsPush
  BY DEF NickInv
<1> QED BY <1>1, NickInvHolds, PTL

-----------------------------------------------------------------------------
(***************************************************************************)
(* Signaling, for any lists of servers.                                    *)
(***************************************************************************)

SigTypeOK ==
  /\ loading \in {"signal", "up"}
  /\ attempts \in Nat
  /\ queue \in Seq(Messages)
  /\ current \in [msg : SUBSET Messages, i : Nat, count : Nat, at : SUBSET Loaded, raised : BOOLEAN]
  /\ \A x, y \in current.msg : x = y

\* No message is handed out before the servers are loaded, so the table does
\* not grow under a message.
LoadedFirst == loading = "signal" => queue = <<>> /\ current = NoMessage

\* The first step goes to a server of the peer's; it is a loaded one for a
\* message of the first technique, if the peers share one.
FirstStep ==
  /\ current.i = 0 => current.count = 0
  /\ current.i > 0 => current.at # {}
  /\ current.raised /\ current.i = 0 =>
       \A x \in current.msg : x.m = 1 => Shared(x) = {}

SigInv == SigTypeOK /\ LoadedFirst /\ FirstStep

LEMMA LoadedStartsList ==
  ASSUME SignalingAssumption, NEW x \in Messages, x.m = 1, Shared(x) # {}
  PROVE  RelayOffset(x, 0) \in Loaded
<1> DEFINE loaded == Keep(x.signal, Loaded)
           rest == Keep(x.signal, Range(x.signal) \ Loaded)
<1>1. x.signal \in Seq(Nat) /\ x.signal # <<>>
  BY DEF SignalingAssumption
<1>2. PICK k \in DOMAIN x.signal : x.signal[k] \in Loaded
  BY DEF Shared, Range
<1>3. loaded \in Seq(Nat \cap Loaded) /\ loaded # <<>>
  <2>1. loaded \in Seq(Nat \cap Loaded) /\ \E n \in DOMAIN loaded : loaded[n] = x.signal[k]
    BY <1>1, <1>2, KeepIs
  <2> HIDE DEF loaded
  <2> QED BY <2>1
<1>4. rest \in Seq(Nat \cap (Range(x.signal) \ Loaded))
  BY <1>1, KeepIs
<1>5. ((0 + (x.m - 1)) % Len(x.signal)) + 1 = 1
  <2>1. Len(x.signal) \in Nat \ {0}
    BY <1>1
  <2>2. \A n \in Nat \ {0} : 0 % n = 0
    OBVIOUS
  <2>3. 0 % Len(x.signal) = 0
    BY <2>1, <2>2
  <2>4. 0 + (x.m - 1) = 0
    OBVIOUS
  <2>5. (0 + (x.m - 1)) % Len(x.signal) = 0
    BY <2>3, <2>4, Zenon
  <2>6. 0 + 1 = 1
    OBVIOUS
  <2> QED BY <2>5, <2>6, Zenon
<1> HIDE DEF loaded, rest
<1>6. (loaded \o rest)[1] = loaded[1]
  <2>1. loaded \in Seq(Nat) /\ rest \in Seq(Nat)
    BY <1>3, <1>4
  <2>2. 1 \in 1 .. Len(loaded)
    BY <1>3
  <2> QED BY <2>1, <2>2, ConcatProperties
<1>7. loaded[1] \in Loaded
  BY <1>3
<1> QED BY <1>5, <1>6, <1>7 DEF RelayOffset, Prioritized, loaded, rest


LEMMA SigInitHolds == SigInit => SigInv
<1> SUFFICES ASSUME SigInit PROVE SigInv
  OBVIOUS
<1>1. SigTypeOK
  BY DEF SigInit, SigTypeOK, NoMessage
<1>2. LoadedFirst
  BY DEF SigInit, LoadedFirst
<1>3. FirstStep
  BY DEF SigInit, FirstStep, NoMessage
<1> QED BY <1>1, <1>2, <1>3 DEF SigInv

LEMMA LoadSignalPipeStep ==
  ASSUME SigInv, LoadSignalPipe
  PROVE  SigInv'
<1>1. queue' = <<>> /\ current' = NoMessage
  BY DEF SigInv, LoadedFirst, LoadSignalPipe
<1>2. SigTypeOK'
  BY <1>1 DEF SigInv, SigTypeOK, LoadSignalPipe, NoMessage
<1>3. LoadedFirst'
  BY <1>1 DEF LoadedFirst
<1>4. FirstStep'
  BY <1>1 DEF FirstStep, NoMessage
<1> QED BY <1>2, <1>3, <1>4 DEF SigInv

LEMMA RouteMsgStep ==
  ASSUME SigInv, NEW x \in Messages, RouteMsg(x)
  PROVE  SigInv'
<1>1. SigTypeOK'
  BY DEF SigInv, SigTypeOK, RouteMsg, Loaded
<1>2. LoadedFirst'
  BY DEF LoadedFirst, RouteMsg
<1>3. FirstStep'
  BY DEF SigInv, FirstStep, RouteMsg, Shared, Loaded
<1> QED BY <1>1, <1>2, <1>3 DEF SigInv

LEMMA NextMessageStep ==
  ASSUME SigInv, NextMessage
  PROVE  SigInv'
<1>1. Head(queue) \in Messages /\ Tail(queue) \in Seq(Messages)
  BY DEF SigInv, SigTypeOK, NextMessage
<1>2. current' = [msg |-> {Head(queue)}, i |-> 0, count |-> 0, at |-> {}, raised |-> FALSE]
  BY DEF NextMessage, NoMessage
<1>3. SigTypeOK'
  <2>1. /\ current' \in [msg : SUBSET Messages, i : Nat, count : Nat, at : SUBSET Loaded', raised : BOOLEAN]
        /\ \A x, y \in current'.msg : x = y
    BY <1>1, <1>2
  <2> QED BY <1>1, <2>1 DEF SigInv, SigTypeOK, NextMessage
<1>4. LoadedFirst'
  BY DEF SigInv, LoadedFirst, NextMessage
<1>5. FirstStep'
  BY <1>2 DEF FirstStep
<1> QED BY <1>3, <1>4, <1>5 DEF SigInv

LEMMA RelayStepStep ==
  ASSUME SignalingAssumption, SigInv, RelayStep
  PROVE  SigInv'
<1> DEFINE C == [msg : SUBSET Messages, i : Nat, count : Nat, at : SUBSET Loaded, raised : BOOLEAN]
<1>1. PICK x \in current.msg :
        LET s == RelayOffset(x, current.i) IN
        /\ ~current.raised /\ current.i < Len(x.signal) /\ current.count < RelayLimit
        /\ IF s \notin Loaded
             THEN current' = [current EXCEPT !.raised = TRUE]
             ELSE \E went \in BOOLEAN :
                    current' = [current EXCEPT
                      !.i = @ + 1,
                      !.count = IF went /\ pipes[s].is_connected THEN @ + 1 ELSE @,
                      !.at = @ \cup {s}]
        /\ UNCHANGED <<loading, attempts, success, pipes, queue>>
  BY DEF RelayStep
<1> DEFINE s == RelayOffset(x, current.i)
<1>2. current \in C /\ x \in Messages /\ \A y \in current.msg : y = x
  BY <1>1 DEF SigInv, SigTypeOK
<1>3. /\ loading' = "up" /\ attempts' = attempts /\ queue' = queue /\ Loaded' = Loaded
  <2>1. loading = "up"
    BY DEF SigInv, SigTypeOK, LoadedFirst, NoMessage
  <2>2. UNCHANGED <<loading, attempts, pipes, queue>>
    BY <1>1
  <2> QED BY <2>1, <2>2 DEF Loaded
<1>4. current' \in C /\ current'.msg = current.msg /\ FirstStep'
  <2>1. CASE s \notin Loaded
    <3>1. current' = [current EXCEPT !.raised = TRUE]
      BY <1>1, <2>1
    <3>2. /\ current' \in C /\ current'.msg = current.msg /\ current'.i = current.i
          /\ current'.count = current.count /\ current'.at = current.at
      BY <1>2, <3>1
    <3>3. ASSUME current.i = 0, x.m = 1 PROVE Shared(x) = {}
      BY <1>2, <2>1, <3>3, LoadedStartsList
    <3>4. FirstStep'
      BY <1>2, <1>3, <3>2, <3>3 DEF SigInv, FirstStep, Shared
    <3> QED BY <3>2, <3>4
  <2>2. CASE s \in Loaded
    <3>1. PICK went \in BOOLEAN :
            current' = [current EXCEPT
              !.i = @ + 1,
              !.count = IF went /\ pipes[s].is_connected THEN @ + 1 ELSE @,
              !.at = @ \cup {s}]
      BY <1>1, <2>2
    <3> HIDE DEF s
    <3> DEFINE n == IF went /\ pipes[s].is_connected THEN current.count + 1 ELSE current.count
    <3>2. n \in Nat
      BY <1>2
    <3> HIDE DEF n
    <3>3. current' = [current EXCEPT !.i = current.i + 1, !.count = n, !.at = current.at \cup {s}]
      BY <3>1 DEF n
    <3>4. current' = [msg |-> current.msg, i |-> current.i + 1, count |-> n,
                      at |-> current.at \cup {s}, raised |-> current.raised]
      BY <1>2, <3>3
    <3>5. current.i + 1 # 0 /\ current.i + 1 \in Nat /\ current.at \cup {s} # {}
      BY <1>2
    <3>6. current' \in C
      BY <1>2, <2>2, <3>2, <3>4, <3>5
    <3>7. FirstStep'
      BY <3>4, <3>5 DEF FirstStep
    <3> QED BY <3>4, <3>6, <3>7
  <2> QED BY <2>1, <2>2
<1>5. SigTypeOK'
  BY <1>2, <1>3, <1>4 DEF SigInv, SigTypeOK
<1>6. LoadedFirst'
  BY <1>3 DEF LoadedFirst
<1> QED BY <1>4, <1>5, <1>6 DEF SigInv

LEMMA MessageDoneStep ==
  ASSUME SigInv, MessageDone
  PROVE  SigInv'
<1>1. loading = "up"
  BY DEF SigInv, SigTypeOK, LoadedFirst, MessageDone, Relayed, NoMessage
<1>2. current' = NoMessage
  BY DEF MessageDone
<1>3. SigTypeOK'
  BY <1>2 DEF SigInv, SigTypeOK, MessageDone, NoMessage
<1>4. LoadedFirst'
  BY <1>1 DEF LoadedFirst, MessageDone
<1>5. FirstStep'
  BY <1>2 DEF FirstStep, NoMessage
<1> QED BY <1>3, <1>4, <1>5 DEF SigInv

\* load_signal_pipes comes before any message, and a message of the first
\* technique that both peers have a server for is at such a server, or is about
\* to be handed to one, for any list of servers.
THEOREM SigInvHolds == SigSpec => []SigInv
<1> USE SignalingAssumption
<1>1. ASSUME SigInv, [SigNext]_sigvars PROVE SigInv'
  <2>1. CASE LoadSignalPipe
    BY <1>1, <2>1, LoadSignalPipeStep
  <2>2. CASE NextMessage
    BY <1>1, <2>2, NextMessageStep
  <2>3. CASE RelayStep
    BY <1>1, <2>3, RelayStepStep
  <2>4. CASE MessageDone
    BY <1>1, <2>4, MessageDoneStep
  <2>5. ASSUME NEW x \in Messages, RouteMsg(x) PROVE SigInv'
    BY <1>1, <2>5, RouteMsgStep
  <2>6. CASE UNCHANGED sigvars
    BY <1>1, <2>6 DEF sigvars, SigInv, SigTypeOK, LoadedFirst, FirstStep, Shared, Loaded
  <2> QED BY <1>1, <2>1, <2>2, <2>3, <2>4, <2>5, <2>6 DEF SigNext
<1> QED BY <1>1, SigInitHolds, PTL DEF SigSpec

LEMMA FirstStepSuffices ==
  ASSUME SignalingAssumption, SigInv
  PROVE  SharedServerFirst
<1> SUFFICES ASSUME NEW x \in current.msg, Relayed, x.m = 1, Shared(x) # {}
             PROVE  current.at # {}
  BY DEF SharedServerFirst
<1>1. current.i = 0 => ~current.raised
  BY DEF SigInv, FirstStep
<1>2. PICK y \in current.msg :
        current.raised \/ current.i = Len(y.signal) \/ current.count = RelayLimit
  BY DEF Relayed
<1>3. y.signal \in Seq(Nat) /\ y.signal # <<>>
  BY DEF SigInv, SigTypeOK, SignalingAssumption
<1>4. Len(y.signal) # 0 /\ RelayLimit # 0
  BY <1>3 DEF SignalingAssumption
<1>5. current.i \in Nat
  BY DEF SigInv, SigTypeOK
<1>6. current.i # 0
  BY <1>1, <1>2, <1>4 DEF SigInv, FirstStep
<1> QED BY <1>5, <1>6 DEF SigInv, FirstStep

\* prioritize_sig_pipe_overlap is enough: the first server that a message of
\* the first technique is handed to is one that both peers have, for any lists
\* of servers and any of them that fail to load.
THEOREM SharedServerFirstHolds == SigSpec => []SharedServerFirst
<1> USE SignalingAssumption
<1> QED BY SigInvHolds, FirstStepSuffices, PTL

-----------------------------------------------------------------------------
(***************************************************************************)
(* ToxiTunnel, for any clients, toxics and messages.                       *)
(***************************************************************************)

Message == [src : Stream, k : Nat, to : Stream, left : 1 .. Size,
            toxics : Seq(Toxic), bw : 0 .. Size]

ToxiTypeOK ==
  /\ tunnel \in {"listening", "up", "closing", "server", "closed"}
  /\ stream \in [Stream -> {"none", "open", "closing", "lost"}]
  /\ clients \in Seq(Client) /\ accepted \in Seq(Client) /\ walked \in Nat
  /\ spent \subseteq Toxic /\ patched \subseteq Stream
  /\ awaited \subseteq Stream /\ stopped \subseteq Client
  /\ toxics \in [Direction -> Seq(Toxic)] /\ added \subseteq Toxic
  /\ reading \in [Stream -> {"on", "paused", "stuck"}]
  /\ read \in [Stream -> Nat]
  /\ routers \subseteq Message /\ used \in [Toxic -> Int]
  /\ delivered \in [Stream -> Seq(Stream \X Nat \X Nat)]

\* A message is handled while its pipe is paused, and it is the last one read.
Handled == \A r \in routers : reading[r.src] = "paused" /\ r.k = read[r.src]

\* It goes to each end once.
OneRouter == \A x, y \in routers : x.src = y.src /\ x.to = y.to => x = y

\* What is allotted to a router is no more than it still has to send, and it
\* waits at a bandwidth toxic.
Waits(r) == r.bw > 0 => At(r, {"bandwidth"}) /\ r.bw <= r.left

RoutersOK == Handled /\ OneRouter /\ \A r \in routers : Waits(r)

\* What was sent on a pipe is from before what a router has yet to send on it.
SentBefore ==
  \A p \in Stream : \A i \in DOMAIN delivered[p] :
    /\ delivered[p][i][2] <= read[delivered[p][i][1]]
    /\ \A r \in routers :
         r.src = delivered[p][i][1] /\ r.to = p =>
           Before(delivered[p][i], <<r.src, r.k, Size - r.left + 1>>)

\* What is recorded of a toxic is what it has allotted.
Recorded ==
  \A t \in Toxic : /\ IsFiniteSet(Allotted(t)) /\ used[t] = Cardinality(Allotted(t))
                   /\ used[t] <= Rate

ToxiInv == ToxiTypeOK /\ RoutersOK /\ SentBefore /\ Ordered /\ Recorded

-----------------------------------------------------------------------------
LEMMA ToxiInitHolds == ToxiInit => ToxiInv
<1> SUFFICES ASSUME ToxiInit PROVE ToxiInv
  OBVIOUS
<1> USE DEF ToxiInit
<1>1. ToxiTypeOK
  BY DEF ToxiTypeOK
<1>2. RoutersOK /\ SentBefore /\ Ordered
  BY DEF RoutersOK, Handled, OneRouter, SentBefore, Ordered
<1>3. Recorded
  <2>1. routers = {} /\ \A t \in Toxic : used[t] = 0
    OBVIOUS
  <2>2. ASSUME NEW t \in Toxic PROVE Allotted(t) = {}
    <3>1. \A x : x \notin routers \X (1 .. Size)
      BY <2>1
    <3> QED BY <3>1 DEF Allotted
  <2>3. IsFiniteSet({}) /\ Cardinality({}) = 0 /\ 0 <= Rate
    BY FS_EmptySet, ToxiTunnelAssumption
  <2>4. ASSUME NEW t \in Toxic
        PROVE  /\ IsFiniteSet(Allotted(t)) /\ used[t] = Cardinality(Allotted(t))
               /\ used[t] <= Rate
    BY <2>1, <2>2, <2>3
  <2> QED BY <2>4 DEF Recorded
<1> QED BY <1>1, <1>2, <1>3 DEF ToxiInv

-----------------------------------------------------------------------------
\* The steps that do not touch a message.
LEMMA SetupStep ==
  ASSUME ToxiInv, ToxiTypeOK', UNCHANGED flow PROVE ToxiInv'
BY DEF ToxiInv, flow, RoutersOK, Handled, OneRouter, Waits, At, SentBefore, Ordered,
       Recorded, Allotted

LEMMA ClosedType ==
  ASSUME ToxiTypeOK, NEW st
  PROVE  Closed(st) \in [Stream -> {"none", "open", "closing", "lost"}]
BY DEF ToxiTypeOK, Closed

LEMMA SetUpstreamStep == ASSUME ToxiInv, SetUpstream PROVE ToxiInv'
<1>1. ToxiTypeOK'
  BY DEF ToxiInv, ToxiTypeOK, SetUpstream, setup, flow, slow, closes
<1> QED BY <1>1, SetupStep DEF SetUpstream

LEMMA ConnectStep == ASSUME ToxiInv, NEW c \in Client, Connect(c) PROVE ToxiInv'
<1>1. ToxiTypeOK'
  <2>1. /\ Append(clients, c) \in Seq(Client) /\ Append(accepted, c) \in Seq(Client)
        /\ c \in Stream
    BY DEF ToxiInv, ToxiTypeOK, Stream
  <2>2. [stream EXCEPT ![c] = "open"] \in [Stream -> {"none", "open", "closing", "lost"}]
    BY DEF ToxiInv, ToxiTypeOK
  <2> QED BY <2>1, <2>2 DEF ToxiInv, ToxiTypeOK, Connect, setup, flow, slow, closes
<1> QED BY <1>1, SetupStep DEF Connect

LEMMA LostStep == ASSUME ToxiInv, NEW p \in Stream, Lost(p) PROVE ToxiInv'
<1>1. ToxiTypeOK'
  BY DEF ToxiInv, ToxiTypeOK, Lost, setup, flow, slow, closes
<1> QED BY <1>1, SetupStep DEF Lost

LEMMA AddToxicStep ==
  ASSUME ToxiInv, NEW t \in Toxic, NEW d \in Direction, AddToxic(t, d) PROVE ToxiInv'
<1>1. ToxiTypeOK'
  BY DEF ToxiInv, ToxiTypeOK, AddToxic, ends, flow, slow, closes
<1> QED BY <1>1, SetupStep DEF AddToxic

LEMMA DelToxicStep ==
  ASSUME ToxiInv, NEW t \in Toxic, NEW d \in Direction, DelToxic(t, d) PROVE ToxiInv'
<1>1. ToxiTypeOK'
  <2>1. PICK i \in DOMAIN toxics[d] : toxics' = [toxics EXCEPT ![d] = RemoveAt(toxics[d], i)]
    BY DEF DelToxic
  <2>2. toxics[d] \in Seq(Toxic)
    BY DEF ToxiInv, ToxiTypeOK
  <2>3. RemoveAt(toxics[d], i) \in Seq(Toxic)
    BY <2>2 DEF RemoveAt
  <2> QED BY <2>1, <2>3 DEF ToxiInv, ToxiTypeOK, DelToxic, ends, flow, slow, closes
<1> QED BY <1>1, SetupStep DEF DelToxic

LEMMA CloseStep ==
  ASSUME ToxiInv, CloseBegins \/ CloseClient \/ CloseUpstream \/ PipeClosed \/ CloseServer
  PROVE  ToxiInv'
<1> USE DEF ToxiInv, ToxiTypeOK, setup, flow, ends, slow, closes
<1>1. CASE CloseBegins
  <2>1. ToxiTypeOK'
    BY <1>1 DEF CloseBegins
  <2> QED BY <1>1, <2>1, SetupStep DEF CloseBegins
<1>2. CASE CloseClient
  <2>1. clients[walked + 1] \in Stream /\ walked + 1 \in Nat
    BY <1>2 DEF CloseClient, Stream
  <2>2. ToxiTypeOK'
    BY <1>2, <2>1 DEF CloseClient
  <2> QED BY <1>2, <2>2, SetupStep DEF CloseClient
<1>3. CASE CloseUpstream
  <2>1. ToxiTypeOK'
    BY <1>3 DEF CloseUpstream, Stream
  <2> QED BY <1>3, <2>1, SetupStep DEF CloseUpstream
<1>4. CASE PipeClosed
  <2>1. ToxiTypeOK'
    BY <1>4, ClosedType DEF PipeClosed
  <2> QED BY <1>4, <2>1, SetupStep DEF PipeClosed
<1>5. CASE CloseServer
  <2>1. \E st : stream' = Closed(st)
    BY <1>5 DEF CloseServer
  <2>2. stream' \in [Stream -> {"none", "open", "closing", "lost"}]
    BY <2>1, ClosedType
  <2>3. stopped' \subseteq Client
    <3>1. CASE stopped' = stopped
      BY <3>1
    <3>2. CASE \E i \in DOMAIN accepted : stopped' = {accepted[i]}
      <4>1. PICK i \in DOMAIN accepted : stopped' = {accepted[i]}
        BY <3>2
      <4>2. accepted[i] \in Client
        BY <4>1
      <4> QED BY <4>1, <4>2
    <3> QED BY <1>5, <3>1, <3>2 DEF CloseServer
  <2>4. ToxiTypeOK'
    BY <1>5, <2>2, <2>3 DEF CloseServer
  <2> QED BY <1>5, <2>4, SetupStep DEF CloseServer
<1> QED BY <1>1, <1>2, <1>3, <1>4, <1>5

-----------------------------------------------------------------------------
\* A router is gone, or goes on with its message as another one.
LEMMA GoesOn ==
  ASSUME RoutersOK, NEW r \in routers, NEW N,
         \A x, y \in N : x = y,
         \A x \in N : x.src = r.src /\ x.k = r.k /\ x.to = r.to /\ Waits(x),
         routers' = (routers \ {r}) \cup N, UNCHANGED <<reading, read>>
  PROVE  RoutersOK'
<1>1. Handled'
  BY DEF RoutersOK, Handled
<1>2. OneRouter'
  BY DEF RoutersOK, OneRouter
<1>3. \A x \in routers' : Waits(x)
  BY DEF RoutersOK
<1>4. \A x \in routers' : Waits(x)'
  BY <1>3 DEF Waits, At
<1> QED BY <1>1, <1>2, <1>4 DEF RoutersOK

\* What goes on has sent at least as much.
LEMMA NothingSent ==
  ASSUME ToxiTypeOK, RoutersOK, SentBefore, Ordered, NEW r \in routers,
         NEW N \in SUBSET Message,
         \A x \in N : x.src = r.src /\ x.k = r.k /\ x.to = r.to /\ x.left <= r.left,
         routers' = (routers \ {r}) \cup N, UNCHANGED <<read, delivered>>
  PROVE  SentBefore' /\ Ordered'
<1>1. Ordered'
  BY DEF Ordered, Before
<1>2. ASSUME NEW p \in Stream, NEW i \in DOMAIN delivered[p], NEW x \in routers',
             x.src = delivered[p][i][1], x.to = p
      PROVE  Before(delivered[p][i], <<x.src, x.k, Size - x.left + 1>>)
  <2>1. CASE x \in routers
    BY <1>2, <2>1 DEF SentBefore
  <2>2. CASE x \in N
    <3>1. Before(delivered[p][i], <<r.src, r.k, Size - r.left + 1>>)
      BY <1>2, <2>2 DEF SentBefore
    <3>2. delivered[p][i] \in Stream \X Nat \X Nat
      BY DEF ToxiTypeOK
    <3>3. x.left \in Int /\ r.left \in Int /\ Size \in Int /\ x.left <= r.left /\ x.k = r.k
      BY <2>2, ToxiTunnelAssumption DEF ToxiTypeOK, Message
    <3> QED BY <3>1, <3>2, <3>3 DEF Before
  <2> QED BY <2>1, <2>2
<1>3. SentBefore'
  <2>1. UNCHANGED delivered /\ UNCHANGED read
    OBVIOUS
  <2>2. \A p \in Stream : \A i \in DOMAIN delivered[p] :
          delivered[p][i][2] <= read[delivered[p][i][1]]
    BY DEF SentBefore
  <2> QED BY <1>2, <2>1, <2>2 DEF SentBefore, Before
<1> QED BY <1>1, <1>3

LEMMA LenIsNat == ASSUME NEW S, NEW f \in Seq(S)  PROVE Len(f) \in Nat
OBVIOUS

LEMMA IsList ==
  ASSUME NEW S, NEW n \in Nat, NEW f \in [1 .. n -> S]
  PROVE  f \in Seq(S) /\ Len(f) = n
OBVIOUS

\* The units that a router sends follow those that were sent.
LEMMA SendsInOrder ==
  ASSUME ToxiTypeOK, RoutersOK, SentBefore, Ordered, NEW r \in routers,
         NEW n \in 1 .. r.left, NEW next, Sends(r, n, next),
         next.left # 0 => next \in Message,
         next.src = r.src, next.k = r.k, next.to = r.to, next.left = r.left - n,
         Waits(next)
  PROVE  /\ delivered' \in [Stream -> Seq(Stream \X Nat \X Nat)]
         /\ RoutersOK' /\ SentBefore' /\ Ordered'
<1> DEFINE N == IF next.left = 0 THEN {} ELSE {next}
           from == Size - r.left
           new == [i \in 1 .. n |-> <<r.src, r.k, from + i>>]
<1>1. routers' = (routers \ {r}) \cup N /\ UNCHANGED <<reading, read>>
  BY DEF Sends
<1>2. /\ r.src \in Stream /\ r.k \in Nat /\ r.to \in Stream /\ r.left \in 1 .. Size
      /\ Size \in Nat /\ from \in Nat /\ n \in Nat /\ next.left \in Nat
  <2>1. r \in Message /\ Size \in Nat
    BY ToxiTunnelAssumption DEF ToxiTypeOK
  <2>2. /\ r.src \in Stream /\ r.k \in Nat /\ r.to \in Stream /\ r.left \in 1 .. Size
    BY <2>1 DEF Message
  <2> QED BY <2>1, <2>2
<1>3. RoutersOK'
  <2>1. /\ \A x, y \in N : x = y
        /\ \A x \in N : x.src = r.src /\ x.k = r.k /\ x.to = r.to /\ Waits(x)
    OBVIOUS
  <2> HIDE DEF N
  <2> QED BY <1>1, <2>1, GoesOn
<1>4. CASE stream[r.to] # "open"
  <2>1. UNCHANGED delivered
    BY <1>4 DEF Sends
  <2>2. N \in SUBSET Message
    OBVIOUS
  <2>3. \A x \in N : x.src = r.src /\ x.k = r.k /\ x.to = r.to /\ x.left <= r.left
    BY <1>2
  <2> HIDE DEF N
  <2>4. SentBefore' /\ Ordered'
    BY <1>1, <2>1, <2>2, <2>3, NothingSent
  <2> QED BY <1>3, <2>1, <2>4 DEF ToxiTypeOK
<1>5. CASE stream[r.to] = "open"
  <2> DEFINE old == delivered[r.to]
  <2>1. old \in Seq(Stream \X Nat \X Nat) /\ Len(old) \in Nat
    <3>1. delivered \in [Stream -> Seq(Stream \X Nat \X Nat)]
      BY DEF ToxiTypeOK
    <3>2. old \in Seq(Stream \X Nat \X Nat)
      BY <1>2, <3>1, ZenonT(30)
    <3> HIDE DEF old
    <3> QED BY <3>2, LenIsNat
  <2>2. new \in Seq(Stream \X Nat \X Nat) /\ Len(new) = n
    <3>1. \A i \in 1 .. n : from + i \in Nat
      BY <1>2
    <3>2. \A i \in 1 .. n : <<r.src, r.k, from + i>> \in Stream \X Nat \X Nat
      BY <1>2, <3>1
    <3>3. new \in [1 .. n -> Stream \X Nat \X Nat] /\ n \in Nat
      BY <1>2, <3>2
    <3> HIDE DEF new
    <3> QED BY <3>3, IsList
  <2>3. delivered' = [delivered EXCEPT ![r.to] = old \o new]
    BY <1>5 DEF Sends
  <2>4. old \o new \in Seq(Stream \X Nat \X Nat) /\ Len(old \o new) = Len(old) + n
    BY <2>1, <2>2
  <2>5. /\ \A i \in 1 .. Len(old) : (old \o new)[i] = old[i]
        /\ \A i \in Len(old) + 1 .. Len(old) + n :
             (old \o new)[i] = <<r.src, r.k, from + (i - Len(old))>>
    <3>1. \A i \in 1 .. Len(old) + n :
            (old \o new)[i] = IF i <= Len(old) THEN old[i] ELSE new[i - Len(old)]
      <4> HIDE DEF old, new
      <4> QED BY <1>2, <2>1, <2>2, ConcatProperties
    <3>2. \A i \in 1 .. n : new[i] = <<r.src, r.k, from + i>>
      OBVIOUS
    <3>3. \A i \in Len(old) + 1 .. Len(old) + n :
            /\ i - Len(old) \in 1 .. n /\ i \in 1 .. Len(old) + n /\ ~(i <= Len(old))
      BY <1>2, <2>1
    <3> HIDE DEF old, new
    <3>4. \A i \in 1 .. Len(old) : i \in 1 .. Len(old) + n /\ i <= Len(old)
      BY <1>2, <2>1
    <3>5. \A i \in 1 .. Len(old) : (old \o new)[i] = old[i]
      BY <3>1, <3>4
    <3>6. \A i \in Len(old) + 1 .. Len(old) + n :
            (old \o new)[i] = <<r.src, r.k, from + (i - Len(old))>>
      <4> HIDE DEF from
      <4> QED BY <3>1, <3>2, <3>3
    <3> QED BY <3>5, <3>6
  <2>6. delivered' \in [Stream -> Seq(Stream \X Nat \X Nat)]
    BY <2>3, <2>4 DEF ToxiTypeOK
  <2>7. /\ delivered'[r.to] = old \o new
        /\ \A p \in Stream : p # r.to => delivered'[p] = delivered[p]
    BY <1>2, <2>3 DEF ToxiTypeOK
  <2>8. /\ \A i \in DOMAIN delivered'[r.to] : i \in 1 .. Len(old) + n
        /\ \A i \in 1 .. Len(old) : i \in DOMAIN old
    BY <2>1, <2>4, <2>7
  <2>9. \A i \in 1 .. Len(old) : old[i][1] = r.src => Before(old[i], <<r.src, r.k, from + 1>>)
    BY <1>2, <2>8 DEF SentBefore
  <2>10. \A i \in 1 .. Len(old) : old[i] \in Stream \X Nat \X Nat
    BY <2>1
  <2> HIDE DEF old, new
  <2>11. Ordered'
    <3> SUFFICES ASSUME NEW p \in Stream, NEW i \in DOMAIN delivered'[p],
                        NEW j \in DOMAIN delivered'[p],
                        i < j, delivered'[p][i][1] = delivered'[p][j][1]
                 PROVE  Before(delivered'[p][i], delivered'[p][j])
      BY DEF Ordered, Before
    <3>1. CASE p # r.to
      BY <2>7, <3>1 DEF Ordered
    <3>2. CASE p = r.to /\ j \in 1 .. Len(old)
      <4>1. i \in 1 .. Len(old)
        BY <2>1, <2>8, <3>2
      <4>2. i \in DOMAIN old /\ j \in DOMAIN old
        BY <2>8, <3>2, <4>1
      <4>3. delivered'[p][i] = old[i] /\ delivered'[p][j] = old[j]
        BY <2>5, <2>7, <3>2, <4>1
      <4>4. \A x, y \in DOMAIN old : x < y /\ old[x][1] = old[y][1] => Before(old[x], old[y])
        BY <1>2 DEF Ordered, old
      <4> QED BY <4>2, <4>3, <4>4
    <3>3. CASE p = r.to /\ i \in 1 .. Len(old) /\ j \notin 1 .. Len(old)
      <4>1. j \in Len(old) + 1 .. Len(old) + n
        BY <1>2, <2>1, <2>8, <3>3, SMTT(30)
      <4>2. /\ delivered'[p][j] = <<r.src, r.k, from + (j - Len(old))>>
            /\ delivered'[p][i] = old[i]
        BY <2>5, <2>7, <3>3, <4>1
      <4>3. Before(old[i], <<r.src, r.k, from + 1>>)
        BY <2>9, <3>3, <4>2
      <4>4. from + 1 <= from + (j - Len(old)) /\ from + (j - Len(old)) \in Int
        <5>1. /\ n \in Nat /\ Len(old) \in Nat /\ from \in Nat
              /\ j \in Len(old) + 1 .. Len(old) + n
          BY <1>2, <2>1, <4>1
        <5> HIDE DEF old, from
        <5> QED BY <5>1
      <4>5. old[i][2] \in Nat /\ old[i][3] \in Nat
        BY <2>10, <3>3
      <4> HIDE DEF from
      <4> QED BY <1>2, <4>2, <4>3, <4>4, <4>5 DEF Before
    <3>4. CASE p = r.to /\ i \notin 1 .. Len(old) /\ j \notin 1 .. Len(old)
      <4>1. i \in Len(old) + 1 .. Len(old) + n /\ j \in Len(old) + 1 .. Len(old) + n
        BY <1>2, <2>1, <2>8, <3>4, SMTT(30)
      <4>2. /\ delivered'[p][j] = <<r.src, r.k, from + (j - Len(old))>>
            /\ delivered'[p][i] = <<r.src, r.k, from + (i - Len(old))>>
        BY <2>5, <2>7, <3>4, <4>1
      <4> QED BY <1>2, <2>1, <4>1, <4>2 DEF Before
    <3> QED BY <3>1, <3>2, <3>3, <3>4
  <2>12. ASSUME NEW p \in Stream, NEW i \in DOMAIN delivered'[p]
         PROVE  /\ delivered'[p][i][2] <= read'[delivered'[p][i][1]]
                /\ \A x \in routers' :
                     x.src = delivered'[p][i][1] /\ x.to = p =>
                       Before(delivered'[p][i], <<x.src, x.k, Size - x.left + 1>>)
    <3> DEFINE u == delivered'[p][i]
    <3>1. CASE p # r.to \/ i \in 1 .. Len(old)
      <4>1. i \in DOMAIN delivered[p] /\ u = delivered[p][i]
        BY <2>1, <2>5, <2>7, <2>8, <3>1 DEF old
      <4>2. u \in Stream \X Nat \X Nat
        BY <4>1 DEF ToxiTypeOK
      <4>3. u[2] <= read'[u[1]]
        BY <1>1, <4>1 DEF SentBefore
      <4>4. ASSUME NEW x \in routers', x.src = u[1], x.to = p
            PROVE  Before(u, <<x.src, x.k, Size - x.left + 1>>)
        <5>1. CASE x \in routers
          BY <4>1, <4>4, <5>1 DEF SentBefore
        <5>2. CASE x = next /\ next.left # 0
          <6>1. Before(u, <<r.src, r.k, Size - r.left + 1>>)
            BY <4>1, <4>4, <5>2 DEF SentBefore
          <6> QED BY <1>2, <4>2, <5>2, <6>1 DEF Before
        <5> QED BY <1>1, <5>1, <5>2
      <4> HIDE DEF u
      <4>5. QED BY <4>3, <4>4 DEF u
    <3>2. CASE p = r.to /\ i \notin 1 .. Len(old)
      <4>1. i \in Len(old) + 1 .. Len(old) + n
        BY <1>2, <2>1, <2>8, <3>2
      <4>2. u = <<r.src, r.k, from + (i - Len(old))>>
        BY <2>5, <2>7, <3>2, <4>1
      <4>3. u[2] <= read'[u[1]]
        BY <1>1, <1>2, <4>2 DEF RoutersOK, Handled
      <4>4. ASSUME NEW x \in routers', x.src = u[1], x.to = p
            PROVE  Before(u, <<x.src, x.k, Size - x.left + 1>>)
        <5>1. x = next
          BY <1>1, <3>2, <4>2, <4>4 DEF RoutersOK, OneRouter
        <5> QED BY <1>2, <2>1, <4>1, <4>2, <5>1, SMTT(30) DEF Before
      <4> QED BY <4>3, <4>4
    <3> QED BY <3>1, <3>2
  <2>13. SentBefore'
    BY <2>12 DEF SentBefore, Before
  <2> QED BY <1>3, <2>6, <2>11, <2>13
<1> QED BY <1>4, <1>5

-----------------------------------------------------------------------------
\* What toxics have allotted, when a router goes on.
LEMMA AllottedIs ==
  ASSUME ToxiTypeOK, NEW r \in routers, NEW N, N \subseteq Message,
         routers' = (routers \ {r}) \cup N, NEW t
  PROVE  \A x : x \in Allotted(t)' <=>
           \/ x \in Allotted(t) /\ x[1] # r
           \/ x \in N \X (1 .. Size) /\ x[2] <= x[1].bw /\ Head(x[1].toxics) = t
BY DEF Allotted

\* Nothing is allotted to a router, nor to the one that goes on.
LEMMA NothingAllotted ==
  ASSUME ToxiTypeOK, Recorded, NEW r \in routers, NEW N, N \subseteq Message,
         r.bw = 0, \A x \in N : x.bw = 0,
         routers' = (routers \ {r}) \cup N, UNCHANGED used
  PROVE  Recorded'
<1>1. ASSUME NEW t PROVE Allotted(t)' = Allotted(t)
  <2>1. \A x \in Allotted(t) : x[1] # r
    BY DEF Allotted
  <2>2. ASSUME NEW x \in N \X (1 .. Size) PROVE ~(x[2] <= x[1].bw)
    <3>1. x[1].bw = 0 /\ x[2] \in 1 .. Size
      OBVIOUS
    <3> QED BY <3>1, ToxiTunnelAssumption
  <2>3. \A x : x \in Allotted(t)' <=> x \in Allotted(t)
    BY <2>1, <2>2, AllottedIs
  <2> QED BY <2>3
<1> QED BY <1>1 DEF Recorded

LEMMA MinOfTwo ==
  ASSUME NEW m \in Int, NEW n \in Int
  PROVE  Min({m, n}) \in {m, n} /\ Min({m, n}) <= m /\ Min({m, n}) <= n
<1>1. \E x \in {m, n} : \A y \in {m, n} : x <= y
  <2>1. CASE m <= n
    BY <2>1
  <2>2. CASE n <= m
    BY <2>2
  <2> QED BY <2>1, <2>2
<1> QED BY <1>1 DEF Min

LEMMA UnitsOf ==
  ASSUME NEW r, NEW n \in Nat
  PROVE  IsFiniteSet({r} \X (1 .. n)) /\ Cardinality({r} \X (1 .. n)) = n
<1>1. IsFiniteSet({r}) /\ Cardinality({r}) = 1
  BY FS_Singleton
<1>2. IsFiniteSet(1 .. n) /\ Cardinality(1 .. n) = n
  BY FS_Interval
<1>3. /\ IsFiniteSet({r} \X (1 .. n))
      /\ Cardinality({r} \X (1 .. n)) = Cardinality({r}) * Cardinality(1 .. n)
  BY <1>1, <1>2, FS_Product
<1> QED BY <1>1, <1>2, <1>3

\* Of two sets of units, one of which is a router's.
LEMMA MoreUnits ==
  ASSUME NEW S, IsFiniteSet(S), NEW r, NEW n \in Nat, \A x \in S : x[1] # r
  PROVE  /\ IsFiniteSet(S \cup ({r} \X (1 .. n)))
         /\ Cardinality(S \cup ({r} \X (1 .. n))) = Cardinality(S) + n
<1> DEFINE T == {r} \X (1 .. n)
<1>1. IsFiniteSet(T) /\ Cardinality(T) = n
  BY UnitsOf
<1>2. S \cap T = {}
  OBVIOUS
<1>3. Cardinality({}) = 0 /\ Cardinality(S) \in Nat
  BY FS_EmptySet, FS_CardinalityType
<1> HIDE DEF T
<1>4. IsFiniteSet(S \cup T) /\ Cardinality(S \cup T) = Cardinality(S) + Cardinality(T) - 0
  BY <1>1, <1>2, <1>3, FS_Union
<1> QED BY <1>1, <1>3, <1>4 DEF T

-----------------------------------------------------------------------------
\* One lemma per step of a router.

LEMMA GetBandwidthStep ==
  ASSUME ToxiInv, NEW r \in routers, GetBandwidth(r) PROVE ToxiInv'
<1> USE DEF ToxiInv
<1> DEFINE t == Head(r.toxics)
           n == Min({r.left, Rate - used[t]})
           next == [r EXCEPT !.bw = n]
<1>1. /\ r \in Message /\ r.toxics # <<>> /\ Kind[t] = "bandwidth" /\ r.bw = 0 /\ n > 0
      /\ used' = [used EXCEPT ![t] = used[t] + n]
      /\ routers' = (routers \ {r}) \cup {next}
      /\ UNCHANGED <<tunnel, ends, setup, reading, read, delivered, slow, closes>>
  BY DEF GetBandwidth, At, ToxiTypeOK
<1>2. t \in Toxic /\ r.left \in 1 .. Size /\ Size \in Nat
  BY <1>1, ToxiTunnelAssumption DEF Message
<1>3. n \in 1 .. r.left /\ used[t] \in Int /\ used[t] + n <= Rate
  <2>1. used[t] \in Int /\ Rate - used[t] \in Int /\ r.left \in Int /\ Rate \in Int
    BY <1>2, ToxiTunnelAssumption DEF ToxiTypeOK
  <2>2. n \in {r.left, Rate - used[t]} /\ n <= r.left /\ n <= Rate - used[t]
    BY <2>1, MinOfTwo
  <2> QED BY <1>1, <2>1, <2>2
<1> HIDE DEF t, n
<1>4. /\ next \in Message /\ next.src = r.src /\ next.k = r.k /\ next.to = r.to
      /\ next.left = r.left /\ next.bw = n /\ next.toxics = r.toxics
  BY <1>1, <1>2, <1>3 DEF Message
<1> DEFINE N == {next}
<1> HIDE DEF next
<1>5. Waits(next)
  BY <1>1, <1>3, <1>4 DEF Waits, At, t
<1>6. /\ N \in SUBSET Message /\ \A x, y \in N : x = y
      /\ \A x \in N : /\ x.src = r.src /\ x.k = r.k /\ x.to = r.to /\ x.left = r.left
                      /\ x.left <= r.left /\ Waits(x)
  BY <1>2, <1>4, <1>5
<1>7. routers' = (routers \ {r}) \cup N
  BY <1>1
<1>8. RoutersOK' /\ SentBefore' /\ Ordered'
  <2> HIDE DEF N
  <2>1. RoutersOK'
    BY <1>1, <1>6, <1>7, GoesOn
  <2>2. /\ N \in SUBSET Message /\ UNCHANGED <<read, delivered>>
        /\ \A x \in N : x.src = r.src /\ x.k = r.k /\ x.to = r.to /\ x.left <= r.left
    BY <1>1, <1>6
  <2>3. ToxiTypeOK /\ RoutersOK /\ SentBefore /\ Ordered
    OBVIOUS
  <2> QED BY <1>7, <2>1, <2>2, <2>3, NothingSent
<1>9. ToxiTypeOK'
  <2>1. [used EXCEPT ![t] = used[t] + n] \in [Toxic -> Int]
    <3>1. used[t] + n \in Int
      BY <1>2, <1>3
    <3> QED BY <3>1 DEF ToxiTypeOK
  <2> HIDE DEF N
  <2> QED BY <1>1, <1>6, <1>7, <2>1 DEF ToxiTypeOK, ends, setup, slow, closes
<1>10. ASSUME NEW u \in Toxic
      PROVE  /\ IsFiniteSet(Allotted(u)') /\ used'[u] = Cardinality(Allotted(u)')
             /\ used'[u] <= Rate
  <2>1. \A x \in Allotted(u) : x[1] \in routers /\ x[1] # r
    BY <1>1 DEF Allotted
  <2>2. IsFiniteSet(Allotted(u)) /\ used[u] = Cardinality(Allotted(u)) /\ used[u] <= Rate
    BY DEF Recorded
  <2>3. \A x : x \in Allotted(u)' <=>
          x \in Allotted(u) \/ (x \in {next} \X (1 .. Size) /\ x[2] <= n /\ t = u)
    <3>1. \A x : x \in Allotted(u)' <=>
            \/ x \in Allotted(u) /\ x[1] # r
            \/ x \in N \X (1 .. Size) /\ x[2] <= x[1].bw /\ Head(x[1].toxics) = u
      <4> HIDE DEF N
      <4> QED BY <1>6, <1>7, AllottedIs
    <3>2. \A x \in {next} \X (1 .. Size) : x[1].bw = n /\ Head(x[1].toxics) = t
      BY <1>4 DEF t
    <3> QED BY <2>1, <3>1, <3>2
  <2>4. CASE u = t
    <3>1. \A x : x \in {next} \X (1 .. n) <=> x \in {next} \X (1 .. Size) /\ x[2] <= n
      BY <1>2, <1>3
    <3>2. Allotted(u)' = Allotted(u) \cup ({next} \X (1 .. n))
      BY <2>3, <2>4, <3>1
    <3>3. next \notin routers
      BY <1>1, <1>3, <1>4 DEF RoutersOK, OneRouter
    <3>4. n \in Nat /\ \A x \in Allotted(u) : x[1] # next
      BY <1>2, <1>3, <2>1, <3>3
    <3>5. /\ IsFiniteSet(Allotted(u)')
          /\ Cardinality(Allotted(u)') = Cardinality(Allotted(u)) + n
      <4>1. /\ IsFiniteSet(Allotted(u) \cup ({next} \X (1 .. n)))
            /\ Cardinality(Allotted(u) \cup ({next} \X (1 .. n))) = Cardinality(Allotted(u)) + n
        BY <2>2, <3>4, MoreUnits
      <4> QED BY <3>2, <4>1
    <3> QED BY <1>1, <1>2, <1>3, <2>2, <2>4, <3>5 DEF ToxiTypeOK
  <2>5. CASE u # t
    <3>1. Allotted(u)' = Allotted(u)
      BY <2>3, <2>5
    <3> QED BY <1>1, <2>2, <2>5, <3>1 DEF ToxiTypeOK
  <2> QED BY <2>4, <2>5
<1>11. Recorded'
  BY <1>10 DEF Recorded
<1> QED BY <1>8, <1>9, <1>11

LEMMA SendAllottedStep ==
  ASSUME ToxiInv, NEW r \in routers, SendAllotted(r) PROVE ToxiInv'
<1> USE DEF ToxiInv
<1> DEFINE t == Head(r.toxics)
           next == [r EXCEPT !.left = r.left - r.bw, !.bw = 0]
           N == IF next.left = 0 THEN {} ELSE {next}
<1>1. /\ r \in Message /\ r.bw > 0 /\ Sends(r, r.bw, next)
      /\ used' = [used EXCEPT ![t] = used[t] - r.bw]
      /\ UNCHANGED <<tunnel, ends, setup, reading, read, slow, closes>>
  BY DEF SendAllotted, Sends, ToxiTypeOK
<1>2. r.toxics # <<>> /\ r.bw <= r.left
  BY <1>1 DEF RoutersOK, Waits, At
<1>3. t \in Toxic /\ r.left \in 1 .. Size /\ Size \in Nat /\ r.bw \in 1 .. r.left
  BY <1>1, <1>2, ToxiTunnelAssumption DEF Message
<1>4. /\ next.src = r.src /\ next.k = r.k /\ next.to = r.to
      /\ next.left = r.left - r.bw /\ next.bw = 0
      /\ next.left # 0 => next \in Message
  <2>1. r.left - r.bw \in 0 .. Size /\ 0 \in 0 .. Size
    BY <1>3
  <2>2. next = [src |-> r.src, k |-> r.k, to |-> r.to, left |-> r.left - r.bw,
                toxics |-> r.toxics, bw |-> 0]
    <3> DEFINE half == [r EXCEPT !.left = r.left - r.bw]
    <3>1. half = [src |-> r.src, k |-> r.k, to |-> r.to, left |-> r.left - r.bw,
                  toxics |-> r.toxics, bw |-> r.bw]
      BY <1>1 DEF Message
    <3>2. next = [half EXCEPT !.bw = 0]
      OBVIOUS
    <3> HIDE DEF half
    <3>3. [half EXCEPT !.bw = 0] = [src |-> r.src, k |-> r.k, to |-> r.to,
             left |-> r.left - r.bw, toxics |-> r.toxics, bw |-> 0]
      BY <3>1
    <3> QED BY <3>2, <3>3
  <2>3. /\ r.src \in Stream /\ r.k \in Nat /\ r.to \in Stream /\ r.toxics \in Seq(Toxic)
    BY <1>1 DEF Message
  <2>4. next.left # 0 => next.left \in 1 .. Size
    BY <2>1, <2>2
  <2> QED BY <2>1, <2>2, <2>3, <2>4 DEF Message
<1>5. routers' = (routers \ {r}) \cup N
  BY <1>1 DEF Sends
<1> HIDE DEF next
<1>6. Waits(next)
  BY <1>4 DEF Waits
<1>7. /\ delivered' \in [Stream -> Seq(Stream \X Nat \X Nat)]
      /\ RoutersOK' /\ SentBefore' /\ Ordered'
  BY <1>1, <1>3, <1>4, <1>6, SendsInOrder
<1>8. N \subseteq Message /\ \A x \in N : x.bw = 0
  BY <1>4
<1> HIDE DEF t, N
<1>9. ToxiTypeOK'
  BY <1>1, <1>3, <1>5, <1>7, <1>8 DEF ToxiTypeOK, ends, setup, slow, closes
<1>10. ASSUME NEW u \in Toxic
      PROVE  /\ IsFiniteSet(Allotted(u)') /\ used'[u] = Cardinality(Allotted(u)')
             /\ used'[u] <= Rate
  <2> DEFINE S == {x \in Allotted(u) : x[1] # r}
  <2>1. IsFiniteSet(Allotted(u)) /\ used[u] = Cardinality(Allotted(u)) /\ used[u] <= Rate
    BY DEF Recorded
  <2>2. Allotted(u)' = S
    <3>1. ASSUME NEW x \in N \X (1 .. Size) PROVE ~(x[2] <= x[1].bw)
      <4>1. x[1].bw = 0 /\ x[2] \in 1 .. Size
        BY <1>8
      <4> QED BY <4>1, ToxiTunnelAssumption
    <3>2. \A x : x \in Allotted(u)' <=> x \in Allotted(u) /\ x[1] # r
      BY <1>5, <1>8, <3>1, AllottedIs
    <3> QED BY <3>2
  <2>3. IsFiniteSet(S)
    BY <2>1, FS_Subset
  <2>4. CASE u = t
    <3>1. Allotted(u) = S \cup ({r} \X (1 .. r.bw))
      BY <1>1, <1>3, <2>4 DEF Allotted, t
    <3>2. \A x \in S : x[1] # r
      OBVIOUS
    <3> HIDE DEF S
    <3>3. Cardinality(Allotted(u)) = Cardinality(S) + r.bw /\ Cardinality(S) \in Nat
      <4>1. r.bw \in Nat
        BY <1>3
      <4>2. /\ Cardinality(S \cup ({r} \X (1 .. r.bw))) = Cardinality(S) + r.bw
            /\ Cardinality(S) \in Nat
        BY <2>3, <3>2, <4>1, MoreUnits, FS_CardinalityType
      <4> QED BY <3>1, <4>2
    <3> QED BY <1>1, <1>3, <2>1, <2>2, <2>3, <2>4, <3>3, ToxiTunnelAssumption DEF ToxiTypeOK
  <2>5. CASE u # t
    <3>1. S = Allotted(u)
      BY <2>5 DEF Allotted, t
    <3> QED BY <1>1, <2>1, <2>2, <2>5, <3>1 DEF ToxiTypeOK
  <2> QED BY <2>4, <2>5
<1>11. Recorded'
  BY <1>10 DEF Recorded
<1> QED BY <1>7, <1>9, <1>11

\* A router that had nothing allotted sends n units.
LEMMA SendsStep ==
  ASSUME ToxiInv, NEW r \in routers, NEW n \in 1 .. r.left, r.bw = 0,
         Sends(r, n, [r EXCEPT !.left = r.left - n]), UNCHANGED used
  PROVE  ToxiInv'
<1> USE DEF ToxiInv
<1> DEFINE next == [r EXCEPT !.left = r.left - n]
           N == IF next.left = 0 THEN {} ELSE {next}
<1>1. /\ routers' = (routers \ {r}) \cup N
      /\ UNCHANGED <<tunnel, ends, setup, reading, read, slow, closes>>
  BY DEF Sends
<1>2. r \in Message /\ r.left \in 1 .. Size /\ Size \in Nat
  BY ToxiTunnelAssumption DEF ToxiTypeOK, Message
<1>3. /\ next.src = r.src /\ next.k = r.k /\ next.to = r.to
      /\ next.left = r.left - n /\ next.bw = 0
      /\ next.left # 0 => next \in Message
  <2>1. next = [src |-> r.src, k |-> r.k, to |-> r.to, left |-> r.left - n,
                toxics |-> r.toxics, bw |-> 0]
    BY <1>2 DEF Message
  <2>2. /\ r.src \in Stream /\ r.k \in Nat /\ r.to \in Stream /\ r.toxics \in Seq(Toxic)
    BY <1>2 DEF Message
  <2>3. next.left # 0 => next.left \in 1 .. Size
    BY <1>2, <2>1
  <2> QED BY <1>2, <2>1, <2>2, <2>3 DEF Message
<1>4. Sends(r, n, next)
  OBVIOUS
<1> HIDE DEF next
<1>5. Waits(next)
  BY <1>3 DEF Waits
<1>6. /\ delivered' \in [Stream -> Seq(Stream \X Nat \X Nat)]
      /\ RoutersOK' /\ SentBefore' /\ Ordered'
  BY <1>3, <1>4, <1>5, SendsInOrder
<1>7. N \subseteq Message /\ \A x \in N : x.bw = 0
  BY <1>3
<1> HIDE DEF N
<1>8. ToxiTypeOK'
  BY <1>1, <1>6, <1>7 DEF ToxiTypeOK, ends, setup, slow, closes
<1>9. Recorded'
  BY <1>1, <1>7, NothingAllotted
<1> QED BY <1>6, <1>8, <1>9

\* Nothing is allotted to a router that is at another toxic.
LEMMA NotAllotted ==
  ASSUME ToxiInv, NEW r \in routers,
         r.toxics = <<>> \/ Kind[Head(r.toxics)] # "bandwidth"
  PROVE  r.bw = 0
<1>1. r.bw \in 0 .. Size /\ Size \in Nat
  BY ToxiTunnelAssumption DEF ToxiInv, ToxiTypeOK, Message
<1>2. ~(r.bw > 0)
  BY DEF ToxiInv, RoutersOK, Waits, At
<1> QED BY <1>1, <1>2

LEMMA ForwardStep == ASSUME ToxiInv, NEW r \in routers, Forward(r) PROVE ToxiInv'
<1>1. r \in Message /\ r.left \in 1 .. r.left
  BY ToxiTunnelAssumption DEF ToxiInv, ToxiTypeOK, Message
<1>2. r.bw = 0
  BY NotAllotted DEF Forward
<1>3. [r EXCEPT !.left = 0] = [r EXCEPT !.left = r.left - r.left]
  BY <1>1
<1>4. Sends(r, r.left, [r EXCEPT !.left = r.left - r.left])
  BY <1>3 DEF Forward
<1> QED BY <1>1, <1>2, <1>4, SendsStep DEF Forward

LEMMA SliceStep == ASSUME ToxiInv, NEW r \in routers, Slice(r) PROVE ToxiInv'
<1>1. r.bw = 0
  BY NotAllotted DEF At, Slice
<1> QED BY <1>1, SendsStep DEF Slice

\* A router to which nothing was allotted goes on, or not, and sends nothing.
LEMMA SilentStep ==
  ASSUME ToxiInv, NEW r \in routers, r.bw = 0, NEW N \in SUBSET Message,
         \A x, y \in N : x = y,
         \A x \in N : /\ x.src = r.src /\ x.k = r.k /\ x.to = r.to
                      /\ x.left <= r.left /\ x.bw = 0,
         routers' = (routers \ {r}) \cup N,
         stream' \in [Stream -> {"none", "open", "closing", "lost"}],
         spent' \subseteq Toxic, patched' \subseteq Stream,
         UNCHANGED <<tunnel, clients, accepted, setup, reading, read, used, delivered, closes>>
  PROVE  ToxiInv'
<1> USE DEF ToxiInv
<1>1. ToxiTypeOK'
  BY DEF ToxiTypeOK, setup, closes
<1>2. \A x \in N : Waits(x)
  BY DEF Waits
<1>3. RoutersOK'
  BY <1>2, GoesOn
<1>4. SentBefore' /\ Ordered'
  BY NothingSent
<1>5. Recorded'
  BY NothingAllotted
<1> QED BY <1>1, <1>3, <1>4, <1>5

LEMMA PassStep ==
  ASSUME ToxiInv, NEW r \in routers, Pass(r) \/ SlowClose(r) PROVE ToxiInv'
<1> DEFINE next == [r EXCEPT !.toxics = Tail(r.toxics)]
           N == {next}
<1>1. r \in Message /\ r.toxics # <<>> /\ r.left \in Nat
  BY ToxiTunnelAssumption DEF ToxiInv, ToxiTypeOK, Pass, SlowClose, At, Message
<1>7. r.bw = 0
  BY NotAllotted DEF Pass, SlowClose, At
<1>2. Tail(r.toxics) \in Seq(Toxic)
  BY <1>1 DEF Message
<1>3. /\ next \in Message /\ next.src = r.src /\ next.k = r.k /\ next.to = r.to
      /\ next.left = r.left /\ next.bw = 0
  BY <1>1, <1>2, <1>7 DEF Message
<1>4. /\ routers' = (routers \ {r}) \cup N
      /\ UNCHANGED <<tunnel, stream, clients, accepted, setup, reading, read, used,
                    delivered, closes>>
  BY DEF Pass, SlowClose, ends
<1>8. spent' \subseteq Toxic /\ patched' \subseteq Stream
  <2>1. Head(r.toxics) \in Toxic /\ r.to \in Stream
    BY <1>1 DEF Message
  <2> QED BY <2>1 DEF Pass, SlowClose, slow, ToxiInv, ToxiTypeOK
<1> HIDE DEF next
<1>5. /\ N \in SUBSET Message /\ \A x, y \in N : x = y
      /\ \A x \in N : /\ x.src = r.src /\ x.k = r.k /\ x.to = r.to
                      /\ x.left <= r.left /\ x.bw = 0
  BY <1>1, <1>3
<1>6. stream' \in [Stream -> {"none", "open", "closing", "lost"}]
  BY <1>4 DEF ToxiInv, ToxiTypeOK
<1> HIDE DEF N
<1> QED BY <1>4, <1>5, <1>6, <1>7, <1>8, SilentStep

LEMMA StopStep ==
  ASSUME ToxiInv, NEW r \in routers, Block(r) \/ CloseDest(r) PROVE ToxiInv'
<1>1. r.bw = 0
  BY NotAllotted DEF At, Block, CloseDest
<1>2. stream' \in [Stream -> {"none", "open", "closing", "lost"}]
  BY ClosedType DEF ToxiInv, ToxiTypeOK, Block, CloseDest, ends
<1> DEFINE N == {}
<1>3. /\ routers' = (routers \ {r}) \cup N
      /\ UNCHANGED <<tunnel, clients, accepted, setup, reading, read, used, delivered,
                    slow, closes>>
  BY DEF Block, CloseDest, ends
<1>5. spent' \subseteq Toxic /\ patched' \subseteq Stream
  BY <1>3 DEF slow, ToxiInv, ToxiTypeOK
<1>4. /\ N \in SUBSET Message /\ \A x, y \in N : x = y
      /\ \A x \in N : /\ x.src = r.src /\ x.k = r.k /\ x.to = r.to
                      /\ x.left <= r.left /\ x.bw = 0
  OBVIOUS
<1> HIDE DEF N
<1> QED BY <1>1, <1>2, <1>3, <1>4, <1>5, SilentStep

LEMMA ResumeReadingStep ==
  ASSUME ToxiInv, NEW p \in Stream, ResumeReading(p) PROVE ToxiInv'
<1>1. ToxiTypeOK'
  BY DEF ToxiInv, ToxiTypeOK, ResumeReading, ends, setup, slow, closes
<1>2. RoutersOK'
  <2>1. Handled'
    BY DEF ToxiInv, ToxiTypeOK, RoutersOK, Handled, ResumeReading, Message
  <2> QED BY <2>1 DEF ToxiInv, RoutersOK, OneRouter, Waits, At, ResumeReading
<1>3. UNCHANGED <<read, routers, used, delivered>>
  BY DEF ResumeReading
<1>4. SentBefore'
  BY <1>3 DEF ToxiInv, SentBefore, Before
<1>5. Ordered'
  BY <1>3 DEF ToxiInv, Ordered, Before
<1>6. Recorded'
  BY <1>3 DEF ToxiInv, Recorded, Allotted
<1> QED BY <1>1, <1>2, <1>4, <1>5, <1>6 DEF ToxiInv

LEMMA MsgCbStep == ASSUME ToxiInv, NEW p \in Stream, MsgCb(p) PROVE ToxiInv'
<1> USE DEF ToxiInv
<1>1. /\ reading[p] = "on" /\ read' = [read EXCEPT ![p] = read[p] + 1]
      /\ \/ reading' = [reading EXCEPT ![p] = "stuck"] /\ UNCHANGED routers
         \/ /\ reading' = [reading EXCEPT ![p] = "paused"]
            /\ routers' = routers \cup {Router(p, q) : q \in Dests(p)}
      /\ UNCHANGED <<tunnel, ends, setup, used, delivered, slow, closes>>
  BY DEF MsgCb
<1>2. /\ read \in [Stream -> Nat] /\ reading \in [Stream -> {"on", "paused", "stuck"}]
      /\ routers \subseteq Message /\ Size \in Nat /\ Size > 0
      /\ delivered \in [Stream -> Seq(Stream \X Nat \X Nat)]
  BY ToxiTunnelAssumption DEF ToxiTypeOK
<1> DEFINE N == routers' \ routers
<1>3. \A x \in N : /\ x \in Message /\ x.src = p /\ x.k = read[p] + 1
                   /\ x.left = Size /\ x.bw = 0 /\ reading'[p] = "paused"
  <2> SUFFICES ASSUME NEW x \in N
               PROVE  /\ x \in Message /\ x.src = p /\ x.k = read[p] + 1
                      /\ x.left = Size /\ x.bw = 0 /\ reading'[p] = "paused"
    OBVIOUS
  <2>1. PICK q \in Dests(p) : x = Router(p, q)
    BY <1>1
  <2>2. q \in Stream
    <3>1. clients \in Seq(Client)
      BY DEF ToxiTypeOK
    <3> QED BY <3>1 DEF Dests, Stream, Range
  <2>3. toxics[Ways(p)] \in Seq(Toxic)
    BY DEF ToxiTypeOK, Ways, Direction
  <2>4. reading'[p] = "paused"
    BY <1>1, <1>2
  <2> QED BY <1>2, <2>1, <2>2, <2>3, <2>4 DEF Router, Message
<1>4. \A x, y \in N : x.to = y.to => x = y
  BY <1>1 DEF Router
<1>5. routers \subseteq routers' /\ routers' = routers \cup N
  BY <1>1
<1> HIDE DEF N
<1>6. \A x \in routers : x.src # p
  BY <1>1 DEF RoutersOK, Handled
<1>7. ToxiTypeOK'
  <2>1. routers' \subseteq Message
    BY <1>2, <1>3, <1>5
  <2>2. read' \in [Stream -> Nat] /\ reading' \in [Stream -> {"on", "paused", "stuck"}]
    <3>1. read[p] + 1 \in Nat
      BY <1>2
    <3>2. read' \in [Stream -> Nat]
      BY <1>1, <1>2, <3>1
    <3> QED BY <1>1, <1>2, <3>2
  <2>3. UNCHANGED <<tunnel, stream, clients, accepted, toxics, added, used, delivered,
                    spent, patched, walked, awaited, stopped>>
    BY <1>1 DEF ends, setup, slow, closes
  <2> QED BY <2>1, <2>2, <2>3 DEF ToxiTypeOK
<1>8. RoutersOK'
  <2>1. Handled'
    BY <1>1, <1>2, <1>3, <1>5, <1>6 DEF RoutersOK, Handled, Message
  <2>2. OneRouter'
    BY <1>3, <1>4, <1>5, <1>6 DEF RoutersOK, OneRouter
  <2>3. \A x \in routers' : Waits(x)'
    BY <1>3, <1>5 DEF RoutersOK, Waits, At
  <2> QED BY <2>1, <2>2, <2>3 DEF RoutersOK
<1>9. UNCHANGED <<delivered, used>>
  BY <1>1
<1>10. Ordered'
  BY <1>9 DEF Ordered, Before
<1>11. ASSUME NEW q \in Stream, NEW i \in DOMAIN delivered[q]
       PROVE  /\ delivered[q][i][2] <= read'[delivered[q][i][1]]
              /\ \A x \in routers' : x.src = delivered[q][i][1] /\ x.to = q =>
                   Before(delivered[q][i], <<x.src, x.k, Size - x.left + 1>>)
  <2> DEFINE u == delivered[q][i]
  <2>1. u \in Stream \X Nat \X Nat
    BY <1>2
  <2>2. u[2] <= read[u[1]]
    BY DEF SentBefore
  <2>3. u[2] <= read'[u[1]]
    BY <1>1, <1>2, <2>1, <2>2
  <2>4. ASSUME NEW x \in routers, x.src = u[1], x.to = q
        PROVE  Before(u, <<x.src, x.k, Size - x.left + 1>>)
    BY <2>4 DEF SentBefore
  <2>5. ASSUME NEW x \in N, x.src = u[1], x.to = q
        PROVE  Before(u, <<x.src, x.k, Size - x.left + 1>>)
    BY <1>2, <1>3, <2>1, <2>2, <2>5, SMTT(30) DEF Before
  <2> QED BY <1>5, <2>3, <2>4, <2>5
<1>12. SentBefore'
  BY <1>9, <1>11 DEF SentBefore, Before
<1>13. ASSUME NEW t PROVE Allotted(t)' = Allotted(t)
  <2>1. \A x : x \in Allotted(t)' <=> x \in Allotted(t)
    BY <1>2, <1>3, <1>5 DEF Allotted
  <2> QED BY <2>1
<1>14. Recorded'
  BY <1>9, <1>13 DEF Recorded
<1> QED BY <1>7, <1>8, <1>10, <1>12, <1>14

-----------------------------------------------------------------------------
LEMMA ToxiInvInductive == ToxiInv /\ [ToxiNext]_toxivars => ToxiInv'
<1> SUFFICES ASSUME ToxiInv, [ToxiNext]_toxivars PROVE ToxiInv'
  OBVIOUS
<1>1. CASE UNCHANGED toxivars
  <2>1. ToxiTypeOK' /\ UNCHANGED flow
    BY <1>1 DEF toxivars, flow, ToxiInv, ToxiTypeOK
  <2> QED BY <2>1, SetupStep
<1>2. CASE ToxiNext
  BY <1>2, SetUpstreamStep, CloseStep, ConnectStep, LostStep, MsgCbStep, ResumeReadingStep,
     AddToxicStep, DelToxicStep, ForwardStep, PassStep, StopStep, SliceStep,
     GetBandwidthStep, SendAllottedStep DEF ToxiNext
<1> QED BY <1>1, <1>2

\* The routers, the messages they hold and what was sent on a pipe belong
\* together, for any clients, toxics and messages: one router works on the
\* messages of a pipe, in the order in which they were read, and what it has
\* been allotted is recorded with its toxic.
THEOREM ToxiInvHolds == ToxiSpec => []ToxiInv
<1>1. ToxiInit => ToxiInv
  BY ToxiInitHolds
<1> QED BY <1>1, ToxiInvInductive, PTL DEF ToxiSpec

\* What toxic_router sends on of one pipe keeps its order and is sent once,
\* whatever toxics are added and deleted on the way.
THEOREM OrderedHolds == ToxiSpec => []Ordered
<1>1. ToxiInv => Ordered
  BY DEF ToxiInv
<1> QED BY <1>1, ToxiInvHolds, PTL

\* The routers that share a bandwidth toxic are never allotted more than its
\* rate, for any number of them.
THEOREM BandwidthKeptHolds == ToxiSpec => []BandwidthKept
<1>1. ToxiInv => BandwidthKept
  BY DEF ToxiInv, Recorded, BandwidthKept
<1> QED BY <1>1, ToxiInvHolds, PTL

\* What closes a tunnel closes its upstream pipe first, and then all the clients
\* that the server has accepted: those that were open are among them.
CloseInv ==
  /\ CloseEndsTunnel
  /\ \A c \in Client : stream[c] # "none" => \E j \in DOMAIN accepted : accepted[j] = c
  /\ \A c \in stopped : c \in patched /\ \E i \in DOMAIN accepted : accepted[i] = c
  /\ tunnel = "server" => awaited = {Up} \/ (awaited = {} /\ stream[Up] # "open")
  /\ tunnel = "closed" => awaited = {} /\ stream[Up] # "open"

LEMMA CloseInvHeld ==
  ASSUME CloseInv, ToxiTypeOK, \E st : stream' = Closed(st), patched \subseteq patched',
         UNCHANGED <<tunnel, accepted, awaited, stopped>>
  PROVE  CloseInv'
<1>1. \A p \in Stream : /\ stream'[p] = "open" => stream[p] = "open"
                        /\ stream'[p] # "none" => stream[p] # "none"
  BY DEF Closed
<1>2. CloseEndsTunnel'
  <2> SUFFICES ASSUME tunnel = "closed", NEW p \in Stream, stream'[p] = "open"
               PROVE  \E j \in DOMAIN accepted :
                        accepted[j] = p /\ \E i \in 1 .. j : accepted[i] \in stopped \cap patched'
    BY DEF CloseEndsTunnel
  <2>1. stream[p] = "open" /\ CloseEndsTunnel
    BY <1>1 DEF CloseInv
  <2>2. \E j \in DOMAIN accepted :
          accepted[j] = p /\ \E i \in 1 .. j : accepted[i] \in stopped \cap patched
    BY <2>1, Zenon DEF CloseEndsTunnel
  <2> QED BY <2>2
<1>3. ASSUME NEW c \in Client, stream'[c] # "none"
      PROVE  \E j \in DOMAIN accepted : accepted[j] = c
  <2>1. c \in Stream
    BY DEF Stream
  <2>2. stream[c] # "none"
    BY <1>1, <1>3, <2>1
  <2> QED BY <2>2, Zenon DEF CloseInv
<1>4. Up \in Stream
  BY DEF Stream
<1> QED BY <1>1, <1>2, <1>3, <1>4 DEF CloseInv

LEMMA CloseServerStep == ASSUME CloseInv, ToxiTypeOK, CloseServer PROVE CloseInv'
<1>1. /\ tunnel = "server" /\ awaited = {} /\ stream[Up] # "open" /\ awaited' = {}
      /\ UNCHANGED <<accepted, patched>> /\ accepted \in Seq(Client)
  BY DEF CloseServer, CloseInv, ToxiTypeOK, slow
<1>2. \A p \in Stream : /\ stream'[p] = "open" => stream[p] = "open"
                        /\ stream'[p] # "none" => stream[p] # "none"
  BY DEF CloseServer, Closed
<1>3. /\ \A c \in Client : stream'[c] # "none" => \E j \in DOMAIN accepted : accepted[j] = c
      /\ stream'[Up] # "open"
  <2>1. Up \in Stream /\ Client \subseteq Stream
    BY DEF Stream
  <2> QED BY <1>1, <1>2, <2>1 DEF CloseInv
<1>4. CASE \A i \in DOMAIN accepted : ~Raises(i)
  <2>1. stream' = Closed(Client) /\ UNCHANGED stopped
    BY <1>4 DEF CloseServer
  <2>2. \A c \in Client : stream'[c] # "open"
    BY <2>1 DEF Closed, Stream
  <2> QED BY <1>1, <1>3, <2>1, <2>2 DEF CloseInv, CloseEndsTunnel, Stream
<1>5. CASE ~ \A i \in DOMAIN accepted : ~Raises(i)
  <2>1. PICK i \in DOMAIN accepted :
          /\ Raises(i) /\ stream' = Closed({accepted[j] : j \in 1 .. i - 1})
          /\ stopped' = {accepted[i]}
    BY <1>5 DEF CloseServer
  <2>2. ASSUME NEW p \in Stream, stream'[p] = "open"
        PROVE  \E j \in DOMAIN accepted : accepted[j] = p /\ i \in 1 .. j
    <3>1. p \in Client
      BY <1>3, <2>2 DEF Stream
    <3>2. PICK j \in DOMAIN accepted : accepted[j] = p
      BY <1>3, <2>2, <3>1
    <3>3. p \notin {accepted[k] : k \in 1 .. i - 1}
      BY <2>1, <2>2 DEF Closed
    <3>4. j \notin 1 .. i - 1
      BY <3>2, <3>3
    <3>5. j \in Nat /\ i \in Nat /\ j >= 1 /\ i >= 1
      BY <1>1
    <3> QED BY <3>2, <3>4, <3>5
  <2>3. accepted[i] \in patched /\ accepted[i] \in stopped' /\ stopped' = {accepted[i]}
    BY <2>1 DEF Raises
  <2>4. CloseEndsTunnel'
    BY <1>1, <2>2, <2>3 DEF CloseEndsTunnel
  <2> QED BY <1>1, <1>3, <2>3, <2>4 DEF CloseInv
<1> QED BY <1>4, <1>5

LEMMA ClientComesStep ==
  ASSUME CloseInv, ToxiTypeOK, NEW c \in Client, Connect(c) PROVE CloseInv'
<1>1. /\ accepted' = Append(accepted, c) /\ accepted \in Seq(Client)
      /\ stream' = [stream EXCEPT ![c] = "open"] /\ c # Up
      /\ tunnel # "closed" \/ stopped # {}
      /\ UNCHANGED <<tunnel, patched, awaited, stopped>>
  BY ToxiTunnelAssumption DEF Connect, ToxiTypeOK, slow, closes
<1> DEFINE k == Len(accepted) + 1
<1>2. /\ k \in DOMAIN accepted' /\ accepted'[k] = c
      /\ \A i \in DOMAIN accepted : /\ i \in DOMAIN accepted' /\ accepted'[i] = accepted[i]
                                    /\ i \in 1 .. k
  BY <1>1
<1> HIDE DEF k
<1>3. \A p \in Stream : p # c => stream'[p] = stream[p]
  BY <1>1
<1>4. CloseEndsTunnel'
  <2> SUFFICES ASSUME tunnel = "closed", NEW p \in Stream, stream'[p] = "open"
               PROVE  \E j \in DOMAIN accepted' : accepted'[j] = p /\
                        \E i \in 1 .. j : accepted'[i] \in stopped' \cap patched'
    BY <1>1 DEF CloseEndsTunnel
  <2>1. CASE p = c
    <3>1. PICK x \in stopped : TRUE
      BY <1>1
    <3>2. PICK i \in DOMAIN accepted : accepted[i] = x /\ x \in patched
      BY DEF CloseInv
    <3> QED BY <1>1, <1>2, <2>1, <3>1, <3>2
  <2>2. CASE p # c
    <3>1. PICK j \in DOMAIN accepted :
            accepted[j] = p /\ \E i \in 1 .. j : accepted[i] \in stopped \cap patched
      BY <1>3, <2>2 DEF CloseInv, CloseEndsTunnel
    <3>2. \A i \in 1 .. j : i \in DOMAIN accepted
      BY <1>1, <3>1
    <3> QED BY <1>1, <1>2, <3>1, <3>2
  <2> QED BY <2>1, <2>2
<1>5. \A x \in Client : stream'[x] # "none" => \E j \in DOMAIN accepted' : accepted'[j] = x
  BY <1>2, <1>3 DEF CloseInv, Stream
<1>6. \A x \in stopped' : x \in patched' /\ \E i \in DOMAIN accepted' : accepted'[i] = x
  BY <1>1, <1>2 DEF CloseInv
<1>7. stream'[Up] = stream[Up]
  BY <1>1, <1>3 DEF Stream
<1> QED BY <1>1, <1>4, <1>5, <1>6, <1>7 DEF CloseInv

LEMMA CloseInvStep == ASSUME CloseInv, ToxiTypeOK, [ToxiNext]_toxivars PROVE CloseInv'
<1> stream = Closed({})
  BY DEF Closed, ToxiTypeOK
<1>1. CASE UNCHANGED toxivars
  BY <1>1, CloseInvHeld DEF toxivars
<1>2. CASE SetUpstream
  <2>1. /\ tunnel' = "up" /\ stream' = [stream EXCEPT ![Up] = "open"]
        /\ UNCHANGED <<accepted, patched, awaited, stopped>>
    BY <1>2 DEF SetUpstream, slow, closes
  <2>2. \A c \in Client : stream'[c] = stream[c]
    BY <2>1, ToxiTunnelAssumption DEF ToxiTypeOK, Stream
  <2> QED BY <2>1, <2>2 DEF CloseInv, CloseEndsTunnel
<1>3. CASE CloseBegins
  BY <1>3 DEF CloseBegins, CloseInv, CloseEndsTunnel, ends, slow, closes
<1>4. CASE CloseClient
  BY <1>4 DEF CloseClient, CloseInv, CloseEndsTunnel, ends, slow
<1>5. CASE CloseUpstream
  BY <1>5 DEF CloseUpstream, CloseInv, CloseEndsTunnel, ends, slow
<1>6. CASE PipeClosed
  <2>1. /\ stream' = Closed(awaited) /\ awaited' = {} /\ awaited # {}
        /\ UNCHANGED <<tunnel, accepted, patched, stopped>>
    BY <1>6 DEF PipeClosed, slow
  <2>2. tunnel # "closed"
    BY <2>1 DEF CloseInv
  <2>3. tunnel = "server" => stream'[Up] # "open"
    BY <2>1 DEF CloseInv, Closed, Stream
  <2>4. \A c \in Client : stream'[c] # "none" => stream[c] # "none"
    BY <2>1 DEF Closed, Stream
  <2> QED BY <2>1, <2>2, <2>3, <2>4 DEF CloseInv, CloseEndsTunnel
<1>7. CASE CloseServer
  BY <1>7, CloseServerStep
<1>8. ASSUME NEW c \in Client, Connect(c) PROVE CloseInv'
  BY <1>8, ClientComesStep
<1>9. ASSUME NEW p \in Stream, Lost(p) PROVE CloseInv'
  <2>1. /\ stream[p] # "none" /\ stream' = [stream EXCEPT ![p] = "lost"]
        /\ UNCHANGED <<tunnel, accepted, patched, awaited, stopped>>
    BY <1>9 DEF Lost, slow, closes
  <2>2. \A q \in Stream : /\ stream'[q] = "open" => stream[q] = "open"
                          /\ stream'[q] # "none" => stream[q] # "none"
    BY <2>1 DEF ToxiTypeOK
  <2> QED BY <2>1, <2>2 DEF CloseInv, CloseEndsTunnel, Stream
<1>10. ASSUME NEW p \in Stream, MsgCb(p) \/ ResumeReading(p) PROVE CloseInv'
  BY <1>10, CloseInvHeld DEF MsgCb, ResumeReading, ends, slow, closes
<1>11. ASSUME NEW t \in Toxic, NEW d \in Direction, AddToxic(t, d) \/ DelToxic(t, d)
       PROVE  CloseInv'
  BY <1>11, CloseInvHeld DEF AddToxic, DelToxic, ends, slow, closes
<1>12. ASSUME NEW r \in routers, CloseDest(r) PROVE CloseInv'
  BY <1>12, CloseInvHeld DEF CloseDest, slow, closes
<1>13. ASSUME NEW r \in routers, SlowClose(r) PROVE CloseInv'
  BY <1>13, CloseInvHeld DEF SlowClose, ends, closes
<1>14. ASSUME NEW r \in routers,
              \/ Forward(r) \/ Pass(r) \/ Block(r) \/ Slice(r)
              \/ GetBandwidth(r) \/ SendAllotted(r)
       PROVE  CloseInv'
  BY <1>14, CloseInvHeld DEF Forward, Pass, Block, Slice, GetBandwidth, SendAllotted, Sends,
                             ends, slow, closes
<1> QED BY <1>1, <1>2, <1>3, <1>4, <1>5, <1>6, <1>7, <1>8, <1>9, <1>10, <1>11, <1>12,
           <1>13, <1>14 DEF ToxiNext

\* A tunnel that close has ended has no open pipe, for any number of clients that
\* come and end meanwhile: or the server stopped at a client patched by
\* slow_close, and all that came before that client are closed.
THEOREM CloseEndsTunnelHolds == ToxiSpec => []CloseEndsTunnel
<1>1. ToxiInit => CloseInv
  BY DEF ToxiInit, CloseInv, CloseEndsTunnel, Stream
<1>2. ToxiInv /\ CloseInv /\ [ToxiNext]_toxivars => CloseInv'
  BY CloseInvStep DEF ToxiInv
<1>3. CloseInv => CloseEndsTunnel
  BY DEF CloseInv
<1> QED BY <1>1, <1>2, <1>3, ToxiInvHolds, PTL DEF ToxiSpec

-----------------------------------------------------------------------------
(***************************************************************************)
(* PunchChain, for any number of messages.                                 *)
(***************************************************************************)

ChainTypeOK ==
  /\ process \in [Side -> {"punch", "holed", "relay", "returned", "killed"}]
  /\ app \in [Side -> {"none", "open", "closed", "ended"}]
  /\ running \in [Side -> [Pipe -> BOOLEAN]]
  /\ ending \in [Side -> [Pipe -> {"no", "sleep", "done"}]]
  /\ eof \in [Side -> SUBSET Channel]

\* A pipe that punch_close_msg has closed does not run.
DoneIsClosed == \A s \in Side, p \in Pipe : ending[s][p] = "done" => ~running[s][p]

\* No pipe runs, or reads a close message, before it is open.
BeforeRelay ==
  \A s \in Side :
    /\ process[s] = "punch" => ~running[s]["upstream"] /\ ending[s]["upstream"] = "no"
    /\ process[s] \in {"punch", "holed"} => ~running[s]["client"] /\ ending[s]["client"] = "no"
    /\ process[s] = "killed" => ~running[s]["upstream"]

\* An application has a pipe only to a relay, and one that has returned has
\* closed its end of it.
AppsPipe ==
  \A s \in Side : /\ app[s] # "none" => process[s] \in {"relay", "returned"}
                  /\ process[s] = "returned" => "in" \in eof[s]

ChainInv == ChainTypeOK /\ DoneIsClosed /\ BeforeRelay /\ AppsPipe

LEMMA ChainInitHolds == ChainInit => ChainInv
<1> SUFFICES ASSUME ChainInit PROVE ChainInv
  OBVIOUS
<1> USE DEF ChainInit
<1>1. ChainTypeOK
  BY DEF ChainTypeOK
<1>2. DoneIsClosed
  BY DEF DoneIsClosed
<1>3. BeforeRelay
  BY DEF BeforeRelay, Pipe
<1>4. AppsPipe
  BY DEF AppsPipe
<1> QED BY <1>1, <1>2, <1>3, <1>4 DEF ChainInv

\* What a side's steps leave alone is in the invariant as it was.
LEMMA ChainStays ==
  ChainInv /\ UNCHANGED <<process, app, running, ending, eof>> => ChainInv'
BY DEF ChainInv, ChainTypeOK, DoneIsClosed, BeforeRelay, AppsPipe

LEMMA ReadKeeps ==
  ASSUME ChainInv, NEW s \in Side, NEW p \in Pipe, NEW texts,
         ending' = EndingAfter(s, p, texts), UNCHANGED <<process, app, running, eof>>,
         process[s] # "punch", p = "client" => process[s] # "holed"
  PROVE  ChainInv'
<1>1. CASE ending' = ending
  BY <1>1, ChainStays
<1>2. CASE ending' = [ending EXCEPT ![s][p] = "sleep"]
  <2>1. ending' \in [Side -> [Pipe -> {"no", "sleep", "done"}]]
    BY <1>2 DEF ChainInv, ChainTypeOK
  <2>2. \A t \in Side, q \in Pipe : ending'[t][q] = IF t = s /\ q = p THEN "sleep" ELSE ending[t][q]
    BY <1>2 DEF ChainInv, ChainTypeOK
  <2>3. ChainTypeOK' /\ AppsPipe'
    BY <2>1 DEF ChainInv, ChainTypeOK, AppsPipe
  <2>4. DoneIsClosed'
    BY <2>2 DEF ChainInv, DoneIsClosed
  <2>5. BeforeRelay'
    BY <2>2 DEF ChainInv, BeforeRelay, Pipe
  <2> QED BY <2>3, <2>4, <2>5 DEF ChainInv
<1> QED BY <1>1, <1>2 DEF EndingAfter

LEMMA ChainStepKeeps == ChainInv /\ [ChainNext]_chainvars => ChainInv'
<1> SUFFICES ASSUME ChainInv, [ChainNext]_chainvars PROVE ChainInv'
  OBVIOUS
<1> USE DEF ChainInv, ChainTypeOK, DoneIsClosed, BeforeRelay, AppsPipe, Pipe, Channel
<1>1. CASE HolePunched
  BY <1>1, ChainStays DEF HolePunched
<1>2. ASSUME NEW s \in Side, OpenUpstream(s) PROVE ChainInv'
  BY <1>2 DEF OpenUpstream
<1>3. ASSUME NEW s \in Side, StartRelay(s) PROVE ChainInv'
  BY <1>3 DEF StartRelay
<1>4. ASSUME NEW s \in Side, Killed(s) PROVE ChainInv'
  BY <1>4 DEF Killed
<1>5. ASSUME NEW s \in Side, ReadClient(s) PROVE ChainInv'
  <2>1. PICK texts : ending' = EndingAfter(s, "client", texts)
    BY <1>5 DEF ReadClient
  <2>2. /\ UNCHANGED <<process, app, running, eof>> /\ "client" \in Pipe
        /\ process[s] # "punch" /\ process[s] # "holed"
    BY <1>5 DEF ReadClient
  <2> QED BY <2>1, <2>2, ReadKeeps
<1>6. ASSUME NEW s \in Side, ReadUpstream(s) PROVE ChainInv'
  <2>1. PICK texts : ending' = EndingAfter(s, "upstream", texts)
    BY <1>6 DEF ReadUpstream
  <2>2. UNCHANGED <<process, app, running, eof>> /\ "upstream" \in Pipe /\ process[s] # "punch"
    BY <1>6 DEF ReadUpstream
  <2> QED BY <2>1, <2>2, ReadKeeps
<1>7. ASSUME NEW s \in Side, NEW p \in Pipe, PunchClose(s, p) PROVE ChainInv'
  BY <1>7 DEF PunchClose, Behind
<1>8. ASSUME NEW s \in Side, RelayEnds(s) PROVE ChainInv'
  BY <1>8 DEF RelayEnds
<1>9. ASSUME NEW s \in Side, PipeReadyFor(s) PROVE ChainInv'
  BY <1>9 DEF PipeReadyFor
<1>10. ASSUME NEW s \in Side, NEW t, AppSend(s, t) PROVE ChainInv'
  BY <1>10, ChainStays DEF AppSend
<1>11. ASSUME NEW s \in Side, AppClose(s) PROVE ChainInv'
  BY <1>11 DEF AppClose
<1>12. ASSUME NEW s \in Side, AppRead(s) PROVE ChainInv'
  BY <1>12, ChainStays DEF AppRead
<1>13. ASSUME NEW s \in Side, AppEnds(s) PROVE ChainInv'
  BY <1>13 DEF AppEnds
<1>14. CASE UNCHANGED chainvars
  BY <1>14, ChainStays DEF chainvars
<1> QED
  BY <1>1, <1>2, <1>3, <1>4, <1>5, <1>6, <1>7, <1>8, <1>9, <1>10, <1>11, <1>12, <1>13, <1>14
  DEF ChainNext, Forwarding

\* A chain in which nothing is left to do has let go of both pipes of every
\* process that read a close message by itself, and no application is left with
\* a pipe to nowhere, however many messages the applications sent and however
\* the reads fell (do_punching, punch_close_msg and close_patch).
THEOREM EndEndsChainHolds == ChainSpec => []EndEndsChain
<1>1. ChainInv => EndEndsChain
  <2> SUFFICES ASSUME ChainInv, \A s \in Side : Quiet(s), NEW s \in Side, NEW p \in Pipe, ending[s][p] # "no"
               PROVE  process[s] \in {"returned", "killed"} /\ app[s] # "open"
    BY DEF EndEndsChain
  <2>1. process[s] # "holed" /\ process[s] # "punch"
    BY DEF Quiet, ChainInv, BeforeRelay, Pipe
  <2>2. process[s] # "relay"
    <3>1. SUFFICES ASSUME process[s] = "relay" PROVE FALSE
      OBVIOUS
    <3>2. running[s][p] /\ ending[s][p] # "sleep"
      BY <3>1 DEF Quiet
    <3>3. ending[s][p] = "done"
      BY <3>2 DEF ChainInv, ChainTypeOK
    <3> QED BY <3>2, <3>3 DEF ChainInv, DoneIsClosed
  <2>3. process[s] \in {"returned", "killed"}
    BY <2>1, <2>2 DEF ChainInv, ChainTypeOK
  <2>4. app[s] # "open"
    BY <2>3 DEF Quiet, ChainInv, AppsPipe
  <2> QED BY <2>3, <2>4
<1> QED BY <1>1, ChainInitHolds, ChainStepKeeps, PTL DEF ChainSpec
===============================================================================
