------------------------------- MODULE NatTest -------------------------------
(***************************************************************************)
(* fast_nat_test (nic/nat/nat_test.py): which NAT a route is behind, by    *)
(* the RFC 3489 tests put to several STUN servers at once.                 *)
(*                                                                         *)
(* Tests 1 and 2 send to a server's primary address, tests 3 and 4 to its  *)
(* secondary IP; a reply comes from the address the test asks for, if the  *)
(* NAT lets it in.  The first verdict ends the tests; a sub-test ends on   *)
(* its timeout, but its workers, and the packets on the way, live on.      *)
(***************************************************************************)
EXTENDS Integers

CONSTANT StunServer  \* the servers drawn from STUN_CHANGE_SERVERS

OPEN_INTERNET == 1
FULL_CONE == 3
RESTRICT_NAT == 4
RESTRICT_PORT_NAT == 5
SYMMETRIC_NAT == 6
BLOCKED_NAT == 7

NatType == {OPEN_INTERNET, FULL_CONE, RESTRICT_NAT, RESTRICT_PORT_NAT,
            SYMMETRIC_NAT, BLOCKED_NAT}
Unknown == 0
StunSide == {"primary", "secondary"}

VARIABLES
  nat,      \* what the route is behind
  sub,      \* the sub-test that runs, 1 or 2, and 3 when there is a verdict
  sent,     \* the <<test, server>> whose request has been sent
  got,      \* the <<test, server>> whose reply has been received
  first,    \* rip and rport of the first reply to each test; {} before
  fallback, \* q_list[4]
  missed,   \* a reply the NAT lets in had not come when its sub-test ended
  verdict

natvars == <<nat, sub, sent, got, first, fallback, missed, verdict>>

\* NAT_TEST_SCHEMA: where a test sends to, and where its reply comes from, as
\* IP and port of the server.
SendTo(t) == IF t \in {1, 2} THEN <<"primary", "primary">> ELSE <<"secondary", "primary">>
ReplyFrom(t) == CASE t = 1 -> <<"primary", "primary">>
                  [] t = 3 -> <<"secondary", "primary">>
                  [] OTHER -> <<"secondary", "secondary">>

\* A bug: all tests at once.
TestsAll(n) == IF n = 1 THEN 1 .. 4 ELSE {}

Tests(n) == IF n = 1 THEN {1, 2} ELSE {3, 4}

\* The NAT.  It maps the one local socket to an external port per destination
\* if it is symmetric, and lets in what its kind lets in.  No two servers have
\* an IP in common.
Mapping(t, s) == IF nat = SYMMETRIC_NAT THEN <<s, SendTo(t)>> ELSE <<>>
Contacted == {<<x[2], SendTo(x[1])>> : x \in sent}

LetsIn(t, s) ==
  \/ nat \in {OPEN_INTERNET, FULL_CONE}
  \/ nat = RESTRICT_NAT /\ \E port \in StunSide : <<s, <<ReplyFrom(t)[1], port>>>> \in Contacted
  \/ nat = RESTRICT_PORT_NAT /\ <<s, ReplyFrom(t)>> \in Contacted
  \/ nat = SYMMETRIC_NAT /\ ReplyFrom(t) = SendTo(t)

NatInit ==
  /\ nat \in NatType /\ sub = 1
  /\ sent = Tests(1) \X StunServer
  /\ got = {} /\ first = [t \in 1 .. 4 |-> {}]
  /\ fallback = SYMMETRIC_NAT /\ missed = FALSE /\ verdict = Unknown

\* A bug: that both tests were answered is enough.
NonSymmetricAny(q) == q[1] # {} /\ q[3] # {}

\* non_symmetric_check: the first replies to tests 1 and 3, whichever servers
\* they are from, saw one mapping.
NonSymmetric(q) == q[1] # {} /\ q[3] # {} /\ q[1] = q[3]

\* What test_one .. test_four return; test_one knows an open route by its IP.
Result(t) ==
  IF nat = OPEN_INTERNET /\ t \in {1, 2} THEN OPEN_INTERNET
  ELSE CASE t = 2 -> FULL_CONE [] t = 4 -> RESTRICT_NAT [] OTHER -> Unknown

\* nat_test_exec gets its reply, in its sub-test or later: it is queued and
\* the test's code runs.  as_completed sees the results of its own sub-test.
Reply(t, s) ==
  /\ sub # 3 /\ <<t, s>> \in sent \ got /\ LetsIn(t, s)
  /\ got' = got \cup {<<t, s>>}
  /\ first' = IF first[t] = {} THEN [first EXCEPT ![t] = {Mapping(t, s)}] ELSE first
  /\ fallback' = IF t = 3 /\ NonSymmetric(first') THEN RESTRICT_PORT_NAT ELSE fallback
  /\ IF t \in Tests(sub) /\ Result(t) # Unknown
       THEN verdict' = Result(t) /\ sub' = 3
       ELSE UNCHANGED <<verdict, sub>>
  /\ UNCHANGED <<nat, sent, missed>>

\* The sub-test times out: the next one begins, or the verdict is what is
\* left (no_stun_resp_check).
SubTestEnds ==
  /\ sub \in {1, 2}
  /\ missed' = (missed \/ \E x \in sent \ got : x[1] \in Tests(sub) /\ LetsIn(x[1], x[2]))
  /\ sub' = sub + 1
  /\ IF sub = 1 THEN sent' = sent \cup (Tests(2) \X StunServer) /\ UNCHANGED verdict
     ELSE /\ verdict' = IF got = {} THEN BLOCKED_NAT ELSE fallback
          /\ UNCHANGED sent
  /\ UNCHANGED <<nat, got, first, fallback>>

NatNext == SubTestEnds \/ \E t \in 1 .. 4, s \in StunServer : Reply(t, s)

NatSpec == NatInit /\ [][NatNext]_natvars

-----------------------------------------------------------------------------
(* Properties. *)

NatTypeOK ==
  /\ nat \in NatType /\ sub \in 1 .. 3
  /\ sent \subseteq (1 .. 4) \X StunServer /\ got \subseteq sent
  /\ DOMAIN first = 1 .. 4
  /\ fallback \in {SYMMETRIC_NAT, RESTRICT_PORT_NAT}
  /\ missed \in BOOLEAN /\ verdict \in NatType \cup {Unknown}

\* Whatever is lost or late, a route is never taken for one that lets in more
\* than it does: "Both sub test lists can't be run concurrently due to how
\* NATs function with white listing" (nat_test.py:197).
NeverEasier == verdict # Unknown => verdict >= nat

\* When every reply the NAT lets in comes within its sub-test the verdict is
\* what the route is behind, in whatever order they come.
ExactIfAnswered == verdict # Unknown /\ ~missed => verdict = nat
===============================================================================
