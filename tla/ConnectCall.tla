----------------------------- MODULE ConnectCall -----------------------------
(***************************************************************************)
(* What P2PNode.connect promises the application, without saying how a     *)
(* technique works: pipe IDs are drawn one after the other, an attempt with*)
(* a new ID is made only when the one before it has ended without a pipe,  *)
(* the first pipe is the result, and the call fails only when nothing is   *)
(* being tried.                                                            *)
(***************************************************************************)
CONSTANTS Caller, \* the nodes that call connect
          Pid     \* pipe IDs

VARIABLES call,   \* per caller: idle, running, connected or failed
          status, \* per ID: unused, trying, won or lost
          owner   \* per ID: {} or the caller that drew it

cvars == <<call, status, owner>>

Mine(n) == {p \in Pid : n \in owner[p]}

CallInit ==
  /\ call = [n \in Caller |-> "idle"]
  /\ status = [p \in Pid |-> "unused"]
  /\ owner = [p \in Pid |-> {}]

Begin(n) ==
  /\ call[n] = "idle"
  /\ call' = [call EXCEPT ![n] = "running"]
  /\ UNCHANGED <<status, owner>>

Try(n, p) ==
  /\ call[n] = "running" /\ status[p] = "unused"
  /\ \A q \in Mine(n) : status[q] = "lost"
  /\ \E st \in {"trying", "lost"} : status' = [status EXCEPT ![p] = st]
  /\ owner' = [owner EXCEPT ![p] = {n}]
  /\ UNCHANGED call

Lose(n, p) ==
  /\ n \in owner[p] /\ status[p] = "trying"
  /\ status' = [status EXCEPT ![p] = "lost"]
  /\ UNCHANGED <<call, owner>>

Win(n, p) ==
  /\ n \in owner[p] /\ status[p] = "trying" /\ call[n] = "running"
  /\ status' = [status EXCEPT ![p] = "won"]
  /\ call' = [call EXCEPT ![n] = "connected"]
  /\ UNCHANGED owner

GiveUp(n) ==
  /\ call[n] = "running"
  /\ \A q \in Mine(n) : status[q] = "lost"
  /\ call' = [call EXCEPT ![n] = "failed"]
  /\ UNCHANGED <<status, owner>>

CallNext ==
  \E n \in Caller : \/ Begin(n) \/ GiveUp(n)
                    \/ \E p \in Pid : Try(n, p) \/ Lose(n, p) \/ Win(n, p)

Spec == CallInit /\ [][CallNext]_cvars

\* A call that was made returns, with a pipe or without.
Returns(n) == call[n] = "running" ~> call[n] \in {"connected", "failed"}
=============================================================================
