--------------------------- MODULE TurnClientProof ---------------------------
(***************************************************************************)
(* Proofs about TurnClient, for any peers, any number of rounds of         *)
(* async_retry, and any number of late answers and stale nonces.           *)
(*                                                                         *)
(* IInv says what the properties rest on: a loop that waits does so for a  *)
(* message of its own; the state leaves "new" with the first allocation    *)
(* task and is not "new" again while the client is open; the future of a   *)
(* permission is set by nothing but the server's grant; the futures of     *)
(* start() are forced only by the closing; the tasks are gathered after    *)
(* the loop that makes them has ended; and a refresher that runs on after  *)
(* they were has been in the last round of a call.                         *)
(***************************************************************************)
EXTENDS TurnClient, TLAPS

\* A loop that waits, or is about to, is in a call and a round it may make.
Asked ==
  \A l \in Loop : /\ at[l] \in {"new", "wait"} => wake[l] \in 1 .. MaxWakes[l]
                  /\ at[l] = "wait" => round[l] \in 1 .. Rounds

\* While the client is open, an allocation task was made only with "try".
OneTask ==
  PipeOpen => at["again"] = "idle" /\ (wake["signed"] # 0 => state = "try")

\* What the loop of replies holds was sent by the server, and the future of
\* a permission's message was set by a grant.
Granted ==
  /\ hand \subseteq replies
  /\ \A t \in Txid : t[1] \in Peer /\ status[t] = "set" => <<t, "ok">> \in replies
  /\ AcceptedIsGranted

\* The address (0, 0) comes from the closing.
Forced == StartedHasRelay /\ (relay = "zero" => ~PipeOpen)

\* The client stops in a close() that is past its pipe, and stays stopped
\* once the loop of replies ended, which is before the tasks are gathered.
Stopping ==
  /\ state = "stopped" => ~PipeOpen
  /\ rx = "ended" => state = "stopped"
  /\ \A c \in Closer : closing[c] \in {"tasks", "stuck", "closed"} => rx = "ended"
  /\ closing["app"] # "no" => start # "idle"

\* A refresher exists once start() returned; one that closes its client, or
\* is about to, has been in the last round of a call.
Refresher ==
  /\ start # "started" => at["refresh"] = "idle" /\ closing["refresh"] = "no"
  /\ at["refresh"] = "wait" => status[Tx("refresh")] # "none"
  /\ at["refresh"] = "failed" \/ closing["refresh"] # "no" => LastRoundUsed

\* The tasks were gathered.
Done == \/ closing["refresh"] = "closed"
        \/ closing["app"] = "closed" /\ closing["refresh"] = "no"

\* No task but the refresher waits or is asleep.
Quiet == \A l \in Tasks : at[l] \notin {"new", "wait"} /\ (l \in Peer => at[l] # "ok")

\* start() will not make a refresher any more.
NeverStarts ==
  \/ start \in {"started", "failed"}
  \/ /\ start = "retry" /\ at["unauth"] \in {"wait", "failed"}
     /\ at["unauth"] = "wait" => status[Tx("unauth")] # "set"

Gathered == Done => Quiet /\ NeverStarts /\ (Refreshes => LastRoundUsed)

IInv == /\ TypeOK /\ Asked /\ OneTask /\ Granted /\ Forced
        /\ Stopping /\ Refresher /\ Gathered

-----------------------------------------------------------------------------
(* Transaction IDs. *)
LEMMA TxidMade ==
  ASSUME NEW l \in Loop, NEW w \in 1 .. MaxWakes[l], NEW i \in 1 .. Rounds
  PROVE  <<l, w, i>> \in Txid
BY DEF Txid

LEMMA TxidParts ==
  ASSUME NEW t \in Txid
  PROVE  t[1] \in Loop /\ t = <<t[1], t[2], t[3]>>
<1>1. PICK l \in Loop : t \in {l} \X (1 .. MaxWakes[l]) \X (1 .. Rounds)
  BY DEF Txid
<1> QED BY <1>1

LEMMA LoopParts ==
  /\ Signed \subseteq Loop /\ Peer \subseteq Loop
  /\ {"unauth", "signed", "again", "refresh"} \subseteq Loop
  /\ Peer \cap {"unauth", "signed", "again", "refresh"} = {}
BY TurnAssumption DEF Loop, Allocator, Signed

\* A round that begins keeps the types and waits for its own message.
LEMMA BeginTyped ==
  ASSUME TypeOK, Asked, NEW l \in Loop, NEW w \in 1 .. MaxWakes[l],
         NEW i \in 1 .. Rounds,
         NEW futures \in [Txid -> {"none", "pending", "set", "cancelled"}],
         Begin(l, w, i, futures)
  PROVE  /\ at' \in [Loop -> {"idle", "new", "wait", "ok", "failed", "ended", "raised"}]
         /\ wake' \in [Loop -> Nat] /\ round' \in [Loop -> 0 .. Rounds]
         /\ status' \in [Txid -> {"none", "pending", "set", "cancelled"}]
         /\ sent' \subseteq Request
         /\ Asked'
<1>1. <<l, w, i>> \in Txid
  BY TxidMade
<1>2. w \in Nat /\ i \in 0 .. Rounds
  BY TurnAssumption
<1>3. Signature(l) \in Credential
  BY DEF Signature, TypeOK, Credential
<1>4. << <<l, w, i>>, Signature(l) >> \in Request
  BY <1>1, <1>3 DEF Request
<1>5. sent' \subseteq Request
  <2>1. sent \subseteq Request
    BY DEF TypeOK
  <2> QED BY <1>4, <2>1 DEF Begin
<1>6. at' \in [Loop -> {"idle", "new", "wait", "ok", "failed", "ended", "raised"}]
  BY DEF Begin, TypeOK
<1>7. wake' \in [Loop -> Nat]
  BY <1>2 DEF Begin, TypeOK
<1>8. round' \in [Loop -> 0 .. Rounds]
  BY <1>2 DEF Begin, TypeOK
<1>9. status' \in [Txid -> {"none", "pending", "set", "cancelled"}]
  BY DEF Begin
<1>10. Asked'
  BY DEF Begin, TypeOK, Asked
<1> QED BY <1>5, <1>6, <1>7, <1>8, <1>9, <1>10

\* A pass over a reply keeps the types, and the task it may make is asked for.
LEMMA HandleTyped ==
  ASSUME TypeOK, Asked, NEW t \in Txid, NEW v \in Verdict, Handle(t, v)
  PROVE  TypeOK' /\ Asked'
<1> USE DEF TypeOK
<1>1. nonce' \in Credential /\ relay' \in {"none", "addr", "zero"} /\ auth' \in BOOLEAN
  <2>1. CASE Dropped(t, v)
    BY <2>1 DEF Handle, client
  <2>2. CASE ~Dropped(t, v)
    BY <2>2 DEF Handle, Learned, Credential
  <2> QED BY <2>1, <2>2
<1>2. /\ state' \in {"new", "try", "stopped"} /\ rx' \in {"run", "ended", "dead"}
      /\ at' \in [Loop -> {"idle", "new", "wait", "ok", "failed", "ended", "raised"}]
      /\ wake' \in [Loop -> Nat]
      /\ status' \in [Txid -> {"none", "pending", "set", "cancelled"}]
      /\ Asked'
  <2> DEFINE l == IF wake["signed"] = 0 THEN "signed" ELSE "again"
  <2>1. l \in Loop /\ MaxWakes[l] \in Nat \ {0}
    BY LoopParts, TurnAssumption
  <2>2. round' = round
    BY DEF Handle
  <2>3. CASE UNCHANGED <<state, at, wake, status, rx>>
    BY <2>2, <2>3 DEF Asked
  <2>4. CASE rx' = "dead" /\ UNCHANGED <<state, at, wake, status>>
    BY <2>2, <2>4 DEF Asked
  <2>5. CASE /\ UNCHANGED <<rx, state, at, wake>>
             /\ status' = [status EXCEPT ![t] = "set"]
    BY <2>2, <2>5 DEF Asked
  <2>6. CASE /\ UNCHANGED rx /\ state' = "try"
             /\ status' = [status EXCEPT ![t] = "set"]
             /\ at' = [at EXCEPT ![l] = "new"] /\ wake' = [wake EXCEPT ![l] = 1]
    <3> HIDE DEF l
    <3>1. Asked'
      BY <2>1, <2>2, <2>6 DEF Asked
    <3> QED BY <2>1, <2>6, <3>1
  <2> QED BY <2>3, <2>4, <2>5, <2>6 DEF Handle, Settle, client
<1> QED BY <1>1, <1>2 DEF Handle, server

LEMMA InitHolds == Init => IInv
<1> SUFFICES ASSUME Init PROVE IInv
  OBVIOUS
<1>1. TypeOK
  <2>1. 0 \in 0 .. MaxStale /\ 0 \in 0 .. MaxLate /\ 0 \in 0 .. Rounds /\ 0 \in Nat
    BY TurnAssumption
  <2>2. auth \in BOOLEAN
    BY DEF Init
  <2>3. /\ at \in [Loop -> {"idle", "new", "wait", "ok", "failed", "ended", "raised"}]
        /\ wake \in [Loop -> Nat] /\ round \in [Loop -> 0 .. Rounds]
        /\ status \in [Txid -> {"none", "pending", "set", "cancelled"}]
    BY <2>1 DEF Init
  <2> QED BY <2>1, <2>2, <2>3 DEF Init, TypeOK, Credential
<1>2. Asked /\ OneTask /\ Forced /\ Gathered
  BY LoopParts DEF Init, Asked, OneTask, Forced, Gathered, StartedHasRelay,
                   Done, PipeOpen, Closer
<1>3. Granted
  BY LoopParts DEF Init, Granted, AcceptedIsGranted
<1>4. Stopping /\ Refresher
  BY LoopParts DEF Init, Stopping, Refresher, Closer
<1> QED BY <1>1, <1>2, <1>3, <1>4 DEF IInv

-----------------------------------------------------------------------------
(* The types. *)
\* Cancelling the tasks keeps the types and starts no call.
LEMMA CancelTyped ==
  ASSUME TypeOK, Asked, NEW fate \in {"ok", "ended", at["refresh"]}, CancelTasks(fate),
         fate = at["refresh"] \/ fate \in {"ok", "ended"}
  PROVE  /\ at' \in [Loop -> {"idle", "new", "wait", "ok", "failed", "ended", "raised"}]
         /\ status' \in [Txid -> {"none", "pending", "set", "cancelled"}]
         /\ UNCHANGED <<client, start, peers, wake, round, rx, hand, server>>
         /\ \A l \in Loop : at'[l] \in {"new", "wait"} => at'[l] = at[l]
         /\ \A l \in Loop \ {"refresh"} : at'[l] \in {at[l], "ended", "raised"}
         /\ at'["refresh"] = fate
         /\ \A t \in Txid : /\ status'[t] = "set" <=> status[t] = "set"
                            /\ status'[t] = "none" <=> status[t] = "none"
         /\ Asked'
<1> USE LoopParts DEF TypeOK
<1>1. UNCHANGED <<client, start, peers, wake, round, rx, hand, server>>
  BY DEF CancelTasks
<1>2. /\ at' \in [Loop -> {"idle", "new", "wait", "ok", "failed", "ended", "raised"}]
      /\ \A l \in Loop : at'[l] \in {"new", "wait"} => at'[l] = at[l]
      /\ \A l \in Loop \ {"refresh"} : at'[l] \in {at[l], "ended", "raised"}
      /\ at'["refresh"] = fate
  BY DEF CancelTasks
<1>3. /\ status' \in [Txid -> {"none", "pending", "set", "cancelled"}]
      /\ \A t \in Txid : /\ status'[t] = "set" <=> status[t] = "set"
                         /\ status'[t] = "none" <=> status[t] = "none"
  BY DEF CancelTasks
<1>4. Asked'
  BY <1>1, <1>2 DEF Asked
<1> QED BY <1>1, <1>2, <1>3, <1>4

\* What the ways to leave gather_or_cancel have in common: they cancel the
\* tasks, and the refresher ends or goes on, or they leave everything.
LEMMA GatherParts ==
  ASSUME TypeOK, GatherOrCancel \/ GatherItself
  PROVE  /\ \/ Refreshes /\ Settled /\ CancelTasks("ended")
            \/ Refreshes /\ Settled /\ Swallows /\ CancelTasks("ok")
            \/ ~Refreshes /\ Settled /\ CancelTasks(at["refresh"])
            \/ closing["refresh"] = "tasks" /\ Settled /\ CancelTasks("ok")
            \/ /\ closing["refresh"] = "closed"
               /\ UNCHANGED <<client, start, peers, retries, rx, hand, server>>
         /\ closing' \in [Closer -> {"no", "pipe", "waiting", "tasks", "stuck", "closed"}]
         /\ closing["app"] = "tasks" \/ closing["refresh"] = "tasks"
         /\ closing["app"] # "tasks" => closing'["app"] = closing["app"]
         /\ closing["refresh"] # "tasks" => closing'["refresh"] = closing["refresh"]
         /\ \A c \in Closer : closing[c] = "tasks" => closing'[c] \in {"tasks", "closed", "stuck"}
         /\ closing'["refresh"] # "stuck" \/ closing["refresh"] = "stuck"
<1> USE DEF TypeOK, Closer
<1>1. CASE GatherTasks
  <2>1. CASE Refreshes
    BY <1>1, <2>1 DEF GatherTasks, GatherDue, Leaves
  <2>2. CASE ~Refreshes
    BY <1>1, <2>2 DEF GatherTasks, GatherDue, Leaves
  <2> QED BY <2>1, <2>2
<1>2. CASE GatherFails
  BY <1>2 DEF GatherFails, GatherDue, Leaves, Swallows
<1>3. CASE GatherHangs
  BY <1>3 DEF GatherHangs, GatherDue, Leaves, Swallows
<1>4. CASE GatherCancelled
  BY <1>4 DEF GatherCancelled
<1>5. CASE GatherItself
  BY <1>5 DEF GatherItself, Swallows
<1> QED BY <1>1, <1>2, <1>3, <1>4, <1>5 DEF GatherOrCancel

LEMMA TypeStep ==
  ASSUME TypeOK, Asked, [Next]_vars
  PROVE  TypeOK' /\ Asked'
<1> USE DEF TypeOK
<1>1. CASE Start
  <2>1. "unauth" \in Loop /\ 1 \in 1 .. MaxWakes["unauth"] /\ 1 \in 1 .. Rounds
    BY LoopParts, TurnAssumption
  <2>2. Begin("unauth", 1, 1, status)
    BY <1>1 DEF Start
  <2> QED BY <1>1, <2>1, <2>2, BeginTyped DEF Start, client
<1>2. CASE StartGoesOn
  BY <1>2 DEF StartGoesOn, client, retries, server, Asked
<1>3. CASE StartTimesOut
  BY <1>3, LoopParts, TurnAssumption DEF StartTimesOut, client, Asked
<1>4. ASSUME NEW p \in Peer, AcceptPeer(p) PROVE TypeOK' /\ Asked'
  <2>1. p \in Loop /\ 1 \in 1 .. MaxWakes[p] /\ 1 \in 1 .. Rounds
    BY LoopParts, TurnAssumption
  <2>2. Begin(p, 1, 1, status)
    BY <1>4 DEF AcceptPeer
  <2> QED BY <1>4, <2>1, <2>2, BeginTyped DEF AcceptPeer, client
<1>5. ASSUME NEW p \in Peer, RenewDue(p) PROVE TypeOK' /\ Asked'
  <2>1. p \in Loop /\ wake[p] + 1 \in 1 .. MaxWakes[p] /\ 1 \in 1 .. Rounds
    BY <1>5, LoopParts, TurnAssumption DEF RenewDue, MayGoRound
  <2>2. Begin(p, wake[p] + 1, 1, status)
    BY <1>5 DEF RenewDue
  <2> QED BY <1>5, <2>1, <2>2, BeginTyped DEF RenewDue, client
<1>6. CASE RefreshDue
  <2>1. /\ "refresh" \in Loop /\ wake["refresh"] + 1 \in 1 .. MaxWakes["refresh"]
        /\ 1 \in 1 .. Rounds
    BY <1>6, LoopParts, TurnAssumption DEF RefreshDue, MayGoRound
  <2>2. Begin("refresh", wake["refresh"] + 1, 1, status)
    BY <1>6 DEF RefreshDue
  <2> QED BY <1>6, <2>1, <2>2, BeginTyped DEF RefreshDue, client
<1>7. CASE Reconnect
  BY <1>7, LoopParts DEF Reconnect, client, server, Asked, Closer
<1>8. ASSUME NEW l \in Signed, AllocateSigned(l) PROVE TypeOK' /\ Asked'
  <2>1. l \in Loop /\ 1 \in 1 .. MaxWakes[l] /\ 1 \in 1 .. Rounds
    BY LoopParts, TurnAssumption
  <2>2. Begin(l, 1, 1, status)
    BY <1>8 DEF AllocateSigned
  <2> QED BY <1>8, <2>1, <2>2, BeginTyped DEF AllocateSigned, client
<1>9. ASSUME NEW l \in Loop, RoundTimesOut(l) PROVE TypeOK' /\ Asked'
  <2>1. late' \in 0 .. MaxLate
    BY <1>9, TurnAssumption DEF RoundTimesOut
  <2>2. wake[l] \in 1 .. MaxWakes[l] /\ round[l] \in 1 .. Rounds
    BY <1>9 DEF RoundTimesOut, Asked
  <2> DEFINE futures == [status EXCEPT ![Tx(l)] = "cancelled"]
  <2>3. futures \in [Txid -> {"none", "pending", "set", "cancelled"}]
    OBVIOUS
  <2>4. CASE round[l] < Rounds
    <3>1. round[l] + 1 \in 1 .. Rounds
      BY <2>2, <2>4, TurnAssumption
    <3>2. Begin(l, wake[l], round[l] + 1, futures)
      BY <1>9, <2>4 DEF RoundTimesOut
    <3> HIDE DEF futures
    <3> QED BY <1>9, <2>1, <2>2, <2>3, <3>1, <3>2, BeginTyped DEF RoundTimesOut, client
  <2>5. CASE ~(round[l] < Rounds)
    BY <1>9, <2>1, <2>3, <2>5 DEF RoundTimesOut, client, Asked
  <2> QED BY <2>4, <2>5
<1>10. ASSUME NEW l \in Loop, RoundSucceeds(l) PROVE TypeOK' /\ Asked'
  BY <1>10 DEF RoundSucceeds, client, server, Asked
<1>11. ASSUME NEW reply \in replies, Receive(reply) PROVE TypeOK' /\ Asked'
  BY <1>11 DEF Receive, client, retries, server, Asked
<1>12. CASE Replies
  BY <1>12, HandleTyped DEF Replies
<1>13. CASE LoopEnds
  BY <1>13 DEF LoopEnds, client, retries, server, Asked
<1>14. CASE Close
  BY <1>14 DEF Close, client, retries, server, Asked, Closer
<1>15. ASSUME NEW c \in Closer, DoCleanup(c) PROVE TypeOK' /\ Asked'
  BY <1>15 DEF DoCleanup, retries, server, Asked
<1>16. ASSUME NEW c \in Closer, Stopped(c) PROVE TypeOK' /\ Asked'
  BY <1>16 DEF Stopped, client, retries, server, Asked
<1>17. CASE GatherOrCancel \/ GatherItself
  <2>1. closing' \in [Closer -> {"no", "pipe", "waiting", "tasks", "stuck", "closed"}]
    BY <1>17, GatherParts
  <2>2. CASE UNCHANGED <<client, start, peers, retries, rx, hand, server>>
    BY <2>1, <2>2 DEF client, retries, server, Asked
  <2>3. ASSUME NEW fate \in {"ok", "ended", at["refresh"]}, CancelTasks(fate)
        PROVE  TypeOK' /\ Asked'
    BY <2>1, <2>3, CancelTyped DEF client, server
  <2> QED BY <1>17, <2>2, <2>3, GatherParts
<1>18. ASSUME NEW request \in sent, Answer(request) PROVE TypeOK' /\ Asked'
  <2>1. VerdictOn(request[1], request[2]) \in Verdict
    BY DEF VerdictOn, Verdict
  <2>2. <<request[1], VerdictOn(request[1], request[2])>> \in Reply
    BY <2>1 DEF Request, Reply
  <2> QED BY <1>18, <2>2 DEF Answer, client, retries, Asked
<1>19. CASE NonceExpires
  BY <1>19, TurnAssumption DEF NonceExpires, Credential, retries, Asked
<1>20. CASE UNCHANGED vars
  BY <1>20 DEF vars, Asked
<1> QED
  BY <1>1, <1>2, <1>3, <1>4, <1>5, <1>6, <1>7, <1>8, <1>9, <1>10, <1>11, <1>12,
     <1>13, <1>14, <1>15, <1>16, <1>17, <1>18, <1>19, <1>20 DEF Next, Retry

-----------------------------------------------------------------------------
(* One allocation task. *)
LEMMA OneTaskStep ==
  ASSUME TypeOK, Asked, OneTask, [Next]_vars
  PROVE  OneTask'
<1> SUFFICES ASSUME PipeOpen'
             PROVE  at'["again"] = "idle" /\ (wake'["signed"] # 0 => state' = "try")
  BY DEF OneTask
<1> USE LoopParts DEF TypeOK
<1>0. /\ PipeOpen => at["again"] = "idle" /\ (wake["signed"] # 0 => state = "try")
      /\ "again" \in Loop /\ "signed" \in Loop /\ Signed = {"signed", "again"}
  BY DEF OneTask, Signed
<1>1. CASE Start
  BY <1>0, <1>1 DEF Start, Begin, PipeOpen, client
<1>2. CASE StartGoesOn
  BY <1>0, <1>2 DEF StartGoesOn, PipeOpen, client, retries
<1>3. CASE StartTimesOut
  BY <1>0, <1>3 DEF StartTimesOut, PipeOpen, client
<1>4. ASSUME NEW p \in Peer, AcceptPeer(p) \/ RenewDue(p)
      PROVE  at'["again"] = "idle" /\ (wake'["signed"] # 0 => state' = "try")
  BY <1>0, <1>4 DEF AcceptPeer, RenewDue, Begin, PipeOpen, client
<1>5. CASE RefreshDue
  BY <1>0, <1>5 DEF RefreshDue, Begin, PipeOpen, client
<1>6. CASE Reconnect \/ Close
  BY <1>0, <1>6 DEF Reconnect, Close, PipeOpen, Closer, client, retries
<1>7. ASSUME NEW l \in Signed, AllocateSigned(l)
      PROVE  at'["again"] = "idle" /\ (wake'["signed"] # 0 => state' = "try")
  <2>1. wake[l] # 0
    BY <1>7, TurnAssumption DEF AllocateSigned, Asked
  <2> QED BY <1>0, <1>7, <2>1 DEF AllocateSigned, Begin, PipeOpen, client
<1>8. ASSUME NEW l \in Loop, RoundTimesOut(l)
      PROVE  at'["again"] = "idle" /\ (wake'["signed"] # 0 => state' = "try")
  <2>1. wake' = wake /\ closing' = closing /\ state' = state
    BY <1>8 DEF RoundTimesOut, Begin, client
  <2>2. at[l] = "wait" /\ \A k \in Loop : k # l => at'[k] = at[k]
    BY <1>8 DEF RoundTimesOut, Begin
  <2> QED BY <1>0, <2>1, <2>2 DEF PipeOpen
<1>9. ASSUME NEW l \in Loop, RoundSucceeds(l)
      PROVE  at'["again"] = "idle" /\ (wake'["signed"] # 0 => state' = "try")
  BY <1>0, <1>9 DEF RoundSucceeds, PipeOpen, client
<1>10. ASSUME NEW reply \in replies, Receive(reply)
       PROVE  at'["again"] = "idle" /\ (wake'["signed"] # 0 => state' = "try")
  BY <1>0, <1>10 DEF Receive, PipeOpen, client, retries
<1>11. ASSUME NEW t \in Txid, NEW v \in Verdict, Handle(t, v)
       PROVE  at'["again"] = "idle" /\ (wake'["signed"] # 0 => state' = "try")
  <2>1. closing' = closing /\ PipeOpen
    BY <1>11 DEF Handle, PipeOpen
  <2>2. CASE UNCHANGED <<state, at, wake>>
    BY <1>0, <2>1, <2>2
  <2>3. CASE /\ state # "try" /\ state' = "try"
             /\ at' = [at EXCEPT ![IF wake["signed"] = 0 THEN "signed" ELSE "again"] = "new"]
    BY <1>0, <2>1, <2>3
  <2> QED BY <1>11, <2>2, <2>3 DEF Handle, Settle, client
<1>12. CASE LoopEnds
  BY <1>0, <1>12 DEF LoopEnds, PipeOpen, client, retries
<1>13. ASSUME NEW c \in Closer, DoCleanup(c) \/ Stopped(c) PROVE FALSE
  BY <1>13 DEF DoCleanup, Stopped, PipeOpen
<1>17. CASE GatherOrCancel \/ GatherItself
  BY <1>17, GatherParts DEF PipeOpen, Closer
<1>14. ASSUME NEW request \in sent, Answer(request)
       PROVE  at'["again"] = "idle" /\ (wake'["signed"] # 0 => state' = "try")
  BY <1>0, <1>14 DEF Answer, PipeOpen, client, retries
<1>15. CASE NonceExpires
  BY <1>0, <1>15 DEF NonceExpires, PipeOpen, retries
<1>16. CASE UNCHANGED vars
  BY <1>0, <1>16 DEF vars, PipeOpen
<1> QED
  BY <1>1, <1>2, <1>3, <1>4, <1>5, <1>6, <1>7, <1>8, <1>9, <1>10, <1>11, <1>12,
     <1>13, <1>14, <1>15, <1>16, <1>17 DEF Next, Retry, Replies

-----------------------------------------------------------------------------
(* Permissions. *)
\* A message that is recorded has not been answered.
LEMMA BeginGranted ==
  ASSUME TypeOK, Granted, NEW l \in Loop, NEW w, NEW i, NEW futures,
         \A t \in Txid : futures[t] = "set" => status[t] = "set",
         futures \in [Txid -> {"none", "pending", "set", "cancelled"}],
         Begin(l, w, i, futures), UNCHANGED <<hand, replies>>
  PROVE  Granted'
<1>1. \A t \in Txid : status'[t] = "set" => status[t] = "set"
  BY DEF Begin
<1>2. ASSUME NEW p \in Peer, at'[p] = "ok" PROVE <<Tx(p)', "ok">> \in replies'
  <2>1. p # l /\ at[p] = "ok" /\ p \in Loop
    BY <1>2, LoopParts DEF Begin, TypeOK
  <2>2. wake'[p] = wake[p] /\ round'[p] = round[p]
    BY <2>1 DEF Begin, TypeOK
  <2> QED BY <2>1, <2>2 DEF Granted, AcceptedIsGranted, Tx
<1> QED BY <1>1, <1>2 DEF Granted, AcceptedIsGranted, Tx

LEMMA GrantedStep ==
  ASSUME TypeOK, Asked, Granted, [Next]_vars
  PROVE  Granted'
<1> DEFINE Grants == \A t \in Txid : t[1] \in Peer /\ status[t] = "set" =>
                                       <<t, "ok">> \in replies
<1>0. /\ hand \subseteq replies /\ Grants
      /\ \A p \in Peer : at[p] = "ok" => << <<p, wake[p], round[p]>>, "ok" >> \in replies
  BY DEF Granted, AcceptedIsGranted, Tx
<1> DEFINE Goal == /\ hand' \subseteq replies' /\ Grants'
                   /\ \A p \in Peer : at'[p] = "ok" =>
                        << <<p, wake'[p], round'[p]>>, "ok" >> \in replies'
<1>a. SUFFICES Goal
  BY DEF Granted, AcceptedIsGranted, Tx
<1>b. ASSUME Granted' PROVE Goal
  BY <1>b DEF Granted, AcceptedIsGranted, Tx
<1> USE DEF TypeOK
<1>1. CASE Start
  BY <1>1, <1>b, LoopParts, BeginGranted DEF Start
<1>2. CASE StartGoesOn
  BY <1>0, <1>2 DEF StartGoesOn, retries, server
<1>3. CASE StartTimesOut
  BY <1>0, <1>3, LoopParts DEF StartTimesOut
<1>4. ASSUME NEW p \in Peer, AcceptPeer(p) \/ RenewDue(p) PROVE Goal
  BY <1>4, <1>b, LoopParts, BeginGranted DEF AcceptPeer, RenewDue
<1>5. CASE RefreshDue
  BY <1>5, <1>b, LoopParts, BeginGranted DEF RefreshDue
<1>6. CASE Close \/ LoopEnds \/ \E c \in Closer : DoCleanup(c) \/ Stopped(c)
  BY <1>0, <1>6 DEF Close, LoopEnds, DoCleanup, Stopped, retries, server
<1>16. CASE Reconnect
  <2>1. \A p \in Peer : at'[p] = at[p]
    BY <1>16, LoopParts DEF Reconnect
  <2> QED BY <1>0, <1>16, <2>1 DEF Reconnect, server
<1>7. ASSUME NEW l \in Signed, AllocateSigned(l) PROVE Goal
  BY <1>7, <1>b, LoopParts, BeginGranted DEF AllocateSigned
<1>8. ASSUME NEW l \in Loop, RoundTimesOut(l) PROVE Goal
  <2> DEFINE futures == [status EXCEPT ![Tx(l)] = "cancelled"]
  <2>1. /\ futures \in [Txid -> {"none", "pending", "set", "cancelled"}]
        /\ \A t \in Txid : futures[t] = "set" => status[t] = "set"
    OBVIOUS
  <2>2. CASE round[l] < Rounds
    <3>1. Begin(l, wake[l], round[l] + 1, futures) /\ UNCHANGED <<hand, replies>>
      BY <1>8, <2>2 DEF RoundTimesOut
    <3> HIDE DEF futures
    <3> QED BY <1>b, <2>1, <3>1, BeginGranted
  <2>3. CASE ~(round[l] < Rounds)
    <3>1. /\ status' = futures /\ UNCHANGED <<wake, round, hand, replies>>
          /\ at' = [at EXCEPT ![l] = "failed"]
      BY <1>8, <2>3 DEF RoundTimesOut
    <3> HIDE DEF futures
    <3> QED BY <1>0, <2>1, <3>1, LoopParts
  <2> QED BY <2>2, <2>3
<1>9. ASSUME NEW l \in Loop, RoundSucceeds(l) PROVE Goal
  <2>1. /\ at[l] = "wait" /\ status[Tx(l)] = "set"
        /\ status' = [status EXCEPT ![Tx(l)] = "pending"]
        /\ UNCHANGED <<wake, round, hand, replies>>
    BY <1>9 DEF RoundSucceeds, server
  <2>2. \A k \in Loop : k # l => at'[k] = at[k]
    BY <1>9 DEF RoundSucceeds
  <2>3. ASSUME l \in Peer PROVE <<Tx(l), "ok">> \in replies
    <3>1. Tx(l) \in Txid
      BY <2>1, TxidMade DEF Asked, Tx
    <3>2. Tx(l)[1] = l
      BY DEF Tx
    <3> QED BY <1>0, <2>1, <2>3, <3>1, <3>2
  <2>4. Grants'
    BY <1>0, <2>1
  <2> QED BY <1>0, <2>1, <2>2, <2>3, <2>4, LoopParts DEF Tx
<1>10. ASSUME NEW reply \in replies, Receive(reply) PROVE Goal
  BY <1>0, <1>10 DEF Receive, retries, server
<1>11. ASSUME NEW t \in Txid, NEW v \in Verdict, Handle(t, v) PROVE Goal
  <2>1. /\ hand' = {} /\ <<t, v>> \in replies /\ UNCHANGED <<round, replies>>
    BY <1>0, <1>11 DEF Handle, server
  <2>2. \/ status' = status
        \/ status' = [status EXCEPT ![t] = "set"] /\ Settles(t[1], v)
    BY <1>11 DEF Handle, Settle
  <2>3. Grants'
    BY <1>0, <2>1, <2>2 DEF Settles
  <2>4. \A p \in Peer : at'[p] = at[p] /\ wake'[p] = wake[p]
    <3>1. CASE UNCHANGED <<at, wake>>
      BY <3>1
    <3>2. CASE LET l == IF wake["signed"] = 0 THEN "signed" ELSE "again" IN
               at' = [at EXCEPT ![l] = "new"] /\ wake' = [wake EXCEPT ![l] = 1]
      BY <3>2, LoopParts
    <3> QED BY <1>11, <3>1, <3>2 DEF Handle, Settle
  <2> QED BY <1>0, <2>1, <2>3, <2>4
<1>12. CASE GatherOrCancel \/ GatherItself
  <2>1. CASE UNCHANGED <<client, start, peers, retries, rx, hand, server>>
    BY <1>0, <2>1 DEF retries, server
  <2>2. ASSUME Asked, NEW fate \in {"ok", "ended", at["refresh"]}, CancelTasks(fate)
        PROVE  Goal
    <3>1. /\ \A t \in Txid : status'[t] = "set" <=> status[t] = "set"
          /\ \A l \in Loop \ {"refresh"} : at'[l] \in {at[l], "ended", "raised"}
          /\ UNCHANGED <<wake, round, hand, server>>
      BY <2>2, CancelTyped
    <3> QED BY <1>0, <3>1, LoopParts DEF server
  <2> QED BY <1>12, <2>1, <2>2, GatherParts
<1>13. ASSUME NEW request \in sent, Answer(request) PROVE Goal
  <2>1. replies \subseteq replies' /\ UNCHANGED <<hand, status, at, wake, round>>
    BY <1>13 DEF Answer, retries
  <2> QED BY <1>0, <2>1
<1>14. CASE NonceExpires
  BY <1>0, <1>14 DEF NonceExpires, retries
<1>15. CASE UNCHANGED vars
  BY <1>0, <1>15 DEF vars
<1> QED
  BY <1>1, <1>2, <1>3, <1>4, <1>5, <1>6, <1>7, <1>8, <1>9, <1>10, <1>11, <1>12,
     <1>13, <1>14, <1>15, <1>16 DEF Next, Retry, Replies

-----------------------------------------------------------------------------
(* The futures of start(). *)
LEMMA ForcedStep ==
  ASSUME TypeOK, Forced, [Next]_vars
  PROVE  Forced'
<1> USE DEF Forced, StartedHasRelay, TypeOK
<1>0. ASSUME PipeOpen' PROVE PipeOpen \/ closing' # closing
  BY <1>0 DEF PipeOpen
<1>1. CASE Start
  BY <1>0, <1>1 DEF Start, client
<1>2. CASE StartGoesOn
  BY <1>0, <1>2 DEF StartGoesOn, client
<1>3. CASE StartTimesOut
  BY <1>0, <1>3 DEF StartTimesOut, client
<1>4. ASSUME NEW p \in Peer, AcceptPeer(p) \/ RenewDue(p) PROVE Forced'
  BY <1>0, <1>4 DEF AcceptPeer, RenewDue, client
<1>5. CASE RefreshDue
  BY <1>0, <1>5 DEF RefreshDue, client
<1>15. CASE Reconnect \/ Close
  <2>1. ~PipeOpen => ~PipeOpen'
    BY <1>15 DEF Reconnect, Close, PipeOpen, Closer
  <2> QED BY <1>15, <2>1 DEF Reconnect, Close, client
<1>6. ASSUME NEW l \in Signed, AllocateSigned(l) PROVE Forced'
  BY <1>0, <1>6 DEF AllocateSigned, client
<1>7. ASSUME NEW l \in Loop, Retry(l) PROVE Forced'
  BY <1>0, <1>7 DEF Retry, RoundTimesOut, RoundSucceeds, client
<1>8. ASSUME NEW reply \in replies, Receive(reply) PROVE Forced'
  BY <1>0, <1>8 DEF Receive, client
<1>9. ASSUME NEW t \in Txid, NEW v \in Verdict, Handle(t, v) PROVE Forced'
  <2>1. UNCHANGED <<start, closing>> /\ relay' \in {relay, "addr"}
    BY <1>9 DEF Handle, client
  <2> QED BY <1>0, <2>1
<1>10. CASE LoopEnds
  BY <1>0, <1>10 DEF LoopEnds, client
<1>11. ASSUME NEW c \in Closer, DoCleanup(c) \/ Stopped(c) PROVE Forced'
  <2>1. ~PipeOpen' /\ start' = start
    BY <1>11 DEF DoCleanup, Stopped, PipeOpen
  <2> QED BY <2>1
<1>16. CASE GatherOrCancel \/ GatherItself
  <2>1. ~PipeOpen'
    BY <1>16, GatherParts DEF PipeOpen, Closer
  <2> QED BY <2>1
<1>12. ASSUME NEW request \in sent, Answer(request) PROVE Forced'
  BY <1>0, <1>12 DEF Answer, client
<1>13. CASE NonceExpires
  BY <1>0, <1>13 DEF NonceExpires
<1>14. CASE UNCHANGED vars
  BY <1>0, <1>14 DEF vars
<1> QED
  BY <1>1, <1>2, <1>3, <1>4, <1>5, <1>6, <1>7, <1>8, <1>9, <1>10, <1>11, <1>12,
     <1>13, <1>14, <1>15, <1>16 DEF Next, Replies

-----------------------------------------------------------------------------
(* Closing. *)
\* The client stops once, and the loop of replies ends before the gathering.
LEMMA StoppingStep ==
  ASSUME TypeOK, Stopping, [Next]_vars
  PROVE  Stopping'
<1> USE DEF TypeOK
<1>1. ASSUME NEW c \in Closer, DoCleanup(c) PROVE Stopping'
  BY <1>1 DEF DoCleanup, Stopping, PipeOpen, Closer
<1>2. ASSUME NEW c \in Closer, Stopped(c) PROVE Stopping'
  BY <1>2 DEF Stopped, Stopping, PipeOpen, Closer, client
<1>3. CASE GatherOrCancel \/ GatherItself
  <2>1. UNCHANGED <<state, rx, start>>
    BY <1>3, GatherParts DEF CancelTasks, client
  <2>2. rx = "ended" /\ ~PipeOpen' /\ (closing'["app"] # "no" => closing["app"] # "no")
    BY <1>3, GatherParts DEF Stopping, PipeOpen, Closer
  <2> QED BY <2>1, <2>2 DEF Stopping
<1>4. CASE Reconnect \/ Close
  BY <1>4 DEF Reconnect, Close, Stopping, PipeOpen, Closer, client
<1>5. ASSUME NEW t \in Txid, NEW v \in Verdict, Handle(t, v) PROVE Stopping'
  <2>1. rx = "run" /\ rx' # "ended" /\ UNCHANGED <<closing, start>> /\ state' \in {state, "try"}
    BY <1>5 DEF Handle, Settle, client
  <2> QED BY <2>1 DEF Stopping, PipeOpen
<1>6. CASE LoopEnds
  BY <1>6 DEF LoopEnds, Stopping, PipeOpen, client
<1>7. CASE UNCHANGED <<state, rx, closing>> /\ (start # "idle" => start' # "idle")
  BY <1>7 DEF Stopping, PipeOpen
<1>8. ASSUME NEW p \in Peer, AcceptPeer(p) \/ RenewDue(p)
      PROVE  UNCHANGED <<state, rx, closing, start>>
  BY <1>8 DEF AcceptPeer, RenewDue, client
<1>9. ASSUME NEW l \in Loop, Retry(l) PROVE UNCHANGED <<state, rx, closing, start>>
  BY <1>9 DEF Retry, RoundTimesOut, RoundSucceeds, client
<1>10. ASSUME NEW l \in Signed, AllocateSigned(l) PROVE UNCHANGED <<state, rx, closing, start>>
  BY <1>10 DEF AllocateSigned, client
<1>11. ASSUME \/ \E reply \in replies : Receive(reply)
              \/ \E request \in sent : Answer(request)
       PROVE  UNCHANGED <<state, rx, closing, start>>
  BY <1>11 DEF Receive, Answer, client
<1>12. CASE Start \/ StartGoesOn \/ StartTimesOut
  BY <1>7, <1>12 DEF Start, StartGoesOn, StartTimesOut, client
<1>13. CASE RefreshDue \/ NonceExpires \/ UNCHANGED vars
  BY <1>7, <1>13 DEF RefreshDue, NonceExpires, client, vars
<1> QED
  BY <1>1, <1>2, <1>3, <1>4, <1>5, <1>6, <1>7, <1>8, <1>9, <1>10, <1>11, <1>12, <1>13
     DEF Next, Replies

\* A status future is never unmade, and a round of the refresher's makes one.
LEMMA Recorded ==
  ASSUME TypeOK, Asked, [Next]_vars
  PROVE  /\ \A t \in Txid : status[t] # "none" => status'[t] # "none"
         /\ LastRoundUsed => LastRoundUsed'
<1> USE DEF TypeOK
<1>1. \A t \in Txid : status[t] # "none" => status'[t] # "none"
  <2>1. CASE GatherOrCancel \/ GatherItself
    BY <2>1, GatherParts DEF CancelTasks, retries
  <2>2. ASSUME NEW l \in Loop, Retry(l)
        PROVE  \A t \in Txid : status[t] # "none" => status'[t] # "none"
    BY <2>2 DEF Retry, RoundTimesOut, RoundSucceeds, Begin
  <2>3. ASSUME NEW t \in Txid, NEW v \in Verdict, Handle(t, v)
        PROVE  \A u \in Txid : status[u] # "none" => status'[u] # "none"
    BY <2>3 DEF Handle, Settle
  <2>4. ASSUME NEW p \in Peer, AcceptPeer(p) \/ RenewDue(p)
        PROVE  \A t \in Txid : status[t] # "none" => status'[t] # "none"
    BY <2>4 DEF AcceptPeer, RenewDue, Begin
  <2>5. CASE Start \/ RefreshDue \/ \E l \in Signed : AllocateSigned(l)
    BY <2>5 DEF Start, RefreshDue, AllocateSigned, Begin
  <2>6. CASE StartTimesOut
    BY <2>6 DEF StartTimesOut
  <2>7. CASE \/ StartGoesOn \/ Close \/ LoopEnds \/ NonceExpires \/ Reconnect
             \/ \E c \in Closer : DoCleanup(c) \/ Stopped(c)
             \/ \E reply \in replies : Receive(reply)
             \/ \E request \in sent : Answer(request)
             \/ UNCHANGED vars
    BY <2>7 DEF StartGoesOn, Close, LoopEnds, NonceExpires, Reconnect, DoCleanup,
                Stopped, Receive, Answer, retries, vars
  <2> QED BY <2>1, <2>2, <2>3, <2>4, <2>5, <2>6, <2>7 DEF Next, Replies
<1>2. ASSUME LastRoundUsed PROVE LastRoundUsed'
  <2>1. PICK w \in 1 .. MaxWakes["refresh"] : status[<<"refresh", w, Rounds>>] # "none"
    BY <1>2 DEF LastRoundUsed
  <2>2. <<"refresh", w, Rounds>> \in Txid
    <3>1. "refresh" \in Loop /\ Rounds \in 1 .. Rounds
      BY LoopParts, TurnAssumption
    <3> QED BY <3>1, TxidMade
  <2>3. status'[<<"refresh", w, Rounds>>] # "none"
    BY <1>1, <2>1, <2>2
  <2> QED BY <2>3 DEF LastRoundUsed
<1> QED BY <1>1, <1>2

\* A refresher in its last round has used it.
LEMMA LastRound ==
  ASSUME TypeOK, Asked, Refresher, at["refresh"] = "wait", round["refresh"] = Rounds
  PROVE  LastRoundUsed
<1>1. wake["refresh"] \in 1 .. MaxWakes["refresh"]
  BY LoopParts DEF Asked
<1> QED BY <1>1 DEF Refresher, Tx, LastRoundUsed

\* Steps that leave the refresher as it is.
LEMMA RefresherKept ==
  ASSUME TypeOK, Asked, Refresher, [Next]_vars,
         at'["refresh"] = at["refresh"], wake'["refresh"] = wake["refresh"],
         round'["refresh"] = round["refresh"],
         start # "started" \/ start' = "started",
         closing'["refresh"] = closing["refresh"]
  PROVE  Refresher'
<1>1. at["refresh"] = "wait" => Tx("refresh") \in Txid /\ Tx("refresh")' = Tx("refresh")
  BY LoopParts, TxidMade DEF Asked, Tx
<1>2. at'["refresh"] = "wait" => status'[Tx("refresh")'] # "none"
  BY <1>1, Recorded DEF Refresher
<1> QED BY <1>2, Recorded DEF Refresher

\* Steps that begin a call, or a round of it, of another loop.
LEMMA BeginOther ==
  ASSUME TypeOK, NEW l \in Loop, NEW w, NEW i, NEW futures, Begin(l, w, i, futures),
         NEW k \in Loop \ {l}
  PROVE  at'[k] = at[k] /\ wake'[k] = wake[k] /\ round'[k] = round[k]
BY DEF Begin, TypeOK

LEMMA RefresherStep ==
  ASSUME TypeOK, Asked, Refresher, [Next]_vars
  PROVE  Refresher'
<1> USE LoopParts DEF TypeOK
<1> DEFINE Kept == /\ at'["refresh"] = at["refresh"] /\ wake'["refresh"] = wake["refresh"]
                   /\ round'["refresh"] = round["refresh"]
                   /\ start # "started" \/ start' = "started"
                   /\ closing'["refresh"] = closing["refresh"]
<1>k. ASSUME Kept PROVE Refresher'
  BY <1>k, RefresherKept
<1>1. ASSUME NEW l \in Loop \ {"refresh"}, Retry(l) PROVE Kept
  BY <1>1 DEF Retry, RoundTimesOut, RoundSucceeds, Begin
<1>2. CASE RoundTimesOut("refresh")
  <2>1. /\ at["refresh"] = "wait" /\ start = "started" /\ start' = start /\ closing' = closing
        /\ wake["refresh"] \in 1 .. MaxWakes["refresh"] /\ round["refresh"] \in 1 .. Rounds
    BY <1>2 DEF RoundTimesOut, Refresher, Asked
  <2>2. CASE round["refresh"] < Rounds
    <3>1. /\ at'["refresh"] = "wait"
          /\ Tx("refresh")' = <<"refresh", wake["refresh"], round["refresh"] + 1>>
          /\ status'[<<"refresh", wake["refresh"], round["refresh"] + 1>>] = "pending"
      <4>1. round["refresh"] + 1 \in 1 .. Rounds
        BY <2>1, <2>2, TurnAssumption
      <4>2. <<"refresh", wake["refresh"], round["refresh"] + 1>> \in Txid
        BY <2>1, <4>1, TxidMade
      <4> QED BY <1>2, <2>2, <4>2 DEF RoundTimesOut, Begin, Tx
    <3>2. at'["refresh"] = "failed" \/ closing'["refresh"] # "no" => LastRoundUsed'
      BY <2>1, <3>1, Recorded DEF Refresher
    <3> QED BY <2>1, <3>1, <3>2 DEF Refresher
  <2>3. CASE ~(round["refresh"] < Rounds)
    <3>1. at'["refresh"] = "failed"
      BY <1>2, <2>3 DEF RoundTimesOut
    <3>2. LastRoundUsed'
      BY <2>1, <2>3, LastRound, Recorded, TurnAssumption
    <3> QED BY <2>1, <3>1, <3>2 DEF Refresher
  <2> QED BY <2>2, <2>3
<1>3. CASE RoundSucceeds("refresh")
  <2>1. /\ at["refresh"] = "wait" /\ start = "started" /\ start' = start /\ closing' = closing
        /\ at'["refresh"] # "wait"
    BY <1>3 DEF RoundSucceeds, Refresher, Asked
  <2>2. at'["refresh"] = "failed" => LastRoundUsed'
    BY <1>3, <2>1, LastRound, Recorded DEF RoundSucceeds, Asked
  <2> QED BY <2>1, <2>2, Recorded DEF Refresher
<1>4. CASE RefreshDue
  <2>1. wake["refresh"] + 1 \in 1 .. MaxWakes["refresh"] /\ 1 \in 1 .. Rounds
    BY <1>4, TurnAssumption DEF RefreshDue, MayGoRound
  <2>2. <<"refresh", wake["refresh"] + 1, 1>> \in Txid
    BY <2>1, TxidMade
  <2>3. /\ at'["refresh"] = "wait" /\ start' = "started" /\ closing' = closing
        /\ status'[Tx("refresh")'] # "none"
    BY <1>4, <2>2 DEF RefreshDue, Begin, Tx
  <2> QED BY <2>3, Recorded DEF Refresher
<1>5. CASE Reconnect
  <2>1. LastRoundUsed' /\ start' = start /\ start = "started"
    BY <1>5, Recorded DEF Reconnect, Refresher
  <2> QED BY <1>5, <2>1 DEF Reconnect, Refresher
<1>6. CASE GatherOrCancel \/ GatherItself
  <2>1. UNCHANGED <<start, wake, round>>
    BY <1>6, GatherParts DEF CancelTasks, retries
  <2>2. CASE UNCHANGED <<client, start, peers, retries, rx, hand, server>>
    <3>1. closing'["refresh"] # "no" => closing["refresh"] # "no"
      BY <1>6, GatherParts DEF Closer
    <3>2. closing["refresh"] = "no" => closing'["refresh"] = "no"
      BY <1>6, GatherParts DEF Closer
    <3>3. UNCHANGED <<status, at, Tx("refresh")>>
      BY <2>1, <2>2 DEF retries, Tx
    <3> QED BY <2>1, <3>1, <3>2, <3>3, Recorded DEF Refresher
  <2>3. ASSUME NEW fate \in {"ok", "ended", at["refresh"]}, CancelTasks(fate),
               start = "started" \/ fate = at["refresh"]
        PROVE  Refresher'
    <3>1. /\ at'["refresh"] = fate
          /\ \A t \in Txid : status'[t] = "none" <=> status[t] = "none"
      BY <2>3, CancelTyped
    <3>2. closing["refresh"] = "no" => closing'["refresh"] = "no"
      BY <1>6, GatherParts DEF Closer
    <3>3. at["refresh"] = "wait" => Tx("refresh") \in Txid
      BY TxidMade DEF Asked, Tx
    <3>4. Tx("refresh")' = Tx("refresh")
      BY <2>1 DEF Tx
    <3>5. at'["refresh"] = "wait" => status'[Tx("refresh")'] # "none"
      BY <2>3, <3>1, <3>3, <3>4 DEF Refresher
    <3>6. at'["refresh"] = "failed" \/ closing'["refresh"] # "no" => LastRoundUsed'
      BY <1>6, <2>3, <3>1, GatherParts, Recorded DEF Refresher, Closer
    <3> QED BY <2>1, <2>3, <3>1, <3>2, <3>5, <3>6 DEF Refresher
  <2> QED BY <1>6, <2>2, <2>3, GatherParts DEF Refreshes, Swallows, Refresher
<1>7. CASE Start \/ StartGoesOn \/ StartTimesOut
  BY <1>k, <1>7, BeginOther DEF Start, StartGoesOn, StartTimesOut, retries
<1>8. ASSUME NEW p \in Peer, AcceptPeer(p) \/ RenewDue(p) PROVE Kept
  BY <1>8, BeginOther DEF AcceptPeer, RenewDue
<1>9. ASSUME NEW l \in Signed, AllocateSigned(l) PROVE Kept
  BY <1>9, BeginOther DEF AllocateSigned, Signed
<1>10. ASSUME NEW t \in Txid, NEW v \in Verdict, Handle(t, v) PROVE Kept
  <2>1. UNCHANGED <<start, closing, round>>
    BY <1>10 DEF Handle
  <2>2. CASE UNCHANGED <<at, wake>>
    BY <2>1, <2>2
  <2>3. ASSUME NEW l \in {"signed", "again"},
               at' = [at EXCEPT ![l] = "new"], wake' = [wake EXCEPT ![l] = 1]
        PROVE  Kept
    BY <2>1, <2>3
  <2> QED BY <1>10, <2>2, <2>3 DEF Handle, Settle
<1>11. CASE Close
  BY <1>k, <1>11 DEF Close, retries, Closer
<1>12. ASSUME NEW c \in Closer, DoCleanup(c) \/ Stopped(c) PROVE Refresher'
  <2>1. UNCHANGED <<start, at, wake, round, status>>
    BY <1>12 DEF DoCleanup, Stopped, retries, client
  <2>2. closing'["refresh"] = "no" <=> closing["refresh"] = "no"
    BY <1>12 DEF DoCleanup, Stopped, Closer
  <2> QED BY <2>1, <2>2, Recorded DEF Refresher, Tx
<1>13. CASE \/ LoopEnds \/ NonceExpires
            \/ \E reply \in replies : Receive(reply)
            \/ \E request \in sent : Answer(request)
            \/ UNCHANGED vars
  BY <1>k, <1>13 DEF LoopEnds, NonceExpires, Receive, Answer, retries, vars
<1> QED
  BY <1>k, <1>1, <1>2, <1>3, <1>4, <1>5, <1>6, <1>7, <1>8, <1>9, <1>10, <1>11, <1>12, <1>13
     DEF Next, Replies, Retry

\* Only a step that leaves gather_or_cancel makes the tasks gathered: a
\* close() that returns at once follows another that is past its pipe.
LEMMA DoneBefore ==
  ASSUME TypeOK, Stopping, [Next]_vars, Done'
  PROVE  Done \/ GatherOrCancel \/ GatherItself
<1> USE DEF TypeOK, Closer
<1>1. CASE UNCHANGED closing
  BY <1>1 DEF Done
<1>2. CASE Reconnect
  BY <1>2 DEF Reconnect, Done
<1>3. CASE Close
  <2>1. closing'["refresh"] = closing["refresh"]
    BY <1>3 DEF Close
  <2>2. closing["refresh"] = "no" => rx # "ended"
    BY <1>3 DEF Close, Stopping, PipeOpen
  <2> QED BY <1>3, <2>1, <2>2 DEF Close, Done
<1>4. ASSUME NEW c \in Closer, DoCleanup(c) \/ Stopped(c) PROVE Done
  BY <1>4 DEF DoCleanup, Stopped, Done
<1>5. CASE GatherOrCancel \/ GatherItself
  BY <1>5
<1>6. ASSUME NEW l \in Loop, Retry(l) PROVE UNCHANGED closing
  BY <1>6 DEF Retry, RoundTimesOut, RoundSucceeds
<1>7. CASE \/ Start \/ StartGoesOn \/ StartTimesOut \/ RefreshDue
           \/ \E p \in Peer : AcceptPeer(p) \/ RenewDue(p)
           \/ \E l \in Signed : AllocateSigned(l)
  BY <1>1, <1>7 DEF Start, StartGoesOn, StartTimesOut, RefreshDue, AcceptPeer,
                    RenewDue, AllocateSigned
<1>8. CASE \/ \E reply \in replies : Receive(reply)
           \/ Replies \/ LoopEnds \/ NonceExpires
           \/ \E request \in sent : Answer(request)
           \/ UNCHANGED vars
  BY <1>1, <1>8 DEF Receive, Replies, Handle, LoopEnds, NonceExpires, Answer, vars
<1> QED BY <1>1, <1>2, <1>3, <1>4, <1>5, <1>6, <1>7, <1>8 DEF Next

\* gather_or_cancel ends every task but the refresher, or finds it ended.
LEMMA GatherStep ==
  ASSUME TypeOK, Asked, Stopping, Refresher, Gathered, [Next]_vars,
         GatherOrCancel \/ GatherItself
  PROVE  Gathered'
<1> USE LoopParts DEF TypeOK
<1>1. CASE /\ closing["refresh"] = "closed"
           /\ UNCHANGED <<client, start, peers, retries, rx, hand, server>>
  <2>1. Quiet /\ NeverStarts /\ (Refreshes => LastRoundUsed)
    BY <1>1 DEF Gathered, Done
  <2> QED BY <1>1, <2>1, Recorded DEF Gathered, Quiet, Tasks, NeverStarts, Refreshes,
                                      retries, Tx
<1>2. ASSUME Settled, NEW fate \in {"ok", "ended", at["refresh"]}, CancelTasks(fate),
             \/ fate = "ended"
             \/ Swallows \/ closing["refresh"] = "tasks"
             \/ ~Refreshes /\ fate = at["refresh"]
      PROVE  Gathered'
  <2>1. UNCHANGED <<start, wake, round>>
    BY <1>2 DEF CancelTasks
  <2>2. Quiet'
    <3> SUFFICES ASSUME NEW l \in Tasks'
                 PROVE  at'[l] \notin {"new", "wait"} /\ (l \in Peer => at'[l] # "ok")
      BY DEF Quiet
    <3>1. l \in Loop \ {"refresh"}
      BY DEF Tasks, Signed
    <3>2. at'[l] = IF l \in Raising THEN "raised"
                   ELSE IF l \in Tasks /\ at[l] = "wait" THEN "ended" ELSE at[l]
      BY <1>2, <3>1 DEF CancelTasks
    <3>3. CASE l \in Tasks
      BY <3>1, <3>2, <3>3 DEF Raising
    <3>4. CASE l \notin Tasks
      <4>1. at'[l] = at[l]
        BY <3>2, <3>4 DEF Raising
      <4> QED BY <2>1, <3>4, <4>1 DEF Tasks
    <3> QED BY <3>3, <3>4
  <2>3. NeverStarts'
    <3>1. start # "idle"
      BY GatherParts DEF Stopping, Refresher
    <3>2. /\ at'["unauth"] = at["unauth"]
          /\ \A t \in Txid : status'[t] = "set" <=> status[t] = "set"
      BY <1>2 DEF CancelTasks, Raising, Tasks, Signed
    <3>3. at["unauth"] = "wait" => Tx("unauth") \in Txid
      BY TxidMade DEF Asked, Tx
    <3>4. start \in {"retry", "started", "failed"}
      BY <1>2, <3>1 DEF Settled
    <3>5. ASSUME start = "retry"
          PROVE  at["unauth"] = "wait" /\ status'[Tx("unauth")] # "set"
      BY <1>2, <3>2, <3>3, <3>5 DEF Settled
    <3> QED BY <2>1, <3>2, <3>4, <3>5 DEF NeverStarts, Tx
  <2>4. ASSUME Refreshes' PROVE LastRoundUsed'
    <3>1. at'["refresh"] = fate
      BY <1>2 DEF CancelTasks
    <3>2. fate # "ended" /\ start = "started"
      BY <2>1, <2>4, <3>1 DEF Refreshes
    <3>3. Swallows \/ closing["refresh"] = "tasks"
      BY <1>2, <3>2 DEF Refreshes
    <3> QED BY <3>3, LastRound, Recorded DEF Swallows, Refresher
  <2> QED BY <2>2, <2>3, <2>4 DEF Gathered
<1> QED BY <1>1, <1>2, GatherParts

\* A call of another loop than the tasks' leaves them quiet.
LEMMA QuietKept ==
  ASSUME TypeOK, Quiet, NEW l \in Loop \ Tasks, at' = [at EXCEPT ![l] = at'[l]],
         \A k \in Loop \ {l} : wake'[k] = wake[k],
         l \notin Tasks' \/ at'[l] \notin {"new", "wait", "ok"}
  PROVE  Quiet'
<1> SUFFICES ASSUME NEW k \in Tasks'
             PROVE  at'[k] \notin {"new", "wait"} /\ (k \in Peer => at'[k] # "ok")
  BY DEF Quiet
<1>1. k \in Loop
  BY LoopParts DEF Tasks
<1>2. CASE k = l
  BY <1>2
<1>3. CASE k # l
  <2>1. at'[k] = at[k] /\ wake'[k] = wake[k]
    BY <1>1, <1>3 DEF TypeOK
  <2> QED BY <2>1 DEF Quiet, Tasks
<1> QED BY <1>2, <1>3

\* Afterwards no task but the refresher waits: what still goes on are calls
\* of start and accept_peer, which are their callers'.
LEMMA DoneStep ==
  ASSUME TypeOK, Asked, Stopping, Refresher, Gathered, [Next]_vars, Done,
         ~GatherOrCancel, ~GatherItself
  PROVE  Quiet' /\ NeverStarts' /\ (Refreshes' => LastRoundUsed')
<1> USE LoopParts DEF TypeOK
<1>0. /\ rx = "ended" /\ state = "stopped"
      /\ Quiet /\ NeverStarts /\ (Refreshes => LastRoundUsed)
  BY DEF Done, Stopping, Closer, Gathered
<1>t. /\ "unauth" \notin Tasks /\ "refresh" \notin Tasks
      /\ \A l \in Tasks : at[l] \notin {"new", "wait"}
      /\ \A p \in Peer : at[p] # "ok" /\ (at[p] = "wait" => ~(wake[p] > 1))
  BY <1>0 DEF Tasks, Signed, Quiet
<1>u. at["unauth"] = "wait" => Tx("unauth") \in Txid
  BY TxidMade DEF Asked, Tx
<1>r. ASSUME start' = "started" => start = "started",
             at["refresh"] = "ended" => at'["refresh"] = "ended"
      PROVE  Refreshes' => LastRoundUsed'
  BY <1>0, <1>r, Recorded DEF Refreshes
<1>n. ASSUME UNCHANGED start, at'["unauth"] = at["unauth"], wake'["unauth"] = wake["unauth"],
             round'["unauth"] = round["unauth"],
             \A t \in Txid : status'[t] = "set" => status[t] = "set"
      PROVE  NeverStarts'
  <2>1. Tx("unauth")' = Tx("unauth")
    BY <1>n DEF Tx
  <2> QED BY <1>0, <1>n, <1>u, <2>1 DEF NeverStarts
<1> DEFINE Goal == Quiet' /\ NeverStarts' /\ (Refreshes' => LastRoundUsed')
<1>k. ASSUME UNCHANGED <<start, retries>> PROVE Goal
  BY <1>0, <1>k, <1>n, <1>r DEF retries, Quiet, Tasks
<1>1. CASE Start
  BY <1>0, <1>1 DEF Start, NeverStarts
<1>2. CASE StartGoesOn
  <2>1. start' = "failed" /\ UNCHANGED retries
    BY <1>0, <1>2 DEF StartGoesOn, NeverStarts
  <2> QED BY <1>0, <2>1, <1>r DEF retries, Quiet, Tasks, NeverStarts
<1>3. CASE StartTimesOut
  <2>1. start' = "failed" /\ wake' = wake /\ at' \in {at, [at EXCEPT !["unauth"] = "failed"]}
    BY <1>3 DEF StartTimesOut
  <2>2. Quiet'
    BY <1>0, <1>t, <2>1 DEF Quiet, Tasks, Signed
  <2> QED BY <2>1, <2>2, <1>r DEF NeverStarts
<1>4. ASSUME NEW p \in Peer, AcceptPeer(p) PROVE Goal
  <2>1. /\ at' = [at EXCEPT ![p] = "wait"] /\ wake' = [wake EXCEPT ![p] = 1]
        /\ start' = start /\ start = "started"
    BY <1>4 DEF AcceptPeer, Begin
  <2>2. p \notin Tasks'
    BY <2>1 DEF Tasks, Signed
  <2>3. Quiet'
    <3> SUFFICES ASSUME NEW k \in Tasks'
                 PROVE  at'[k] \notin {"new", "wait"} /\ (k \in Peer => at'[k] # "ok")
      BY DEF Quiet
    <3>1. k \in Loop /\ k # p
      BY <2>2 DEF Tasks
    <3> QED BY <1>0, <2>1, <3>1 DEF Quiet, Tasks
  <2> QED BY <2>1, <2>3, <1>r DEF NeverStarts
<1>5. ASSUME NEW p \in Peer, RenewDue(p) PROVE FALSE
  BY <1>t, <1>5 DEF RenewDue
<1>6. CASE RefreshDue
  <2>1. /\ at' = [at EXCEPT !["refresh"] = "wait"] /\ start' = start /\ start = "started"
        /\ \A k \in Loop \ {"refresh"} : wake'[k] = wake[k]
        /\ at["refresh"] # "ended"
    BY <1>6 DEF RefreshDue, Begin
  <2>2. "refresh" \notin Tasks'
    BY DEF Tasks, Signed
  <2>3. Quiet'
    BY <1>0, <1>t, <2>1, <2>2, QuietKept
  <2> QED BY <2>1, <2>3, <1>r DEF NeverStarts
<1>7. CASE Reconnect
  <2>1. /\ at' = [at EXCEPT !["refresh"] = "ok"] /\ UNCHANGED <<start, wake, round, status>>
        /\ at["refresh"] # "ended"
    BY <1>0, <1>7 DEF Reconnect
  <2>2. "refresh" \notin Tasks'
    BY DEF Tasks, Signed
  <2>3. Quiet'
    BY <1>0, <1>t, <2>1, <2>2, QuietKept
  <2> QED BY <2>1, <2>3, <1>n, <1>r
<1>8. ASSUME NEW l \in Signed, AllocateSigned(l) PROVE FALSE
  BY <1>t, <1>8 DEF AllocateSigned, Tasks
<1>9. ASSUME NEW l \in Loop, Retry(l) PROVE Goal
  <2>1. /\ at[l] = "wait" /\ l \notin Tasks /\ wake[l] \in 1 .. MaxWakes[l]
        /\ round[l] \in 1 .. Rounds /\ UNCHANGED <<start, wake>>
        /\ at' = [at EXCEPT ![l] = at'[l]]
    BY <1>t, <1>9 DEF Retry, RoundTimesOut, RoundSucceeds, Begin, Asked, client
  <2>2. ASSUME l \in Peer PROVE l \notin Tasks' \/ at'[l] \notin {"new", "wait", "ok"}
    <3>1. CASE RoundTimesOut(l)
      <4>1. at'[l] \in {"wait", "failed"}
        BY <3>1 DEF RoundTimesOut, Begin
      <4> QED BY <1>t, <2>1, <2>2, <4>1 DEF Tasks, Signed
    <3>2. CASE RoundSucceeds(l)
      BY <1>0, <2>1, <2>2, <3>2, TurnAssumption DEF RoundSucceeds
    <3> QED BY <1>9, <3>1, <3>2 DEF Retry
  <2>3. l \in Peer \cup {"unauth", "refresh"}
    BY <2>1 DEF Loop, Allocator, Tasks
  <2>4. l \notin Tasks' \/ at'[l] \notin {"new", "wait", "ok"}
    BY <2>2, <2>3 DEF Tasks, Signed
  <2>5. Quiet'
    BY <1>0, <2>1, <2>4, QuietKept
  <2>6. \A t \in Txid : status'[t] = "set" => status[t] = "set"
    BY <1>9 DEF Retry, RoundTimesOut, RoundSucceeds, Begin
  <2>7. NeverStarts'
    <3>1. CASE l # "unauth"
      <4>1. at'["unauth"] = at["unauth"] /\ round'["unauth"] = round["unauth"]
        BY <1>9, <3>1 DEF Retry, RoundTimesOut, RoundSucceeds, Begin
      <4> QED BY <2>1, <2>6, <4>1, <1>n
    <3>2. CASE l = "unauth" /\ start = "retry"
      <4>1. status[Tx("unauth")] # "set"
        BY <1>0, <2>1, <3>2 DEF NeverStarts
      <4>2. RoundTimesOut("unauth")
        BY <1>9, <3>2, <4>1 DEF Retry, RoundSucceeds
      <4>3. CASE round["unauth"] < Rounds
        <5>1. round["unauth"] + 1 \in 1 .. Rounds
          BY <2>1, <3>2, <4>3, TurnAssumption
        <5>2. <<"unauth", wake["unauth"], round["unauth"] + 1>> \in Txid
          BY <2>1, <3>2, <5>1, TxidMade
        <5>3. at'["unauth"] = "wait" /\ status'[Tx("unauth")'] = "pending"
          BY <4>2, <4>3, <5>2 DEF RoundTimesOut, Begin, Tx
        <5> QED BY <2>1, <3>2, <5>3 DEF NeverStarts
      <4>4. CASE ~(round["unauth"] < Rounds)
        BY <2>1, <3>2, <4>2, <4>4 DEF RoundTimesOut, NeverStarts
      <4> QED BY <4>3, <4>4
    <3>3. CASE start # "retry"
      BY <1>0, <2>1, <3>3 DEF NeverStarts
    <3> QED BY <3>1, <3>2, <3>3
  <2>8. at["refresh"] = "ended" => at'["refresh"] = "ended"
    BY <2>1
  <2> QED BY <2>1, <2>5, <2>7, <2>8, <1>r
<1>10. CASE \/ \E reply \in replies : Receive(reply)
            \/ Replies \/ LoopEnds
  BY <1>0, <1>10 DEF Receive, Replies, Handle, LoopEnds
<1>11. CASE \/ Close \/ NonceExpires \/ UNCHANGED vars
            \/ \E c \in Closer : DoCleanup(c) \/ Stopped(c)
            \/ \E request \in sent : Answer(request)
  BY <1>k, <1>11 DEF Close, NonceExpires, DoCleanup, Stopped, Answer, vars, retries
<1> QED
  BY <1>1, <1>2, <1>3, <1>4, <1>5, <1>6, <1>7, <1>8, <1>9, <1>10, <1>11 DEF Next

LEMMA GatheredStep ==
  ASSUME TypeOK, Asked, Stopping, Refresher, Gathered, [Next]_vars
  PROVE  Gathered'
BY DoneBefore, GatherStep, DoneStep DEF Gathered

-----------------------------------------------------------------------------
LEMMA Inductive == IInv /\ [Next]_vars => IInv'
<1> SUFFICES ASSUME IInv, [Next]_vars PROVE IInv'
  OBVIOUS
<1>1. TypeOK' /\ Asked'
  BY TypeStep DEF IInv
<1>2. OneTask' /\ Granted' /\ Forced'
  BY OneTaskStep, GrantedStep, ForcedStep DEF IInv
<1>3. Stopping' /\ Refresher' /\ Gathered'
  BY StoppingStep, RefresherStep, GatheredStep DEF IInv
<1> QED BY <1>1, <1>2, <1>3 DEF IInv

LEMMA Invariant == Spec => []IInv
<1> QED BY InitHolds, Inductive, PTL DEF Spec

\* Every variable keeps its type; a loop makes no more rounds than it may.
THEOREM TypeCorrect == Spec => []TypeOK
<1>1. IInv => TypeOK
  BY DEF IInv
<1> QED BY Invariant, <1>1, PTL

\* However often the server refuses, and its answers are repeated, an open
\* client has one task that allocates (process_replies).
THEOREM OneAllocates == Spec => []OneAllocation
<1>1. IInv => OneAllocation
  BY DEF IInv, OneTask, OneAllocation
<1> QED BY Invariant, <1>1, PTL

\* A peer that accept_peer accepted, and whose permission is renewed, was
\* granted it by the server, for any number of peers, rounds and late replies.
THEOREM PeersAreGranted == Spec => []AcceptedIsGranted
<1>1. IInv => AcceptedIsGranted
  BY DEF IInv, Granted
<1> QED BY Invariant, <1>1, PTL

\* A client that start() returned has the server's relay address, or was
\* closed.
THEOREM StartsWithRelay == Spec => []StartedHasRelay
<1>1. IInv => StartedHasRelay
  BY DEF IInv, Forced
<1> QED BY Invariant, <1>1, PTL

\* After close() returned none of the client's tasks waits, nor starts again,
\* but for a refresher that has been in the last round of a call.
THEOREM CloseIsQuiet == Spec => []ClosedIsQuiet
<1>1. IInv => ClosedIsQuiet
  <2> SUFFICES ASSUME IInv, closing["app"] = "closed", closing["refresh"] \in {"no", "closed"},
                      NEW l \in Tasks \cup {"refresh"}, at[l] \in {"new", "wait"}
               PROVE  l = "refresh" /\ LastRoundUsed
    BY DEF ClosedIsQuiet
  <2>1. Quiet /\ (Refreshes => LastRoundUsed)
    BY DEF IInv, Gathered, Done
  <2>2. l = "refresh"
    BY <2>1 DEF Quiet
  <2>3. Refreshes
    BY <2>2 DEF IInv, Refresher, Refreshes
  <2> QED BY <2>1, <2>2, <2>3
<1> QED BY Invariant, <1>1, PTL
=============================================================================
