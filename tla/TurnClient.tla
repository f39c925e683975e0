------------------------------ MODULE TurnClient ------------------------------
(***************************************************************************)
(* A TURN client of P2PD and its server (src/src/p2pd/traversal/turn).     *)
(*                                                                         *)
(* Requests go out over UDP and are repeated by async_retry, which waits   *)
(* for the status future of the request's transaction ID; one task reads   *)
(* the replies (process_replies) and sets those futures.  The requests are *)
(* made by five loops: start() allocates without credentials and is told   *)
(* 401; the reply makes a task that allocates with them; accept_peer asks  *)
(* for a permission and makes a task that renews it; a refresher keeps the *)
(* allocation alive.  Messages may be lost, repeated, reordered and late.  *)
(*                                                                         *)
(* The client may be closed between any two awaits, by the application     *)
(* and by its own refresher, whose reconnect() starts with close().  Both  *)
(* gather the client's tasks and cancel them after two seconds, as asyncio *)
(* does up to Python 3.11; the refresher swallows the cancellation in its  *)
(* last try of async_retry (break in its finally) and in its own           *)
(* gather_or_cancel (return in its finally).  The tasks that send data are *)
(* left out, but for whether one of them was cancelled too.                *)
(***************************************************************************)
EXTENDS Integers, FiniteSets

CONSTANTS Peer,      \* peers the application accepts
          Rounds,    \* count of async_retry: 5
          MaxWakes,  \* loop -> calls of async_retry it makes (a bound)
          MaxAgain,  \* how many tasks go round a second time (a bound)
          MaxStale,  \* how often the server changes its nonce (a bound)
          MaxLate    \* how many time limits pass, and nonces change, in a run (a bound)

\* "again" is the task of an error that is handled after the closing.
Signed    == {"signed", "again"}
Allocator == {"unauth"} \cup Signed
Loop      == Allocator \cup {"refresh"} \cup Peer
\* Who calls close(): the application, or the refresher in its reconnect().
Closer    == {"app", "refresh"}

ASSUME TurnAssumption ==
  /\ Peer \cap {"unauth", "signed", "again", "refresh"} = {}
  /\ Rounds \in Nat \ {0} /\ MaxWakes \in [Loop -> Nat \ {0}]
  /\ MaxAgain \in Nat /\ MaxStale \in Nat /\ MaxLate \in Nat

\* Transaction IDs are random: one for every round of every loop.
Txid == UNION {{l} \X (1 .. MaxWakes[l]) \X (1 .. Rounds) : l \in Loop}

VARIABLES
  state,    \* the client's state: "new", "try" (allocate) or "stopped"
  nonce,    \* what it can sign with: "none", "good", "old"
  auth,     \* auth_event
  relay,    \* relay_tup_future: "none", "addr", or "zero" set by the closing
  start,    \* where start() is
  peers,    \* keys of self.peers
  at,       \* per loop: where its async_retry is
  wake,     \* per loop: which call of async_retry
  round,    \* per loop: which round of it
  status,   \* per ID: the status future in self.msgs
  rx,       \* process_replies: "run", "ended", "dead" (an exception)
  hand,     \* the reply it has taken from the queue, if any
  closing,  \* per closer: where its close() is
  sent,     \* requests on the network
  replies,  \* replies on the network
  stale,    \* how often the nonce changed
  late      \* how many time limits passed

client  == <<state, nonce, auth, relay>>
retries == <<at, wake, round, status>>
server  == <<sent, replies, stale, late>>
vars == <<state, nonce, auth, relay, start, peers, at, wake, round, status,
          rx, hand, closing, sent, replies, stale, late>>

Credential == {"none", "good", "old"}
Verdict    == {"ok", "401", "437", "438"}
Request    == Txid \X Credential
Reply      == Txid \X Verdict

Tx(l) == <<l, wake[l], round[l]>>
PipeOpen == \A c \in Closer : closing[c] \in {"no", "pipe"}

-----------------------------------------------------------------------------
Init ==
  /\ state = "new" /\ nonce = "none" /\ auth = FALSE /\ relay = "none"
  /\ start = "idle" /\ peers = {}
  /\ at = [l \in Loop |-> "idle"]
  /\ wake = [l \in Loop |-> 0] /\ round = [l \in Loop |-> 0]
  /\ status = [t \in Txid |-> "none"]
  /\ rx = "run" /\ hand = {}
  /\ closing = [c \in Closer |-> "no"]
  /\ sent = {} /\ replies = {} /\ stale = 0 /\ late = 0

(***************************************************************************)
(* async_retry.                                                            *)
(***************************************************************************)
\* What a round sends.  An allocation is sent by every round; a permission
\* or a refresh only by the first: later rounds record a new message, but
\* retry_coro is called when i == 0 alone.
Sends(l, i) == l \in Allocator \/ i = 1
Signature(l) == IF l = "unauth" THEN "none" ELSE nonce

\* Round i of call w of the loop: a message is recorded under a new ID.
Begin(l, w, i, futures) ==
  /\ at' = [at EXCEPT ![l] = "wait"]
  /\ wake' = [wake EXCEPT ![l] = w]
  /\ round' = [round EXCEPT ![l] = i]
  /\ status' = [futures EXCEPT ![<<l, w, i>>] = "pending"]
  /\ sent' = IF Sends(l, i) /\ PipeOpen
             THEN sent \cup {<< <<l, w, i>>, Signature(l) >>} ELSE sent

\* wait_for(status_future, timeout) passes, which cancels the future.
RoundTimesOut(l) ==
  LET futures == [status EXCEPT ![Tx(l)] = "cancelled"] IN
  /\ at[l] = "wait" /\ status[Tx(l)] = "pending"
  /\ stale + late < MaxLate /\ late' = late + 1
  /\ IF round[l] < Rounds
       THEN Begin(l, wake[l], round[l] + 1, futures)
       ELSE /\ at' = [at EXCEPT ![l] = "failed"]
            /\ status' = futures
            /\ UNCHANGED <<wake, round, sent>>
  /\ UNCHANGED <<client, start, peers, rx, hand, closing, replies, stale>>

\* The future was set: a new one takes its place and the call returns, but
\* for the break in its finally, which makes the last round a failure.  The
\* task that renews a permission goes on until the client has stopped.
RoundSucceeds(l) ==
  /\ at[l] = "wait" /\ status[Tx(l)] = "set"
  /\ status' = [status EXCEPT ![Tx(l)] = "pending"]
  /\ at' = [at EXCEPT ![l] = IF round[l] = Rounds THEN "failed"
                             ELSE IF l \in Peer /\ state = "stopped" THEN "ended"
                             ELSE "ok"]
  /\ UNCHANGED <<client, start, peers, wake, round, rx, hand, closing, server>>

(***************************************************************************)
(* start().                                                                *)
(***************************************************************************)
Start ==
  /\ start = "idle"
  /\ start' = "retry"
  /\ Begin("unauth", 1, 1, status)
  /\ UNCHANGED <<client, peers, rx, hand, closing, replies, stale, late>>

\* The first allocation was answered, then auth_event and relay_event.
StartGoesOn ==
  /\ \/ start = "retry" /\ at["unauth"] = "ok" /\ start' = "auth"
     \/ start = "retry" /\ at["unauth"] = "failed" /\ start' = "failed"
     \/ start = "auth" /\ auth /\ start' = "relay"
     \/ start = "relay" /\ relay # "none" /\ start' = "started"
  /\ UNCHANGED <<client, peers, retries, rx, hand, closing, server>>

\* wait_for(turn_client.start(), 10) in get_turn_client.  The client is not
\* closed.
StartTimesOut ==
  /\ start \in {"retry", "auth", "relay"}
  /\ stale + late < MaxLate /\ late' = late + 1
  /\ start' = "failed"
  /\ IF at["unauth"] = "wait"
       THEN /\ at' = [at EXCEPT !["unauth"] = "failed"]
            /\ status' = [status EXCEPT ![Tx("unauth")] =
                            IF @ = "pending" THEN "cancelled" ELSE @]
       ELSE UNCHANGED <<at, status>>
  /\ UNCHANGED <<client, peers, wake, round, rx, hand, closing,
                 sent, replies, stale>>

(***************************************************************************)
(* accept_peer() and the refreshers.                                       *)
(***************************************************************************)
\* A peer in self.peers was accepted already, and the call returns.
AcceptPeer(p) ==
  /\ start = "started" /\ p \notin peers
  /\ peers' = peers \cup {p}
  /\ Begin(p, 1, 1, status)
  /\ UNCHANGED <<client, start, rx, hand, closing, replies, stale, late>>

\* The bounds on the calls of a task that goes round.
MayGoRound(l) ==
  /\ wake[l] < MaxWakes[l]
  /\ wake[l] > 0 =>
       Cardinality({k \in Peer \cup {"refresh"} : wake[k] > 1} \cup {l}) <= MaxAgain

\* The permission's refresher wakes.  A call of async_retry that failed
\* ended the task.
RenewDue(p) ==
  /\ at[p] = "ok" /\ MayGoRound(p)
  /\ Begin(p, wake[p] + 1, 1, status)
  /\ UNCHANGED <<client, start, peers, rx, hand, closing, replies, stale, late>>

\* The refresher wakes: the client may have been closed since.
RefreshDue ==
  /\ start = "started" /\ at["refresh"] \in {"idle", "ok"}
  /\ MayGoRound("refresh")
  /\ Begin("refresh", wake["refresh"] + 1, 1, status)
  /\ UNCHANGED <<client, start, peers, rx, hand, closing, replies, stale, late>>

\* The refresh failed: reconnect() closes the client, which returns at once
\* when the loop of replies has ended.  Then it calls __init__ with arguments
\* it does not have; the TypeError is logged, and the refresher sleeps again.
Reconnect ==
  /\ at["refresh"] = "failed"
  /\ \/ /\ rx = "ended" /\ closing["refresh"] \in {"no", "closed"}
        /\ at' = [at EXCEPT !["refresh"] = "ok"] /\ UNCHANGED closing
     \/ /\ rx # "ended" /\ closing["refresh"] = "no"
        /\ closing' = [closing EXCEPT !["refresh"] = "pipe"] /\ UNCHANGED at
  /\ UNCHANGED <<client, start, peers, wake, round, status, rx, hand, server>>

(***************************************************************************)
(* process_replies.                                                        *)
(***************************************************************************)
\* A datagram is received; the task that waits in recv gets it when it runs.
Receive(reply) ==
  /\ rx = "run" /\ hand = {} /\ PipeOpen /\ reply \in replies
  /\ hand' = {reply}
  /\ UNCHANGED <<client, start, peers, retries, rx, closing, server>>

\* Which replies set the status of their message: any reply to Allocate and
\* Refresh, the success of CreatePermission.  The code of an error is not
\* passed on by process_attributes, so 438 is not told from the others.
SettlesAny(l, v) == TRUE
Settles(l, v) == l \in Peer => v = "ok"

\* process_attributes raises when a relay address comes after the closing
\* has set the future; the reply is dropped.
Dropped(t, v) == t[1] \in Allocator /\ v = "ok" /\ relay = "zero"
Learned(v) == IF v \in {"401", "438"} THEN "good" ELSE nonce

\* A bug: every error of an allocation makes a task.
SettleAgain(t, v) ==
  /\ UNCHANGED rx
  /\ status' = [status EXCEPT ![t] = "set"]
  /\ IF t[1] \in Allocator /\ v # "ok"
       THEN LET l == IF wake["signed"] = 0 THEN "signed" ELSE "again" IN
            /\ state' = "try"
            /\ at' = [at EXCEPT ![l] = "new"]
            /\ wake' = [wake EXCEPT ![l] = 1]
       ELSE UNCHANGED <<state, at, wake>>

\* The future of the ID is set, which raises when it is not pending and
\* ends the loop.  The first error of an allocation makes the task that
\* allocates with credentials.
Settle(t, v) ==
  IF ~Settles(t[1], v) THEN UNCHANGED <<state, at, wake, status, rx>>
  ELSE IF status[t] # "pending"
    THEN rx' = "dead" /\ UNCHANGED <<state, at, wake, status>>
  ELSE
    /\ UNCHANGED rx
    /\ status' = [status EXCEPT ![t] = "set"]
    /\ IF t[1] \in Allocator /\ v # "ok" /\ state # "try"
         THEN LET l == IF wake["signed"] = 0 THEN "signed" ELSE "again" IN
              /\ state' = "try"
              /\ at' = [at EXCEPT ![l] = "new"]
              /\ wake' = [wake EXCEPT ![l] = 1]
         ELSE UNCHANGED <<state, at, wake>>

\* One pass of the loop over a reply: nothing in it waits.
Handle(t, v) ==
  /\ rx = "run" /\ hand = {<<t, v>>}
  /\ hand' = {}
  /\ IF Dropped(t, v) THEN UNCHANGED <<client, at, wake, status, rx>>
     ELSE /\ nonce' = Learned(v)
          /\ relay' = IF t[1] \in Allocator /\ v = "ok" THEN "addr" ELSE relay
          /\ auth' = \/ auth
                     \/ nonce' # "none"
                     \/ t[1] \in Allocator /\ v = "ok" /\ state # "try"
                        /\ status[t] = "pending"
          /\ Settle(t, v)
  /\ UNCHANGED <<start, peers, round, closing, server>>

\* The task that allocates with credentials starts.
AllocateSigned(l) ==
  /\ at[l] = "new"
  /\ Begin(l, 1, 1, status)
  /\ UNCHANGED <<client, start, peers, rx, hand, closing, replies, stale, late>>

\* The loop's condition fails, and turn_client_stopped is set.
LoopEnds ==
  /\ rx = "run" /\ hand = {} /\ state = "stopped"
  /\ rx' = "ended"
  /\ UNCHANGED <<client, start, peers, retries, hand, closing, server>>

(***************************************************************************)
(* close().                                                                *)
(***************************************************************************)
\* A client that has stopped is closed already, although the refresher may
\* still be gathering its tasks.
Close ==
  /\ start # "idle" /\ closing["app"] = "no"
  /\ closing' = [closing EXCEPT !["app"] = IF rx = "ended" THEN "closed" ELSE "pipe"]
  /\ UNCHANGED <<client, start, peers, retries, rx, hand, server>>

\* A bug: the state stays what it is.
CleanupKeepsState(c) ==
  /\ closing[c] = "pipe"
  /\ closing' = [closing EXCEPT ![c] = "waiting"]
  /\ relay' = IF relay = "none" THEN "zero" ELSE relay
  /\ auth' = TRUE
  /\ UNCHANGED <<state, nonce, start, peers, retries, rx, hand, server>>

\* do_cleanup once its pipe is closed.
DoCleanup(c) ==
  /\ closing[c] = "pipe"
  /\ closing' = [closing EXCEPT ![c] = "waiting"]
  /\ state' = "stopped"
  /\ relay' = IF relay = "none" THEN "zero" ELSE relay
  /\ auth' = TRUE
  /\ UNCHANGED <<nonce, start, peers, retries, rx, hand, server>>

\* turn_client_stopped.wait() returns.
Stopped(c) ==
  /\ closing[c] = "waiting" /\ rx = "ended"
  /\ closing' = [closing EXCEPT ![c] = "tasks"]
  /\ UNCHANGED <<client, start, peers, retries, rx, hand, server>>

(***************************************************************************)
(* gather_or_cancel(self.tasks, 2), the end of close().                    *)
(***************************************************************************)
\* The loops that run in the client's tasks, besides the refresher: not
\* those of start and accept_peer, which run in their callers'.
Tasks == Signed \cup {p \in Peer : wake[p] > 1 \/ at[p] \in {"ok", "ended", "raised"}}

\* Those that end in an exception when they are cancelled.  The last try of
\* a renewal swallows the cancellation and times out, which is logged; an
\* allocation's is not caught.
Raising == {l \in Tasks : \/ at[l] = "new"
                          \/ at[l] = "ok" /\ l \in Peer
                          \/ at[l] = "wait" /\ (l \in Signed \/ round[l] < Rounds)}

\* The refresher's task, and where it swallows a cancellation.
Refreshes == start = "started" /\ at["refresh"] # "ended"
Swallows  == /\ Refreshes
             /\ \/ at["refresh"] = "wait" /\ round["refresh"] = Rounds
                \/ closing["refresh"] = "tasks"

\* Two seconds pass: what is not asleep and waits for nothing has run.
Settled ==
  /\ \A l \in Tasks \cup {"unauth", "refresh"} :
       at[l] = "wait" => status[Tx(l)] # "set"
  /\ start \notin {"auth", "relay"} /\ (start = "retry" => at["unauth"] = "wait")
  /\ closing["refresh"] \notin {"pipe", "waiting"}
  /\ at["refresh"] = "failed" => closing["refresh"] = "tasks"

\* Every task is cancelled, and with it the future it waits for.
CancelTasks(refresher) ==
  /\ at' = [l \in Loop |->
              IF l = "refresh" THEN refresher
              ELSE IF l \in Raising THEN "raised"
              ELSE IF l \in Tasks /\ at[l] = "wait" THEN "ended"
              ELSE at[l]]
  /\ status' = [t \in Txid |->
                  IF /\ t[1] \in Tasks \cup {"refresh"} /\ at[t[1]] = "wait"
                     /\ t = Tx(t[1]) /\ status[t] = "pending"
                    THEN "cancelled" ELSE status[t]]
  /\ UNCHANGED <<client, start, peers, wake, round, rx, hand, server>>

\* The application's close() leaves gather_or_cancel, or never does; a
\* refresher that was in its own has left that one.
Leaves(how) ==
  closing' = [closing EXCEPT !["app"] = how,
                             !["refresh"] = IF @ = "tasks" THEN "closed" ELSE @]

\* Two seconds have passed and no task had raised before.
GatherDue == /\ closing["app"] = "tasks" /\ Settled
             /\ \A l \in Tasks : at[l] # "raised"

\* A bug: the tasks are left alone.
TasksLeft ==
  /\ GatherDue /\ Leaves("closed")
  /\ UNCHANGED <<client, start, peers, retries, rx, hand, server>>

\* Cancelled after two seconds, one of the tasks raises (the refresher, one
\* of Raising, or one that sends data): the group is over, and they are
\* cancelled a second time, which ends the refresher in its sleep.
GatherTasks ==
  /\ GatherDue
  /\ CancelTasks(IF Refreshes THEN "ended" ELSE at["refresh"])
  /\ Leaves("closed")

\* An allocation had failed and ended the group with its TimeoutError: the
\* tasks are cancelled once, and the refresher may go on.
GatherFails ==
  /\ GatherDue /\ Swallows /\ \E l \in Signed : at[l] = "failed"
  /\ CancelTasks("ok")
  /\ Leaves("closed")

\* Nothing raises and the refresher goes on: the group never ends.
GatherHangs ==
  /\ GatherDue /\ Swallows /\ Raising = {}
  /\ CancelTasks("ok")
  /\ Leaves("stuck")

\* The refresher's own close() had cancelled a task of the group, which ends
\* it with CancelledError: close() returns and cancels nothing.
GatherCancelled ==
  /\ closing["app"] = "tasks" /\ closing["refresh"] = "closed"
  /\ closing' = [closing EXCEPT !["app"] = "closed"]
  /\ UNCHANGED <<client, start, peers, retries, rx, hand, server>>

\* The refresher gathers itself: it cancels every task, swallows its own
\* cancellation and goes on with the TypeError of reconnect().
GatherItself ==
  /\ closing["refresh"] = "tasks" /\ Settled
  /\ CancelTasks("ok")
  /\ closing' = [closing EXCEPT !["refresh"] = "closed"]

GatherOrCancel == GatherTasks \/ GatherFails \/ GatherHangs \/ GatherCancelled

(***************************************************************************)
(* The server and the network.  A request that was sent may reach the      *)
(* server any number of times, or never; so may its reply.                 *)
(***************************************************************************)
Allocation == {r \in replies : r[1][1] \in Allocator /\ r[2] = "ok"}

VerdictOn(t, c) ==
  CASE c = "none" -> "401"
    [] c = "old"  -> "438"
    [] t[1] \in Allocator ->
         IF \A r \in Allocation : r[1] = t THEN "ok" ELSE "437"
    [] OTHER -> IF Allocation # {} THEN "ok" ELSE "437"

Answer(request) ==
  /\ request \in sent
  /\ replies' = replies \cup {<<request[1], VerdictOn(request[1], request[2])>>}
  /\ UNCHANGED <<client, start, peers, retries, rx, hand, closing, sent, stale, late>>

\* The nonce expires: what is signed with it is refused from now on.
NonceExpires ==
  /\ stale < MaxStale /\ stale + late < MaxLate /\ nonce = "good"
  /\ stale' = stale + 1
  /\ nonce' = "old"
  /\ UNCHANGED <<state, auth, relay, start, peers, retries, rx, hand,
                 closing, sent, replies, late>>

-----------------------------------------------------------------------------
Retry(l) == RoundTimesOut(l) \/ RoundSucceeds(l)
Replies == \E t \in Txid, v \in Verdict : Handle(t, v)

Next ==
  \/ Start \/ StartGoesOn \/ StartTimesOut
  \/ \E p \in Peer : AcceptPeer(p) \/ RenewDue(p)
  \/ RefreshDue \/ Reconnect
  \/ \E l \in Signed : AllocateSigned(l)
  \/ \E l \in Loop : Retry(l)
  \/ \E reply \in replies : Receive(reply)
  \/ Replies \/ LoopEnds
  \/ Close
  \/ \E c \in Closer : DoCleanup(c) \/ Stopped(c)
  \/ GatherOrCancel \/ GatherItself
  \/ \E request \in sent : Answer(request)
  \/ NonceExpires

Spec == Init /\ [][Next]_vars

\* The event loop runs what is ready and its timers fire; the server and the
\* network owe nothing.
Fairness ==
  /\ \A l \in Loop : WF_vars(Retry(l))
  /\ WF_vars(StartGoesOn) /\ WF_vars(Reconnect)
  /\ WF_vars(Replies) /\ WF_vars(LoopEnds)
  /\ \A c \in Closer : WF_vars(DoCleanup(c)) /\ WF_vars(Stopped(c))
  /\ WF_vars(GatherOrCancel) /\ WF_vars(GatherItself)

FairSpec == Spec /\ Fairness

-----------------------------------------------------------------------------
(***************************************************************************)
(* Properties.                                                             *)
(***************************************************************************)
\* Every variable has its type.
TypeOK ==
  /\ state \in {"new", "try", "stopped"} /\ nonce \in Credential
  /\ auth \in BOOLEAN /\ relay \in {"none", "addr", "zero"}
  /\ start \in {"idle", "retry", "auth", "relay", "started", "failed"}
  /\ peers \subseteq Peer
  /\ at \in [Loop -> {"idle", "new", "wait", "ok", "failed", "ended", "raised"}]
  /\ wake \in [Loop -> Nat] /\ round \in [Loop -> 0 .. Rounds]
  /\ status \in [Txid -> {"none", "pending", "set", "cancelled"}]
  /\ rx \in {"run", "ended", "dead"} /\ hand \subseteq Reply
  /\ closing \in [Closer -> {"no", "pipe", "waiting", "tasks", "stuck", "closed"}]
  /\ sent \subseteq Request /\ replies \subseteq Reply
  /\ stale \in 0 .. MaxStale /\ late \in 0 .. MaxLate

\* "Avoid infinite loop of allocations" (turn_process.py:294): however often
\* the server refuses, and however often its answers are repeated, one task
\* allocates with credentials for as long as the client is open.
OneAllocation == PipeOpen => at["again"] = "idle"

\* accept_peer returns, and goes on renewing, only if the server did grant
\* the permission that was asked for last: an answer to an earlier round, to
\* another peer's request or an error does not count.
AcceptedIsGranted ==
  \A p \in Peer : at[p] = "ok" => <<Tx(p), "ok">> \in replies

\* A client that start() returned has a relay address of the server, unless
\* it was closed meanwhile (the futures are then set to (0, 0)).
StartedHasRelay ==
  start = "started" => relay = "addr" \/ ~PipeOpen

\* The refresher has been in the last round of a call of async_retry.
LastRoundUsed ==
  \E w \in 1 .. MaxWakes["refresh"] : status[<<"refresh", w, Rounds>>] # "none"

\* After close() returned, and after it the refresher's own if it was in one,
\* no task of the client waits for an answer and none starts to, but for a
\* refresher that swallowed the cancellation: only one that has been in the
\* last round of a call can.
ClosedIsQuiet ==
  closing["app"] = "closed" /\ closing["refresh"] \in {"no", "closed"} =>
    \A l \in Tasks \cup {"refresh"} :
      at[l] \in {"new", "wait"} => l = "refresh" /\ LastRoundUsed

\* close() returns, the application's and the refresher's, unless the loop of
\* replies was lost (an exception ended it, or an error that it had taken off
\* the queue overwrote the state), or the application waits for a refresher
\* that swallowed the cancellation: one that has been in its last round.
ClosesUnlessLost ==
  \A c \in Closer :
    closing[c] = "waiting" ~>
      \/ closing[c] = "closed" \/ rx = "dead" \/ state = "try"
      \/ c = "app" /\ closing[c] = "stuck" /\ LastRoundUsed

\* "Processing loop sets this when done" (turn_client.py:550): close() does
\* not wait for the loop for ever.
CloseReturns == closing["app"] = "waiting" ~> closing["app"] # "waiting"
=============================================================================
