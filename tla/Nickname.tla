------------------------------- MODULE Nickname -------------------------------
(***************************************************************************)
(* Names kept at several name servers: Nickname (node/nickname.py) and its *)
(* PNPClient per server and address family (protocol/pnp/pnp_client.py).   *)
(*                                                                         *)
(* push and delete run a worker per server, which tries the server's IPv4  *)
(* client and then its IPv6 client; push returns the name with the TLD     *)
(* that stands for the servers that took it.  A reader fetches the name    *)
(* from the servers of a TLD and goes by the answers as they come in.  A   *)
(* request a worker has given up may still be handled, as late as it likes.*)
(* The servers are those of PNPServer, one name and one owner of it.       *)
(***************************************************************************)
EXTENDS Integers, FiniteSets

CONSTANTS Server,    \* the offsets of PNP_SERVERS
          Call,      \* the calls of the owner, each made at most once
          Pushes,    \* those of them that push; the others delete
          Reach,     \* the <<server, family>> that can be connected to
          MaxCalls,  \* how many of the calls are made (a bound of the run)
          Skew,      \* sys_clock, set by NTP, less the local clock
          Penalty,   \* what the server takes off the time of an update
          MaxTime    \* the clock stops here (a bound of the run)

AF == 1 .. 2        \* VALID_AFS, in the order a worker tries them
NoCall == "no call"
NoValue == "none"      \* no row, and the value of a name that is not found
Empty == "empty"    \* the empty value

ASSUME NicknameAssumption ==
  /\ Pushes \subseteq Call /\ Skew \in Int /\ Penalty \in Nat /\ MaxTime \in Nat
  /\ {NoCall, NoValue, Empty} \cap Call = {}

VARIABLES
  usable,  \* clients[af][server] is there and not None
  last,    \* PNPClient.names: the time it signed last, {} before the first
  row,     \* the servers' rows: the value and the time stored with it
  wire,    \* requests on their way to a server
  call,    \* the call in progress
  work,    \* its worker at each server
  tld,     \* the servers in the name that the last push returned
  pushed,  \* that push, NoValue once another call is made
  made,    \* the calls made so far
  late,    \* an abandoned request was under way when the last call was made
  fetch,   \* the reader's fetch
  clock    \* the local clock

nickvars == <<usable, last, row, wire, call, work, tld, pushed, made, late, fetch, clock>>
owner == <<usable, last, row, wire, call, work, tld, pushed, made, late, clock>>

Idle == [st |-> "idle", af |-> 1]
Try(af) == IF af \in AF THEN [st |-> "try", af |-> af] ELSE [st |-> "failed", af |-> 1]
NoFetch == [st |-> "idle", left |-> {}, after |-> NoValue, value |-> NoValue]

\* start: a client is kept when its server could be connected to.
NickInit ==
  /\ usable \in {u \in [Server \X AF -> BOOLEAN] : \A c \in DOMAIN u : u[c] => c \in Reach}
  /\ last = [c \in Server \X AF |-> {}]
  /\ row = [s \in Server |-> [value |-> NoValue, time |-> 0]]
  /\ wire = {} /\ call = NoCall /\ work = [s \in Server |-> Idle]
  /\ tld = {} /\ pushed = NoValue /\ made = {} /\ late = FALSE
  /\ fetch = NoFetch /\ clock = 1

-----------------------------------------------------------------------------
(* The owner. *)

Begin(c) ==
  /\ call = NoCall /\ c \notin made /\ Cardinality(made) < MaxCalls
  /\ call' = c /\ made' = made \cup {c} /\ pushed' = NoValue
  /\ work' = [s \in Server |-> Try(1)]
  /\ late' = (wire # {})
  /\ UNCHANGED <<usable, last, row, wire, tld, fetch, clock>>

\* get_updated: the first time is the NTP time, later ones are the local
\* clock's; only a time equal to the one before is waited out.
Stamp(c) == IF last[c] = {} THEN {clock + Skew} ELSE {clock} \ last[c]

\* The next address family: skipped when it has no client, or when its pipe
\* cannot be opened (the time is taken before).
Skip(s) ==
  /\ work[s].st = "try"
  /\ \/ ~usable[s, work[s].af] /\ UNCHANGED last
     \/ /\ usable[s, work[s].af]
        /\ \E t \in Stamp(<<s, work[s].af>>) :
             last' = [last EXCEPT ![<<s, work[s].af>>] = {t}]
  /\ work' = [work EXCEPT ![s] = Try(@.af + 1)]
  /\ UNCHANGED <<usable, row, wire, call, tld, pushed, made, late, fetch, clock>>

\* push and delete of PNPClient: sign and send, then wait for the reply.
Send(s) ==
  /\ work[s].st = "try" /\ usable[s, work[s].af]
  /\ \E t \in Stamp(<<s, work[s].af>>) :
       /\ last' = [last EXCEPT ![<<s, work[s].af>>] = {t}]
       /\ wire' = wire \cup {[to |-> s, af |-> work[s].af, call |-> call, updated |-> t]}
  /\ work' = [work EXCEPT ![s].st = "wait"]
  /\ UNCHANGED <<usable, row, call, tld, pushed, made, late, fetch, clock>>

\* No reply: return_resp gives NoValue and the next address family is tried.
GiveUp(s) ==
  /\ work[s].st = "wait"
  /\ work' = [work EXCEPT ![s] = Try(@.af + 1)]
  /\ UNCHANGED <<usable, last, row, wire, call, tld, pushed, made, late, fetch, clock>>

\* async_wrap_errors(worker, timeout): the worker is cancelled.
Timeout(s) ==
  /\ work[s].st \in {"try", "wait"}
  /\ work' = [work EXCEPT ![s].st = "failed"]
  /\ UNCHANGED <<usable, last, row, wire, call, tld, pushed, made, late, fetch, clock>>

Settled == \A s \in Server : work[s].st \in {"acked", "failed"}

\* A bug: the name is said to be at every server when one has taken it.
NamedServersAll(acked) == IF acked = {} THEN {} ELSE Server

\* pnp_get_tld: the TLD stands for the servers whose worker succeeded.
NamedServers(acked) == acked

\* gather returns.  A push no server has taken raises FullNameFailure; a
\* delete has no result.
Return ==
  LET acked == {s \in Server : work[s].st = "acked"} IN
  /\ call # NoCall /\ Settled
  /\ IF call \in Pushes /\ acked # {}
       THEN tld' = NamedServers(acked) /\ pushed' = call
       ELSE UNCHANGED <<tld, pushed>>
  /\ call' = NoCall /\ work' = [s \in Server |-> Idle]
  /\ UNCHANGED <<usable, last, row, wire, made, late, fetch, clock>>

-----------------------------------------------------------------------------
(* The servers. *)

\* The reply reaches the worker if it still waits for this request.
Acknowledge(q) ==
  work' = IF work[q.to] = [st |-> "wait", af |-> q.af] /\ call = q.call
            THEN [work EXCEPT ![q.to].st = "acked"] ELSE work

\* A request is taken when it is newer than the row.  A delete removes the
\* row; where there is none it is a write of the empty value.
Handle(q) ==
  LET old == row[q.to] IN
  /\ q \in wire /\ wire' = wire \ {q}
  /\ \/ /\ old.value = NoValue
        /\ row' = [row EXCEPT ![q.to] =
             [value |-> IF q.call \in Pushes THEN q.call ELSE Empty, time |-> q.updated]]
        /\ Acknowledge(q)
     \/ /\ old.value # NoValue /\ old.time < q.updated
        /\ row' = [row EXCEPT ![q.to] =
             IF q.call \in Pushes
               THEN [value |-> q.call, time |-> q.updated - Penalty]
               ELSE [value |-> NoValue, time |-> 0]]
        /\ Acknowledge(q)
     \/ /\ old.value # NoValue /\ old.time >= q.updated
        /\ UNCHANGED <<row, work>>
  /\ UNCHANGED <<usable, last, call, tld, pushed, made, late, fetch, clock>>

\* A request is lost, or refused: the IP is at its limit, the transaction is
\* rolled back.  The server does not answer then.
Lose(q) ==
  /\ q \in wire /\ wire' = wire \ {q}
  /\ UNCHANGED <<usable, last, row, call, work, tld, pushed, made, late, fetch, clock>>

Tick ==
  /\ clock < MaxTime /\ clock' = clock + 1
  /\ UNCHANGED <<usable, last, row, wire, call, work, tld, pushed, made, late, fetch>>

-----------------------------------------------------------------------------
(* A reader, who knows the name by the TLD the last push returned. *)

FetchBegin ==
  /\ fetch.st \in {"idle", "found", "failed"} /\ tld # {}
  /\ fetch' = [NoFetch EXCEPT !.st = "on", !.left = tld, !.after = pushed]
  /\ UNCHANGED owner

\* as_completed: the next worker is done.  One that has no answer returns
\* NoValue, and ret.value raises: the fetch ends there.
FetchNoAnswer(s) ==
  /\ fetch.st = "on" /\ s \in fetch.left
  /\ fetch' = [fetch EXCEPT !.st = "failed", !.left = @ \ {s}]
  /\ UNCHANGED owner

FetchAnswer(s) ==
  LET left == fetch.left \ {s} IN
  /\ fetch.st = "on" /\ s \in fetch.left
  /\ fetch' = IF row[s].value # NoValue
                THEN [fetch EXCEPT !.st = "found", !.left = left,
                                   !.value = row[s].value]
                ELSE [fetch EXCEPT !.st = IF left = {} THEN "failed" ELSE "on",
                                   !.left = left]
  /\ UNCHANGED owner

-----------------------------------------------------------------------------
NickNext ==
  \/ \E c \in Call : Begin(c)
  \/ \E s \in Server : Skip(s) \/ Send(s) \/ GiveUp(s) \/ Timeout(s)
                       \/ FetchNoAnswer(s) \/ FetchAnswer(s)
  \/ \E q \in wire : Handle(q) \/ Lose(q)
  \/ Return \/ FetchBegin \/ Tick

NickSpec == NickInit /\ [][NickNext]_nickvars

-----------------------------------------------------------------------------
(* Properties. *)

\* The name push returned leads to what it pushed: a fetch made after it, and
\* before the owner's next call, returns that value, from whichever server of
\* the TLD answers first.  Only a request that was abandoned before the push,
\* and that a server handles after it, may make it another (pnp_server's
\* penalty lets an older request pass).
FetchGetsPush ==
  fetch.st = "found" /\ pushed # NoValue /\ fetch.after = pushed /\ ~late
    => fetch.value = pushed

\* "Return first success" (nickname.py:201), "the fastest success result"
\* (:277): a fetch fails only when no server of the TLD is left to answer.
FetchTriesAll == fetch.st = "failed" => fetch.left = {}
===============================================================================
