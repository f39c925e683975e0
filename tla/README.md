# P2PD in TLA+

P2PD is a Python library for peer-to-peer connections: a *node* finds out what
its NATs do, publishes an address, and connects to other nodes by a direct
TCP connection, a reverse one, TCP hole punching or a TURN relay. This
directory models its protocols, checks them with TLC on small instances, and
proves the theorems that matter most with TLAPS for every instance.

Source paths below are under `src/src/p2pd/` unless they say otherwise.

1. [The system](#1-the-system)
2. [The modules](#2-the-modules)
3. [The runs](#3-the-runs)
4. [Fairness](#4-fairness)
5. [What is proved](#5-what-is-proved)
6. [What is only model-checked](#6-what-is-only-model-checked)
7. [Where the code and its documents disagree](#7-where-the-code-and-its-documents-disagree)
8. [What is not modelled](#8-what-is-not-modelled)
9. [What could come next](#9-what-could-come-next)

To repeat a check: `tlc -config NodeMeeting.cfg MCP2PNode`; a proof:
`tlapm P2PNodeProof.tla`.

## 1. The system

Everything runs in one asyncio event loop per process: a task is interrupted
only at an `await`. A step of a module is therefore what happens between two
awaits, and every interleaving of those steps is explored. Three things are
outside the loop: other machines, the network between them, and the pool of
processes that punches holes.

| component | state it keeps | operations | talks to |
|---|---|---|---|
| **node** (`node/p2p_node*.py`) | table of pipe futures `pipes`, of TURN clients and of punchers; queue of punches; count `active_punchers`; servers; idle pipes | start, connect, node_protocol (a line on a TCP pipe), sig_msg_dispatcher, schedule_punching_with_delay, close | everything below |
| **connection setup** (`node/p2p_pipe.py`, `p2p_utils.py`, `p2p_protocol.py`) | per call the loop over techniques, address types and interface pairs; per attempt a pipe ID, a future and a time limit; `seen` of the handlers | connect, the four techniques and their clean-ups; handlers of ConMsg, TCPPunchMsg, TURNMsg, GetAddr and ReturnAddr | the peer, by signals and by `ID:` lines on TCP |
| **signalling** (`node/signaling.py`) | one MQTT client per broker | send_msg, echo test, reconnection | brokers; a message goes over two of them |
| **hole punching** (`traversal/tcp_punch/`) | per ID a puncher: state, mappings, meeting time | proto, predictions, the punch in a process | node, NAT prediction, clock |
| **NAT prediction** (`nic/nat/`) | the type and the delta of a NAT | nat_predict, the tests behind it | STUN |
| **TURN client** (`traversal/turn/`) | state, nonce, `auth_event`, futures of the relay and the client tuple, `msgs` with a status future for each transaction ID, `peers`, `tasks` | start, allocate_relay, accept_peer, refreshers, process_replies, close | one server, over UDP |
| **pipes** (`net/pipe/`, `protocol/ack_udp.py`) | subscriptions and their queues, `stream.seq` (messages without an ack), `msg_ids`, tasks, table of TCP clients, pipes it forwards to | send, ack_send, recv, subscribe, callbacks of asyncio, close | other pipes |
| **name server** (`protocol/pnp/pnp_server.py`) | SQL tables of names, IPv4 and IPv6 addresses | msg_cb: fetch, write, delete, prune | its clients, over UDP, each datagram up to three times |
| **nicknames** (`node/nickname.py`, `protocol/pnp/pnp_client.py`) | the servers and keys | push, fetch, delete over several servers | name servers |
| **servers** (`net/daemon.py`, `protocol/echo`) | listeners by address, a lock for each | add_listener, close | pipes |
| **clock** (`protocol/ntp/`) | offset of this machine | measure, filter, time() | NTP |
| **addresses** (`net/ip_range.py`, `net/address.py`, `nic/`) | ranges, interfaces, routes | comparison, selection | the operating system |
| **REST API**, **test proxy** (`node/rest_api.py`, `protocol/toxiproxy/`) | named connections; tunnels and toxics | HTTP requests | node; pipes |

What is hard here, component by component, and what makes each correct (the
lines are in `PROJECT.json` under "hazards"):

* **Connection setup.** Two nodes run tasks for the same pipe ID. Each has
  a future in a table, which four actors may set: the technique itself, the
  `ID:` line of the peer, the punching process and the TURN handler; a time
  limit may cancel it at any await, and clean-up deletes it while another task
  waits for it. Messages are sent over two brokers, so they are repeated, and
  come after the attempt has ended. *Correct*: a returned pipe has two ends;
  punchers agree on who started; a message is handled once; a future is
  settled once; a relay client whose start returned stays in reach of a task that
  gives it up; connect makes one attempt at a time and returns.
* **TURN client.** Five loops of retries share a table of futures with one
  reader of replies, over UDP, and close may come between any two awaits.
  The refresher of an allocation may itself close the client it is a task of.
  *Correct*: one allocation; a peer counts as accepted only when the server
  granted it; start returns with a relay address; close returns, and nothing of
  the client runs after it, but where the code cannot keep that (section 7).
* **Name server.** A handler runs several transactions; others commit in
  between. Three durations that need not agree decide when a row
  goes. *Correct*: a row is changed for its owner only; a name lives as long
  as promised; an IP gets no more names than its limit.
* **Pipes with acknowledgements.** *Correct*: an acknowledged message arrived;
  with unique messages data is read once; every send ends, whether the pipe is
  closed or not.
* **TCP servers.** Accepted clients are put in a table of futures that the
  callbacks of asyncio change, that waiting tasks share, and that a task which
  gives up cancels. *Correct*: waiting tasks get the clients, none is passed
  over, and close ends all of them.
* **Node life.** Several processes on a machine want the same addresses; close
  walks tables that attempts change while it awaits. *Correct*: one process
  listens at an address; a close that returns has closed what was open, but for what
  Python's loop over a changed table passes over.
* **Signalling.** A node loads a few of many servers and sends to a peer over
  those in the peer's address. *Correct*: a server that both have is used.
* **Nicknames.** Several servers answer in any order or not at all, over two
  address families, and may handle a request long after it was given up.
  *Correct*: a fetch gets what was pushed; it fails only if no server answers.
* **Relay of a punch.** Two processes stand between two applications, over byte
  streams that join and split messages. *Correct*: a close lets go of all of it.
* **NAT test.** Requests of one test open the NAT for the replies to another.
  *Correct*: a route is not taken for an easier one.
* **REST API, test proxy.** Requests, and messages under toxics, are tasks that
  interleave at each await. Pipes of one listener share the list of what runs at their end.
  *Correct*: a name leads to its connection; messages
  keep their order, a bandwidth is kept, a close ends every pipe.
* **Algorithms.** Predictions, the test of a delta, ranges, the filter of clock
  offsets, the index of a pool, the choice of routes and addresses: two machines
  must come to matching results from each other's inputs, with data missing or wrong.

## 2. The modules

| module | models | kind |
|---|---|---|
| `ConnectCall` | what connect promises its caller | abstract specification |
| `P2PNode` | connection setup between any number of nodes | detailed, implements `ConnectCall` |
| `P2PNodeProof` | | theorems about `P2PNode` |
| `TurnClient` | a TURN client, its server and the network | detailed |
| `TurnClientProof` | | theorems about `TurnClient` |
| `PNPServer` | the name server | detailed |
| `PNPServerProof` | | theorems about `PNPServer` |
| `ReliablePipe` | datagram pipes with acknowledgements | detailed |
| `ReliablePipeProof` | | theorems about `ReliablePipe` |
| `TcpServer` | a TCP server pipe, its table of clients and close | detailed |
| `TcpServerProof` | | theorems about `TcpServer` |
| `NatTest` | the test of which NAT a route is behind | detailed |
| `Signaling` | which signalling servers are loaded and used | detailed |
| `RestApi` | connections and subscriptions by name | detailed |
| `ToxiTunnel` | a tunnel of the test proxy with its toxics | detailed |
| `PunchChain` | a punched connection between two applications | detailed |
| `NodeLife` | listening, the tables of a node, and close | detailed |
| `Nickname` | one name at several name servers | detailed |
| `ServicesProof` | | theorems about these seven |
| `NatPredict` | the exchange of port predictions | algorithm of two sides |
| `DeltaTest` | the test of a NAT's delta | algorithm |
| `Addresses` | ranges, and which address an attempt dials | algorithm |
| `ClockSkew` | the clock from NTP servers, some of them wrong | algorithm |
| `RoutePool` | the index of a pool of routes | algorithm |
| `Routes` | the routes of an interface, by concurrent STUN lookups | detailed |
| `PeerAddr` | the text of a node's address, written and read | algorithm |
| `AlgorithmsProof` | | theorems about these seven |
| `DataProof` | | lemmas about recursion, sums, powers, remainders and lists, which those rest on |
| `Lists` | the loop that keeps some entries of a list, in `Signaling`, `PeerAddr` and `Routes` | helper |
| `MCP2PNode`, `MCTurnClient`, `MCPNPServer`, `MCReliablePipe`, `MCTcpServer`, `MCNickname`, `MCRoutePool` | | constants for TLC |
| `MCServices`, `MCAlgorithms` | | constants for TLC, and one specification whose behaviours are those of one of seven modules each |

`MCServices` puts the seven service modules, and `MCAlgorithms` the seven
algorithms, side by side: the variable `part` says which of them a behaviour is
about, and the others stay where they start. They share no state in the code
either (a node's connections use the results of all of them), so nothing is lost by
this; it is one run instead of seven.

Operators whose comment begins with "A bug:" are not part of any
specification. Each is a plausible mistake in the action next to it, and is kept
to show that a property would notice: put in the place of the action it makes
the property that `PROJECT.json` names fail.

### P2PNode

State and code:

| variable | code |
|---|---|
| `pc`, `dest`, `cur`, `pos` | locals of `P2PNode.connect`, `P2PPipe.connect` and `for_addr_infos`: where the call is, which attempt it awaits, the loop indices |
| `att` | the pipe IDs that were drawn: the technique, the two nodes and the address type of each (they travel in its messages) |
| `entry` | `node.pipes[pipe_id]`; for the kind "getaddr" `node.addr_futures` |
| `task` | the two tasks a node may have for an ID: "I" of its own attempt, "H" of the handler of a message |
| `immune` | tasks that swallowed their cancellation |
| `seen`, `net` | `SigProtoHandlers.seen`; the signals under way |
| `conid`, `open` | `ID:` lines under way; TCP pipes |
| `turn` | `node.turn_clients`, from "none" over "client" to "accepted"; "null" is the `None` that is stored when no server worked |
| `alloc` | the tasks in `get_turn_client` whose client, still in a local variable, has a relay |
| `punch`, `sched`, `punching`, `hole`, `active` | the state of a TCPPuncher, the queue of the punch worker, the process pool, the SYNs that crossed, `active_punchers` |

Actions and code (the exact lines are in `PROJECT.json` under "map"):

| actions | code |
|---|---|
| Connect, NameFails, NameResolves, AddrKnown | `P2PNode.connect` with its lookup of the nickname and `GetAddr` |
| StartAttempt, ConnectFails | the loops of `P2PPipe.connect` and `for_addr_infos`, and `try_addr_infos` up to the technique |
| Deliver | `SigProtoHandlers.proto`, its handlers |
| StartHandler | the handler's `connect([strategy])` |
| OpenPipe, PipeOpened, PipeRefused, SendConId, RecvConId | `direct_connect`, `node_protocol` |
| ReverseConnect, PipeArrives | `reverse_connect`, the await of the future |
| PunchProto, Predicted, PredictFails, StartPunching, Punched, PunchReady, PunchFails | `tcp_hole_punch`, `TCPPuncher.proto`, `punch_queue_worker`, `proc_do_punching` and the listener it connects back to |
| TurnRelay, PeerAccepted, AcceptFails | `udp_turn_relay` |
| TurnAllocates, TurnDropped, TurnReady, TurnUnavailable | `get_turn_client`, `get_first_working_turn_client` |
| Timeout, Cleanup, TurnCleanup, TurnClosed | `async_wrap_errors`, the end of `try_addr_infos`, `tcp_punch_cleanup`, `turn_cleanup` |

Abstractions. Which interface pair an attempt uses is a number; whether it has
an address for it is a choice. Opening a socket, a prediction and a TURN server
may each work or fail. A message that was sent may be delivered at any time from
then on, any number of times, or never; a message whose TTL passed, or that is refused
for what it holds, still uses up its ID, as in the code. A time limit may pass
at any await. The TURN client is its state in the table, and before that whether
it has a relay; `TurnClient` has the rest. A client whose start takes more than 10
seconds (`TurnDropped`), or is cancelled by the limit of the attempt (`Timeout`), is
dropped as the code drops it: unclosed, with its relay, in nobody's reach.

The refinement mapping of `ImplementsCall`: an ID is "trying" while the caller's
own task for it is neither "ok" nor "done"; a call is connected when the task
of its attempt is "ok". Handlers, late pipes, clean-ups of relays and the whole
of the other node are stutters. So whatever the peer does, attempts of a call
never overlap, the first pipe ends the call, and the call fails only when
every attempt has ended.

### TurnClient

| variable | code |
|---|---|
| `state`, `nonce`, `auth`, `relay` | `TURNClient.state`, `nonce`, `auth_event`, `relay_tup_future` |
| `start`, `peers` | where `start()` is; `self.peers` |
| `closing` | where each `close()` is: the application's, and that of the refresher's `reconnect()` |
| `at`, `wake`, `round`, `status` | per loop: its `async_retry` (which call, which round); the status futures in `self.msgs`, each of a transaction ID |
| `rx`, `hand` | the loop of `process_replies`, and the reply it took off its queue |
| `sent`, `replies`, `stale`, `late` | external: requests and replies under way; how often the server's nonce changed and how many time limits passed |

The loops are `unauth` (the first allocation, of start), `signed` (the one with
credentials), `again` (a second such task, which only a fault or an error that is
handled after the closing can make), `refresh`, and one for each peer. `RoundTimesOut` and `RoundSucceeds` are
`async_retry` with its peculiarities: a new message per round which is only sent
for allocations, and a `break` in its `finally` that makes a success of the last
round a failure. `Handle` is one pass of `process_replies` with
`process_attributes`, `Close` (or `Reconnect`), `DoCleanup` and `Stopped` are the awaits of
`close` up to its `gather_or_cancel`. `Answer` is a server as RFC 5766 describes it: refusals
without credentials or with a stale nonce, one allocation per client. Data on
channels is left out, but for whether such a task was cancelled too.

The end of `close` depends on who else is in it. `gather_or_cancel` waits two
seconds for the client's tasks and then cancels them, as asyncio's `gather` does up to
Python 3.11: the group ends with the first exception, and a cancelled child ends it with
CancelledError. A refresher swallows its cancellation in two places: in the last
round of `async_retry` (`break` in its `finally`, `utility/utils.py:517`), and while it is
itself in `gather_or_cancel`, of the close in its own `reconnect()` (`return` in the
`finally`, `:649`). Hence the outcomes:

| action | outcome |
|---|---|
| GatherTasks | a task raises when it is cancelled, the group is over, and all tasks are cancelled once more; that ends the refresher, asleep by then |
| GatherFails | an allocation's TimeoutError had ended the group: the tasks are cancelled once, and a refresher that swallows it goes on |
| GatherHangs | nothing raises, and the refresher swallows it: the application's `close` never returns |
| GatherCancelled | the refresher's own `close` has cancelled a task of the application's group, which ends that |
| GatherItself | the refresher in its own `close` cancels all tasks, itself among them, and goes on |

`TasksLeft` (the tasks are left alone) is a bug. So a refresher may outlive the
close, or keep it from returning, but only one that was in the last round of a call
(`LastRoundUsed`): that is what `ClosedIsQuiet` and `ClosesUnlessLost` say.

### PNPServer

A request's handler is in `phase[r]`: "sent", then "delete", "prune" or
"write", then "done" or "refused"; between two phases other handlers commit.
`Receive` is `msg_cb` up to the first write with the check of the signature,
`DeleteName` is `verified_delete_name`, `Prune` is `verified_pruning`, `Write`
is `record_name`, `Penalty` is the penalty in `record_name` as whole numbers (its
rounding is kept). `ips` is the tables `ipv4s` and `ipv6s`: when the row of an address was
made. A name refers to a *row* (`ip` and `at`, the column `ip_id`), so names of a row that was
deleted do not count for the next row of the address. Two copies of a datagram are two
requests with different `copy`.

Three durations meet here. The penalty is cut by the module's `MIN_NAME_DURATION`
(`MinNameDuration`), names expire after the server's own `min_name_duration`
(`Duration`), and the rows of IPv6 addresses are deleted after `v6_addr_expiry`
(`AddrExpiry`), whether or not names refer to them. What `WrittenNamesLive` promises a
name is therefore `Life`, the server's duration less the largest penalty of the module.

`saw` records which row a handler read, for `OwnersUpdate`: the handler changes a
row *that it saw* for its owner only. Nothing stronger holds: when two owners
register one new name at the same time neither sees a row, and the handler that
writes second updates the first one's row (it keeps the first owner's key and
gets the second one's value).

### ReliablePipe

| variable | code |
|---|---|
| `worker`, `sends`, `event` | the task of `ack_send` per message and the event its caller waits for |
| `seq` | `stream.seq`: messages that wait for an acknowledgement |
| `acks` | the tasks that `BaseACKProto.handle_ack` made to send an acknowledgement |
| `ids`, `queue` | `msg_ids`; the queue of the subscription |
| `life`, `group` | where `close` is, and the tasks it gathers |
| `net` | external: datagrams under way |
| `arrived`, `routed`, `reset` | history, for the properties only |

A message has a random sequence number in the code; here the message is the
number, so numbers are distinct. `sock_timeout` (0 by default) and a queue
without limit are left out, as are handlers that are called for a datagram and
pipes it is forwarded to. `Closable` bounds which pipes a run closes.

### TcpServer

| variable | code |
|---|---|
| `life` | external: where a connection is, from the system's accept (connection_made is due) to connection_lost |
| `entry`, `insert`, `get` | `p_client_entry` of a client, `p_client_insert` and `p_client_get` of the server |
| `future`, `table` | the futures of `client_futures`, and the keys it still has; a task that waits keeps its future when the key is deleted |
| `listed` | `tcp_clients` |
| `closes`, `closing`, `closed` | calls of `close`, those past its `sleep(0)`, and not `is_running` |
| `waiter`, `on`, `accepts` | tasks in `await server` (`make_awaitable`), and the index they wait on |
| `returned`, `late` | history, for the properties only |

`ConnectionMade` is `TCPEvents.connection_made` with `add_tcp_client`,
`ConnectionLost` is `connection_lost`; `Accept`, `Wake` and `GiveUp` are
`make_awaitable` up to its await, its return and its cancellation. The
cancellation of a task cancels the future it awaits, which is the one the next
client is put in: every other task that waits is cancelled too, and
`set_result` raises at the end of `connection_made`. `CloseRuns` is `close`
after its sleep, in one step as nothing in it waits for a TCP client.

A connection that the system accepted before the close may be made after it;
it is listed at a closed server and nobody closes it. `ClosedEndsClients`
excepts such clients (`late`).

### NatTest

| variable | code |
|---|---|
| `nat` | external: what the route is behind |
| `sub` | the sub-test of `fast_nat_test` that runs: tests 1 and 2, then 3 and 4 |
| `sent`, `got` | requests sent, and replies received, by test and server |
| `first`, `fallback`, `verdict` | the first mapped address per test; `q_list[4]`; the result |
| `missed` | history: the NAT let in a reply that came too late |

`Reply` is a worker of `nat_test_exec` with `test_one` and `non_symmetric_check`,
`SubTestEnds` is the timeout of a sub-test. A reply may come at any time after
its request or never; replies of the first sub-test still count in the second.
`LetsIn` is a NAT as RFC 3489 describes the kinds: what it lets in depends on every
request sent so far, whichever test it was for. That is why the order of
the tests matters, and what `NeverEasier` is about.

### Signaling

`loading`, `attempts`, `success` and `pipes` are the locals and the table of
`load_signal_pipes`; `queue` is `sig_msg_queue`, and `current` is the message that
`sig_msg_dispatcher` works on, with the counters of `await_peer_con`.
`RelayStep` is one server of the peer's list. A loaded client was closed by the
test that loaded it and still says that it is connected (section 7), so
`at` is the servers that a message was handed to, not where it arrived.

### RestApi

`cons` and `subs` are `self.cons` and `self.subs`; `opening` is the requests between
their look at the table and their entry in it; `link`, `endCbs` and `bucket` belong to a
connection. `OpenBegin`, `OpenConnected`, `OpenFailed` and `OpenStore` are
`open_p2p_pipe` cut at its awaits, `ConnectionLost` is where a connection runs its end
callbacks, which may be long after its close. The connections that one TCP listener accepted
(`Listeners`) share one list of such callbacks: `Callbacks` is what runs at the end of any of
them. `raced` records the names of which two opens were under way at once; where a name was
raced, or another connection of the listener has ended, the code does not keep the name, and
`NameLeadsToCon` says that there is no third case.

### ToxiTunnel

| variable | code |
|---|---|
| `tunnel`, `walked`, `awaited` | `ToxiTunnelServer`, how far its close is in `self.clients`, and the pipe whose close it awaits |
| `stream`, `clients`, `accepted` | its pipes, `self.clients`, the `tcp_clients` of its server pipe |
| `spent`, `patched` | the slow_close toxics that have run; the pipes whose `close` is their `slow_close()` |
| `stopped` | the client at which the close of the server pipe raised |
| `toxics` | `upstream_toxics`, `downstream_toxics` |
| `reading`, `read` | whether a pipe is read; a handler that never returns leaves it "stuck" |
| `routers` | the runs of `toxic_router`: a message and the toxics that are ahead of it |
| `used`, `delivered` | `used` of a bandwidth toxic; what has been sent on each pipe |

Each type of toxic has an action: `Pass` (latency, or one that does not apply),
`SlowClose`, `Block` (timeout), `CloseDest` (timeout, reset, limit), `Slice`, `GetBandwidth` and
`SendAllotted`. A time is a step that may come late; `jitter` and `toxicity` are
choices.

The close of the tunnel is four kinds of step: `CloseClient` for each place in
`self.clients`, `CloseUpstream`, `PipeClosed` (at once, or after the wait of a slow close), and
`CloseServer`. In the last one the server pipe closes the clients that the first loop did
not: clients share their list of end callbacks, so the end of one takes all of them out of
`self.clients`. It does so by `client.close(do_sleep=False)`, which `slow_close()` does not
accept; the TypeError is logged, and what comes after that client stays open
(section 7).

### PunchChain

Two applications, two nodes and two processes of the pool, joined by three TCP
connections. `process` is where `do_punching` is, `running` and `ending` are the pipes
of its process and their `punch_close_msg`, `buffered` and `eof` the byte
streams: what is written may be read alone or together with what was written before.
`ReadClient` and `ReadUpstream` forward a read, and look in it for the close
message; `Killed` is the end of the pool. A sent message is one that has nothing to do with
`PUNCH_END`, or one that is part of its text (`msg in PUNCH_END` in the code).

### NodeLife

| variable | code |
|---|---|
| `stage`, `tried` | how far `start`, `listen_on_ifs` or `close` of a process is |
| `lock`, `bound` | the lock files and the listening sockets of the machine |
| `future`, `turn` | `pipes` and `turn_clients` of a node |
| `walk` | the loop of close over a table: what it has seen, the size it would raise for, and the entry whose close it awaits |
| `passed` | the entries that the loop will not see |
| `held` | history: what was open when close began |

`AcquireLock`, `Probe` and `Bind` are the three awaits of `add_listener`. While close
awaits one entry, `NewFuture`, `PipeReady`, `AttemptTimeout`, `TurnCleanup` and
`DeleteFuture` change the table it walks over; if its size is another one then, the
loop raises, as in Python. If the size is the same the loop may still be wrong: a dict keeps the
places of deleted entries, an insertion that finds no room moves the entries up, and the
iterator goes by places. `Put` is an insertion with that: it puts up to as many entries behind
the loop as were deleted, old ones or the new one. `CloseReleases` has them as its
exception, with that bound. `Exit` is the end of a process, which gives up its
locks and sockets.

### Nickname

`work` is the worker of the call in progress at each server, `wire` the requests
under way, `row` the row of the name at each server, `fetch` a fetch by another
node, `last` and `clock` the times requests are signed with. `Send`, `Skip` and
`GiveUp` are the families a worker tries in turn; what it gave up stays in `wire` and may be
handled at any time. `Handle` is the part of `PNPServer` that one name of one owner
meets: the newest time wins, less the penalty.

### The algorithms

* `NatPredict`: `Predictions` is `nat_prediction` with `get_single_mapping`, for every
  pair of NATs and the three modes of a punch; `Initiate`, `Receive` and `Update` are the
  exchange in `TCPPuncher.proto`. `MappedPort` is what the NAT does then: it wraps from
  MaxPort to 1 (`NatWrap`), where the code's prediction goes back to LowPort, 2000. `another` is
  that it may have given a mapping to somebody else meanwhile. The kinds of NAT include the
  firewall without translation (`is_open`).
* `DeltaTest`: `FirstRound` and `SecondRound` are `delta_test`, over the answers
  that a NAT of each rule gives to random and to successive ports, with up to
  `MaxLost` of them missing.
* `Addresses`: `IPRange` with its indices, its comparison, and its iterators (`MaxSize` is
  sys.maxsize, above which the reversed one raises); `SelectDest` and
  `SortedPairs` use it for the address an attempt dials and the order of pairs.
* `ClockSkew`: `Round` is one pass of `collect_data_points` and
  `calculate_clock_skew`: answers may be wrong or missing, and what a round kept is
  in the next one. Deviations are compared as whole numbers.
* `RoutePool`: `SortedSearch` step by step, and the index, iterator and `pop` that
  rest on it.
* `Routes`: `StunAnswer` and `StunTimeout` are `concurrent_first_agree_or_best`,
  `SetRoutes` is `get_routes_with_res` after its lookups.
* `PeerAddr`: `MakePeerAddr` and `ParsePeerAddr`. The text is what the separators
  leave of it: fields, segments, values.

## 3. The runs

States are those TLC reports as distinct; every run takes a few minutes at most.

| run | instance | shows |
|---|---|---|
| `node_meeting` | 2 nodes, punch then relay, a node calls the other or itself, 2 pipe IDs, pool of 1; 319 k states | BothEndsReady, PunchAgreement, RelaysInReach, HandledOnce and SettledOnce hold whatever is lost, repeated or late and whenever a time limit passes |
| `node_returns` | 2 nodes, a call by nickname to the other or to itself, direct then reverse, 2 address types, 1 pair, 4 IDs, with fairness; 118 k states | the loop over attempts implements ConnectCall, a returned pipe has both ends, and every call without relaying returns, although the peer and the network owe nothing |
| `node_relay_hangs` | relay only, with fairness | connect may never return (violation, section 7) |
| `turn_client` | 1 peer whose permission is renewed once, 2 rounds, one task that goes round twice, 1 stale nonce, 2 time limits, close by the application and by the refresher; 697 k states | OneAllocation, AcceptedIsGranted; after close nothing of the client runs (ClosedIsQuiet), and close returns (ClosesUnlessLost), with the exceptions they state |
| `turn_close_hangs` | the same | violation, section 7 |
| `pnp_server` | 7 requests (write, delete twice, fetch) of 2 owners for 2 names from an IPv4 and an IPv6 address, limits 1, durations 4 and 3, expiry 2, times 0 to 5; 2.0 M states | OwnersUpdate, WrittenNamesLive |
| `reliable_pipe` | two messages from one pipe to another and one to itself, tables of 1 and 2, queue of 1, 2 transmissions; 491 k states | AckedArrived, RoutedOnce, ClosedTells; every send ends |
| `tcp_server` | 3 clients, 2 tasks that await the server 3 times, one close; 284 k states | ClosedEndsClients, NobodyPassedOver, WaitersServed |
| `services` | 2 STUN servers; 3 signalling servers, 2 families; 2 names and 3 connections, two of them accepted by one listener, 2 opens of a name at a time; 2 clients, each type of toxic that holds messages or a close, 2 messages; 1 message each way over a punched chain; 2 processes that want 2 addresses, or one node with 3 pipe IDs; 2 of 3 nickname calls at 2 servers; 3.3 M states | NeverEasier, ExactIfAnswered (NatTest); SharedServerFirst (Signaling); NameLeadsToCon (RestApi); Ordered, BandwidthKept, CloseEndsTunnel (ToxiTunnel); EndEndsChain (PunchChain); OneServerPerAddress, CloseReleases (NodeLife); FetchGetsPush (Nickname) |
| `nick_fetch_fails` | Nickname as in `services` | violation, section 7 |
| `algorithms` | small numbers in the place of large ones, below; 559 k states | PunchMeets, DeltaFound, RangeIsHosts, BothChooseSame, SkewIsRight, PoolIndexed, RoutesAreTrue, AddrRoundTrip |
| `route_pool_index` | pools of 6 to 9 routes | violation, section 7 |

Bounds, and why they are enough:

* *Two nodes.* An ID concerns two nodes, and a third one would only add
  independent IDs. Both directions, and a node that calls itself (there initiator
  and handler share one table entry and one TURN client, which is where their
  races are) are in the runs.
* *Pipe IDs* (2, or 4 with a nickname): a late message, pipe or clean-up of one
  attempt meets the next attempt. With four the name lookup, a direct
  connect over each of two address types and a reverse connect follow each other. Relaying is in
  `node_meeting` and `node_relay_hangs`, not in `node_returns`: with it connect may not return.
* *MaxPunchers = 1*: the pool is full with one punch, empty with none.
* *Rounds = 2* (5 in the code): a first, middle or last round differ only in
  whether it sends and whether its success counts; with two there is one that sends and one
  that is last. *MaxLate = 2* allows one loop to fail, or two to be one round
  late, and a stale nonce takes the place of one of them; *MaxWakes = 2* allows a renewal, or a second refresh, after the first; *MaxAgain = 1*
  lets one of the two go round again in a behaviour. The refresher can fail in its first call, close its
  client, and go on to the second.
* *Limits = 1, Duration = 4, MinNameDuration = 3, MinLife = 1, AddrExpiry = 2, MaxTime = 5*: a
  second name is over the limit, the penalty reaches its maximum, a name can expire, be pruned
  and be registered again, and an IPv6 row goes while a name refers to it. The durations differ,
  with a Life of 2; where Duration is no more than 2 there is none, and the property says nothing.
* *Tries = 2* (3), *MaxDict = 1* (1000), *MaxIds = 2* (1000), *MaxQueue = 1*:
  every table overflows with three messages and still holds what is needed for
  the ordinary case. The third message is one that a pipe sends to itself, which
  the code takes for its own acknowledgement.
* *Three clients, three awaits*: one client is gone, one returned and one
  still to come; a task gives up, the next await is cancelled by that, and the pointer goes
  back to the start of the table.
* *Two STUN servers* reply in any order, and one may be lost while the other
  answers. *Three signalling servers* are more than a node loads.
* *AtOnce = 2, three connections, two of them of one listener*: two requests open one name at a
  time, the late end of an old connection meets a new one of its name, and the end of an accepted
  connection runs the callbacks of another.
* *One toxic at a time, two messages of 2 units, Rate = 2*: two routers share a toxic, and
  one message fills its rate. *Two clients*: one ends while close walks over both, and the close of the server raises at
  the first of them or at the second.
* *Two processes, two addresses*: one is global, with no wrapper for errors. Only one node
  has attempts, and while it has any the other process is down (`AloneIfBusy`); without
  attempts they compete for the addresses. *Three pipe IDs*: one entry is seen, one deleted and
  one inserted, with one left to pass over.
* *Two of three nickname calls, MaxTime = 2*: an old push, or a deletion, meets a new
  push at either server and in either family. The values are symmetric.
* *MaxPort = 12, LowPort = 3, StunPort = 6, Step = 2*: ports wrap around from each
  sample with each delta, the NAT to 1 and the prediction to LowPort; all modes and pairs of NATs are enumerated.
* *TestNo = 7, two answers lost in a round*: the threshold, 2 of 6 pairs, can be missed.
* *Bits = 4, MaxSize = 5*: every pair of ranges of a width of 4, from one address to all, with
  ranges above and below the largest that has a length.
* *EnoughData = 4, MinData = 3, three rounds*: wrong answers may be the majority of a round.
* *Pools of up to 6 routes of 1 or 2 hosts*: the largest for which the search works.
* *4 STUN clients, 2 must agree, 1 is wrong*: agreement, a guess and no answer.
* *2 interfaces*, each with or without a route in each family.

Deadlock is not checked: all of these systems may stop (calls return, requests
are handled, pipes are closed).

## 4. Fairness

Liveness is checked under weak fairness of what asyncio schedules by itself: a
task that is ready runs, and a timer fires.

* `P2PNode`: steps of a call, steps of a task (with its time limit), and
  `TurnProgress`, since the servers that are tried are few, each is under its own
  limit of 10 seconds, and a client that closes is closed. Not fair: that an
  application connects, the network, the process pool, the other machine's answers.
* `TurnClient`: the rounds of `async_retry` (each ends by an answer or its
  limit), the loop of replies and the steps of both `close` calls, the application's and the
  refresher's. Server and network are
  not fair, and nobody has to close. The time limit of a round is taken only while `MaxLate` allows;
  `ClosesUnlessLost` does not depend on it, as `close` waits for the loop alone.
* `ReliablePipe`: the steps of a worker (its wait has a limit), acknowledging,
  and the end of `close` (its gather has a limit). The network is not fair.
* `TcpServer`: the callbacks of asyncio, a task whose future is done, and the end of
  `close`. Clients, and what the application does, are not fair.

The modules of `services` and `algorithms` are checked for safety only.
EndEndsChain says of a chain in which nothing is left to do what liveness would
say of every chain, without a need for fairness. That nothing is left to do is written out
as the guards of the steps (`Quiet`), so that it can be proved about.

## 5. What is proved

By TLAPS, for every value of the constants that satisfies the named assumption
of the module, and so for any number of nodes, IDs, peers, requests, names, messages, clients,
servers, answers or bits. Every safety property that a run finds to hold is a theorem. The
assumptions of the protocols (`NodeAssumption`, `TurnAssumption`, `PNPAssumption`,
`PipeAssumption`, `ServerAssumption`, `NodeLifeAssumption`, `RestApiAssumption`,
`NicknameAssumption`, `SignalingAssumption`, `ToxiTunnelAssumption`) are types and that limits are
positive. Those of the algorithms (`AddressesAssumption`, `NatPredictAssumption`,
`PeerAddrAssumption`, `RoutesAssumption`, `RoutePoolAssumption`, `ClockSkewAssumption`,
`DeltaTestAssumption`) also say what inputs the code gets; the ones that matter are named
with the theorem. TLC evaluates them all. Three results are for less than
that, in their statement: `ExactWhenAnswered` (there is a STUN server) and `PoolIndexedHolds` (at
most six routes) by a hypothesis, `RoutesAreTrue` (`MaxWrong < MinAgree`, no guess) in the
property. Where the code does not keep what its documents say, the property names the exception, and
the theorem shows that there is no other: `CloseIsQuiet`, `NamesLive`, `LimitKept`,
`NamesLeadToCons`, `CloseEndsTunnelHolds`, `ReturnsReleased`, `PunchMeetsHolds`, `RangeIsHostsHolds`.

**`P2PNodeProof`**: `TypeCorrect` (with `active` within the pool: a failing clean-up may run
for an attempt that never was counted, and more often than the count went up),
`PunchersAgree`, `MessagesHandledOnce`, `RelaysStayInReach`, `FuturesSettleOnce`,
`BothEndsAreReady`, `CallImplemented`. The inductive invariant of the first three is

    IInv == TypeOK /\ Involved /\ Handled /\ PunchInOrder

PunchAgreement is not inductive: to step it needs to know that only the two
nodes of an attempt have messages and tasks for its ID (`Involved`), that a
handler's task exists only for an ID that was seen (`Handled`, which also gives
HandledOnce: an ID in `seen` is never delivered again), and which messages and
tasks can exist in each state of the punchers (`PunchInOrder`: the recipient
has predictions only from a message of the initiator, the initiator's second message
only from the recipient's reply).

`RelaysStayInReach` adds

    Relays == LookupOnly /\ RelayOnly /\ RelayHeld
    Making == (\A p \in Pid : TableFree(p)) /\ "only a task in setup allocates"

that is: a call that waits for an address has only its lookup; clients are made for
relays only; and a client in the table belongs to a task that is past "setup" and
not over (`Relays`); a task that is about to make a client, or is making one, finds no client of its
ID in the table, and still finds none when its start returns (`TableFree`). Its steps are either calm (tasks that may hold a client keep holding it,
clients stay) or one of the few that change the table of clients, where the other task of the
ID is what counts (`OthersHold`). `Making` goes over causes, as the next one does.

`FuturesSettleOnce` adds `EntriesBelong`: an ID that was not drawn has no entry, so
the one action that puts a new future in without looking finds none there.

`BothEndsAreReady` needs a strengthening that says, per technique, what every future, line
and message proves of the other node:

    Ends == Placed /\ Wired /\ \A p \in Pid : Met(p)
    Met(p) == DirectMet(p) /\ ReverseMet(p) /\ PunchMet(p) /\ RelayMet(p)

A task is only where its technique has a place for it (`Placed`); lines are of the
techniques that connect, punches of hole punching (`Wired`). The future of a reverse
connect is set, or a line is on its way to it, only after the handler at the other node
returned (`ReverseMet`); that of a punch only when the SYNs crossed (`PunchMet`). For a
relay (`RelayMet`) the chain has two links: the attempt's future is set by its own node's
handler, whose client has accepted the peer by then; and that handler runs only since the
other node's handler sent its message, which it does after accepting. The second link needs
that nothing deletes or cancels the entry of a handler that still works.

With some thirty actions and six conjuncts a proof action by action would repeat itself, so it
goes over causes: `Caused(p)` says of a step, without naming the action, from where
to where a task of the ID may have moved and what else was true when an entry, a message, a
line or a client appeared. The lemmas `...Caused` show it once for every action; the lemmas
`...Step` show each conjunct from it. An ID that is drawn is the exception (`DrawnMet`).

`CallImplemented` is the refinement: `Spec => Call!Spec`, with the mapping the run checks. It
needs `OneAttempt` (a call has at most one current ID, and after the lookup it is one of a
technique) and `Tries` (every other attempt of the call has ended without a pipe). A
step of a call is one of `Begin`, `Try`, `GiveUp` or a stutter; any other step moves the tasks of
at most one ID (`OneMoves`), which is `Lose`, `Win` or a stutter.

**`TurnClientProof`**: `TypeCorrect`, `OneAllocates`, `PeersAreGranted`, `StartsWithRelay`,
`CloseIsQuiet`, that is all safety properties of the run and one more, from

    IInv == /\ TypeOK /\ Asked /\ OneTask /\ Granted /\ Forced
            /\ Stopping /\ Refresher /\ Gathered

A loop that waits does so for a message of its own (`Asked`); while the client
is open, the state is "try" from the first allocation task on (`OneTask`); the
future of a permission's message is set by the server's grant only, whichever
of its rounds it is (`Granted`); the futures of start are forced by the closing
only (`Forced`); tasks are gathered after the loop that makes them ended
(`Stopping`); a refresher that closes its client has been in the last round of a call
(`Refresher`); and once the tasks were gathered, by either `close`, none of them waits or is
asleep and start() makes no refresher any more, so that what runs on is a refresher that
swallowed its cancellation, which takes the last round (`Gathered`). The number of rounds, stale nonces and time limits does not matter.

**`PNPServerProof`**: `TypeCorrect`, `OwnersOnly`, `NamesLive`, `LimitKept`, from

    IInv == TypeOK /\ Made /\ LetThrough /\ OneRow

The type invariant includes that the stored time of a row is at most
`MaxPenalty = MinNameDuration - MinLife` before the signed one, from lemmas about `Penalty`; with the
guard of `Prune` this is NamesLive, for `Life = Duration - MaxPenalty`: MinLife where the two
durations agree, and no promise where the server's is that much shorter. `Made` (the owner of a row is that of the request
that made it) and `LetThrough` (a handler that went on past the check either saw no row, or one of
its own key) give OwnersOnly over all transactions in between. LimitKept
rests on the fact that count and insertion are one transaction, and for IPv4 on `OneRow`: the row
of an address is not deleted while names refer to it, so all of them count. Of an IPv6 address,
whose row goes by age, it says only that the names of its present row are within the limit.

**`ReliablePipeProof`**: `AckedDidArrive`, `WaitersAreListed`, `CloseTellsAll`, from

    IInv == Types /\ Own /\ AckedArrived /\ AcksArrived /\ RunningListed /\ GroupTold

`AckedArrived` needs `AcksArrived` (an acknowledgement under way, or about to be sent,
is one of a message that arrived), `WaitersListed` needs `RunningListed` (from the start of
the worker on, not only while it waits). `TypesHold` has the rest of the types, and
`ReaderGetsOnce` (RoutedOnce) needs that what is queued or was routed is in the table of
IDs as long as that was never emptied for its size.

**`TcpServerProof`**: `TypeCorrect`, `CloseEndsClients`, `NobodyIsPassedOver`, from

    IInv == TypeOK /\ NextFree /\ Listed /\ ClosedEndsClients /\ NobodyPassedOver

Only the last entry may be free, and a connected client stands in its own entry
unless that was cancelled (`NextFree`); as long as the server is open every client is
listed, also one whose `set_result` raised (`Listed`).

**`ServicesProof`**, one part per module:

* *NatTest*: `NatTypesHold`, `NeverTakenForEasier`, and, if there is a server at all,
  `ExactWhenAnswered`. The argument is about what has been contacted: no
  request ever goes to a secondary port, and none to a secondary IP in the first sub-test,
  so a reply from there got through a NAT that does not ask for it.
* *Signaling*: `SigInvHolds`, `SharedServerFirstHolds`. No message is handed out before
  the servers are loaded (`LoadedFirst`), so the table does not grow under a message whose first
  step has been made; a peer's list starts with what both have (`LoadedStartsList`).
* *RestApi*: `NamesLeadToCons`, for any number of opens at once and any listeners, from
  `RestInv`: entries have different names, and open requests too, and both from each other, but
  for names that raced (`OneEach`); a connection that is being opened has no callback yet
  (`NoCallback`). So what deletes the entry of a name that never raced is the end of its own
  connection, or of one with the same list.
* *ToxiTunnel*: `ToxiInvHolds`, `OrderedHolds`, `BandwidthKeptHolds`, `CloseEndsTunnelHolds`, from

      ToxiInv == ToxiTypeOK /\ RoutersOK /\ SentBefore /\ Ordered /\ Recorded

  Order over concurrent routers rests on the pause: a message is in the hands of routers
  only while its pipe is paused, and is the last one read there (`Handled`); it goes to each
  end once (`OneRouter`); and what has been sent is from before what a router still holds
  (`SentBefore`). The bandwidth rests on `Recorded`: `used` of a toxic is the
  number of units that routers hold of it, which is what GetBandwidth takes from its rate.
  `CloseInv` is for the close: what is open was accepted, and once the server was closed the pipes
  that are open come at or after the client where it raised.
* *PunchChain*: `EndEndsChainHolds`, from

      ChainInv == ChainTypeOK /\ DoneIsClosed /\ BeforeRelay /\ AppsPipe

  where a process that is done has closed its pipes, one without a relay has not got any that
  runs, and an application has a pipe only to a relay. What is left is a
  case split over what `Quiet` excludes.
* *NodeLife*: `NodeLifeTypesHold`, `ListensAlone`, `ReturnsReleased`. The lock file alone makes
  OneServerPerAddress true: a process between lock and bind, or that listens, holds the
  lock of the address; what the probe says does not matter. For CloseReleases, an
  entry that was open when close began is, once its table has been walked, closed or among
  those passed over, since no attempt opens an entry of it again (`HeldTurn`, `HeldPipe`); and those
  are no more than were deleted from the table (`PassedFew`).
* *Nickname*: `NickInvHolds`, `FetchGetsPushHolds`, from

      NickInv == /\ NickTypeOK /\ Working /\ OneCall /\ NoneOlder /\ PushStands
                 /\ FetchAfter /\ FetchLeft /\ FetchGetsPush

  If no older request was under way when a call began, every request on its way is of that
  call, so a server that acknowledged has the value (`NoneOlder`). It keeps it after the call
  (`PushStands`), and a fetch that knows the name as pushed has only such servers left to
  ask (`FetchLeft`). How the times and the penalty compare does not
  matter: unless `late` holds, no request of another call is there that could win by them.

**`AlgorithmsProof`**, one part per module:

* *Addresses*: `RangeIsHostsHolds`, `BothChooseSameHolds`, for every width of address
  (32 and 128 in the code). The reversed
  iterator is the reverse where the number of hosts is at most `MaxSize`. What `2 ^ n` and `%` do is in `DataProof`.
* *NatPredict*: `PredInvHolds`, `PunchMeetsHolds`. What a side has predicted and sent follows from the
  NATs, the preloaded mappings and the stage of the exchange (`Exchanged`), so that
  PunchMeets is one statement about ports for each pair of NATs; its cases are the deltas and the
  ends of the port range. At the end of a NAT's range the prediction misses by `LowPort - 1`, as the
  NAT wraps to 1 and the prediction to LowPort; nowhere else does it miss. The proof needs `Step + SelfLow <= MaxPort`: a port that
  wraps around at the top must not come out below the range again. The code's numbers satisfy it.
* *PeerAddr*: `AddrRoundTripHolds`, for any number of interfaces.
* *Routes*: `RoutesAreTrueHolds`, from `RoutesInv`. With `MaxWrong < MinAgree` a lookup that is not
  a guess is no route or the true one. A NIC's addresses are taken
  to be a list without duplicates (a bound of the model, and an assumption of the proof).
* *RoutePool*: `PoolIndexedHolds`, for up to six routes of any sizes. For any sizes
  `SearchLooks` says where the search goes from an entry; that it ends at the right one is then
  shown for each number of routes. With seven it is false (section 7); iteration (`IteratedAre`) and `pop` are right for any number.
* *ClockSkew*: `SkewIsRightHolds`. The square of the deviation of one answer from
  the average is at most the sum of all squares; so a wrong answer that is kept, beside right ones,
  makes the deviation too large, and fewer than MinData wrong ones cannot stand alone. The
  property's `Far` is the distance this takes: more than about 1040 for the
  code's MaxSdev = 60 and EnoughData = 50. Nearer ones may get in.
* *DeltaTest*: `DeltaInvHolds`, `DeltaFoundHolds`, for any number of tests and any port
  range. A value is at most half the range: a larger step is, around its end, a smaller one in the
  other direction, and the code takes it for that.

**`DataProof`**: the provers cannot use an induction theorem that takes an operator. These
lemmas say the same about a *set* of numbers or of finite sets, which they can: `UpTo` from the
well-foundedness of the naturals, `BySize` over finite sets by their cardinality, and
`Recursion`, that a recursive function exists and unfolds. From them follow what the
models' own recursions do: `KeepUnfolds` and its consequences for `Lists`, sums
(`SumUnfolds`, `SumBounds`, `SumLinear`, `SumTakes`), powers (`PowerStep`, `PowerSum`), division and
remainders (`Divided`, `RemainderIs`).

Step proofs have one lemma or step per action; an action that leaves the variables of a
conjunct alone is dismissed together with the others that do.

## 6. What is only model-checked

* Liveness (`ConnectReturns`, `ClosesUnlessLost`, `SendEnds`, `WaitersServed`): out of reach of
  the proof system, with or without fairness.
* What the violation runs show is shown by their counterexamples, on the instance of the run;
  PoolIndexed with seven routes is one of them.

All other properties of the runs are theorems as well. For those TLC says that the model
reaches the cases they speak of, and that mistakes in its actions break them.

## 7. Where the code and its documents disagree

Four runs show the code doing something else than a comment of the
repository says. Details and quotations are in `PROJECT.json` under "findings".

* `node_relay_hangs`: `get_first_working_turn_client` (`node/p2p_utils.py:197`) tries
  servers under a bare `except:`, which also takes the `CancelledError` of the
  time limit. The attempt then waits for its pipe with no limit.
  `node_returns` shows that without relaying every call returns.
* `turn_close_hangs`: a reply whose future is already cancelled or set ends
  the loop of replies with an exception (`turn_process.py:279`), and `close` waits for
  an event that nobody sets. An error reply that is handled between
  `DoCleanup` and the next pass overwrites the state "stopped", with the same effect.
  `ClosesUnlessLost` shows one other way only: the application waits for a refresher that
  swallowed its cancellation (`GatherHangs`). That takes a refresher in the last round of
  `async_retry`, or in its own close after it (`utility/utils.py:517`, `:649`), and that no other
  task raises when it is cancelled. In the other outcomes the same refresher may run
  on after close (`ClosedIsQuiet`); and after its own it goes on in any case, with
  the TypeError of `reconnect()`, which calls `__init__` with arguments it does not have
  (`turn_client.py:242`).
* `nick_fetch_fails`: a worker that has no answer returns None, and `ret.value` raises before
  the next task is awaited (`nickname.py:206`; `:201` says "Return first success."). One
  server that is down ends the fetch of a name that another one has.
* `route_pool_index`: `sorted_search` (`utility/utils.py:304`) halves the index it is at, not
  the interval it searches. Up to six routes it finds its way; with seven the pool gives a wrong
  route or none, against `route_defs.py:10`.

The models have more of this kind. Unless it says otherwise, each of these is in the action named
with it; a property that would fail for it alone excepts it, and says so.

* `turn_process.py:268`, `:270`: the error code of a reply is thrown away (`:164`), so a refresh
  that is refused for a stale nonce counts as done (`Settles`, `Handle`).
* `pnp_server.py:198`: the time stored with a row is lowered by the penalty, so an update signed
  before the last one may pass the check of times (`Write`). "New signed updates need a higher
  time stamp", says `src/scripts/test_pnp_from_server.py:263`.
* `net/pipe/pipe_events.py:167`: a client that goes away before it was accepted leaves no entry,
  and `make_awaitable` raises KeyError instead of skipping it as `:166` says (`Accept`).
* `tcp_punch_utils.py:307`: the close message of a relay is recognised only if it is read alone.
  Together with data in front of it, it is forwarded and the relay stays (`InPunchEnd`); and a
  message that is a part of its text ends the relay.
* `node/rest_api.py:138`, `:183`: "Need a unique name per con" is looked at before the connection is
  awaited; of two requests for one name the second hides the first one's connection, and the end of
  the first deletes the name of the second (`raced`).
* `net/pipe/pipe_utils.py:103`: the clients of one TCP listener share its list of end callbacks.
  The end of any of them deletes the names that `node/rest_api.py:179` registered for
  the others (`LostWithAnother`), and takes all clients out of `self.clients` of a tunnel (`Lost`
  of `ToxiTunnel`).
* `protocol/toxiproxy/toxiserver.py:158`: `slow_close()` takes no parameter, and `pipe_events.py:414` calls
  `client.close(do_sleep=False)`. The TypeError is logged; the clients after that one, and the
  listener, stay open (`CloseServer`).
* `node/p2p_node_extra.py:482`: the loop of close over a table may miss an open entry with no error, after
  a deletion and an insertion while it awaits; or raise for the size of the table, or at the result of
  a cancelled future (`CloseEntry`).
* `node/p2p_utils.py:164`: `get_turn_client` drops a client whose start took too long, or was cancelled,
  without closing it: its relay and tasks live on (`TurnDropped`, `Timeout`). `RelaysInReach` is
  about clients whose start returned and those that are still being started; it says nothing of these.
* `node/p2p_protocol.py:131`: the handler of ReturnAddr sets its future without a look at `done()`, unlike
  the others. Where the lookup was given up, `set_result` raises, which `proto` logs (`Deliver`).
* `protocol/pnp/pnp_server.py:186`, `:292`: the penalty is cut by the module's constant, and names
  expire by the server's parameter. A server with a shorter duration (the tests use 4 and 0) may
  prune a name as soon as it is written, penalty or not (`Life`).
* `protocol/pnp/pnp_server.py:276`: rows of IPv6 addresses are deleted by age though names refer to
  them; the address gets a new row, and room for its limit once more (`Prune`, `Used`).
* `node/p2p_node_extra.py:332`: `load_signal_pipe` is called without its last argument, so a peer's
  server that is not loaded is never loaded (`RelayStep`).
* `node/signaling.py:141`: the client that `is_valid_mqtt` returns was made for the test's own peer
  id and has been closed by the test (`ValidClient`).
* `nic/nat/nat_predict.py:236` says that at a wrap-around "the predicted port will be wrong and the hole
  punching will fail" if ranges are not precise, and they should be from 1 to MAX_PORT. The code's
  own range starts at 2000 (`nic/nat/nat_utils.py:445`), so it is: by `LowPort - 1` exactly (`PunchMeets`).
* `nic/nat/nat_predict.py:216`: with a delta that preserves distances the prediction takes the
  distance without its sign (`:208` says what is meant), so it is right in one direction.
* `traversal/tcp_punch/tcp_punch_client.py:170`: the two lists are passed to
  `update_for_reply_ports` in the other order than its parameters have.
* `nic/route/route_defs.py:36`: a reversed iterator of a pool computes the host it is at and then
  uses the pointer of the forward one (not modelled: nothing in the library reverses a pool).
* `node/p2p_addr.py:394`: the result of `validate_peer_addr` is not looked at; and a negative delta
  adds a dash to a text that is split at dashes.
* `protocol/ntp/clock_skew.py:164`: a round that leaves one data point raises ValueError (a sample of
  one has no deviation).
* `nic/route/route_utils.py:38`-`:41` say that a public address which is used as a private one joins the
  group of private addresses. The code does not do that: a public address has a route of its own,
  or none (`OwnRoutes`). RoutesAreTrue holds either way.
* `nic/route/route_utils.py`: the default route's own public address gets no route when there
  are private addresses; failed lookups count as answers for the timeout.
* `net/ip_range.py`: a range of all addresses (`/0`) has one host, and an index wraps at once.
* `net/ip_range.py:29`: a reversed iterator asks for `len()` of the range, which raises OverflowError
  where there are more than sys.maxsize hosts: IPv6 networks of `/64` and larger (`HostsReversed`).
* `net/ip_range.py:361`-`:368`: the module's own asserts take an address with host bits set for a single
  host. `IPRange` clears the host bits, so it is the network of its netmask, and the
  asserts would fail; `RangeIsHosts` is about the ranges the code makes.
* `nic/interface.py:552`: on a machine with IPv6 only, `nat_info` gets a number where it wants a
  record (not modelled, as nothing runs after it).

Also in the models, without a property of their own: an early return between `pipe_future` and
the clean-up leaves a future pending (`p2p_utils.py:275`); `active_punchers` counts failures
that never were counted (`TypeCorrect` bounds it); `async_retry` turns a success of its
last round into a failure (`utility/utils.py:517`); a peer is in `peers` before its permission is
granted (`turn_client.py:410`); two owners may register one new name at once, an update moves a
name past the limit of an IP, and a late copy of a deletion registers an empty value
(`pnp_server.py:192`, `:229`, `:442`); the last transmission of a message is not
waited for (`ack_udp.py:153`); a connection accepted before the close is made after it
(`pipe_events.py:417`).

## 8. What is not modelled

* External programs and machines appear as what the code sees of them: MQTT
  brokers as a network that loses, repeats and delays; TURN and STUN servers as their
  verdicts; NATs as the rules the code tells apart; SQL as transactions with locks on rows.
* Packing and cryptography: a signed request is accepted for the key that
  signed it; a datagram that cannot be parsed is a lost one. The text of an address is the
  exception (`PeerAddr`).
* What a node does before it listens (loading interfaces, clock and STUN servers one
  after the other) beyond the parts named above, and the loop that should close
  idle pipes: it reads the time once, before it starts (`p2p_node_extra.py:403`), so
  it never closes any, and there is nothing to check.
* What becomes of a TURN client that `get_turn_client` dropped: nothing in the node refers to it
  any more. What it still does is that of an open client in `TurnClient`.
* In `TurnClient`, tasks that send data on channels, and asyncio from Python 3.12 on, whose `gather`
  and `wait_for` treat cancellation in another way.
* In `NodeLife`, a machine without the optional package `fasteners`: `get_serv_lock` gives
  None there, nothing is locked, and OneServerPerAddress, which rests on the lock alone, does not hold.
* The meeting time of a punch and the choice between several sockets that crossed: both
  depend on real time. UPnP is one request without state. Windows interfaces, and what reads tables
  of the operating system, parse text. Entry points and settings do nothing of
  their own; the MQTT and ECIES code is vendored.

The list of components in `PROJECT.json` has the state of each, and what each leaves out.

## 9. What could come next

* `TurnClient` composed with `get_turn_client`, for the clients it drops.
* The listener of a hole punch, which takes the first client of its server, as an
  instance of `TcpServer`; `Nickname` over instances of `PNPServer` with several names.
* Abstract specifications of more components: the name server as a table that is changed by one
  request at a time, but for the two races of section 7; a pipe with acknowledgements as
  a queue that loses messages nobody was told have arrived.
