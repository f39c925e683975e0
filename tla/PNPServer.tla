------------------------------ MODULE PNPServer ------------------------------
(***************************************************************************)
(* The name server of P2PD (src/src/p2pd/protocol/pnp/pnp_server.py).      *)
(*                                                                         *)
(* A request is handled by msg_cb in a database connection of its own.  It *)
(* reads the name without a lock and checks the signature against the      *)
(* owner in that row; then, in later transactions whose reads are FOR      *)
(* UPDATE, it deletes the name, or prunes what has expired and writes the  *)
(* name.  Other requests commit in between, and requests arrive late and   *)
(* out of order: each carries the time its client signed it.               *)
(*                                                                         *)
(* Three durations meet here and need not agree: the server's own (an      *)
(* argument, for pruning), the module's MIN_NAME_DURATION (for the         *)
(* penalty), and the expiry of the rows of IPv6 addresses.  The limits of  *)
(* IPv6 subnets and interfaces (a refusal) are among what Rollback does.   *)
(***************************************************************************)
EXTENDS Integers, FiniteSets

CONSTANTS Name, Key, Ip, Value,
          Request,   \* the requests of the run
          V6,        \* the addresses of Ip that are IPv6
          V4Limit,   \* v4_name_limit: names an address may have
          V6Limit,   \* v6_name_limit
          Duration,  \* the server's min_name_duration
          MinNameDuration,  \* the module's MIN_NAME_DURATION
          MinLife,   \* MIN_DURATION_PENALTY
          AddrExpiry,\* v6_addr_expiry
          MaxTime    \* the clocks stop here (a bound of the run)

None == "none"
Time == 0 .. MaxTime

ASSUME PNPAssumption ==
  /\ Request \subseteq [op : {"fetch", "write", "delete"}, name : Name, key : Key,
                        value : Value, updated : Time, ip : Ip, bump : BOOLEAN,
                        copy : Nat]
  /\ V6 \subseteq Ip /\ V4Limit \in Nat \ {0} /\ V6Limit \in Nat \ {0}
  /\ Duration \in Nat /\ MinNameDuration \in Nat /\ MinLife \in Nat
  /\ MinLife <= MinNameDuration /\ AddrExpiry \in Nat \ {0} /\ MaxTime \in Nat
  /\ None \notin Key /\ IsFiniteSet(Name)

NoRow == -1  \* an address without a row

VARIABLES
  names,  \* the table: a row per name, or None
  ips,    \* the tables ipv4s and ipv6s: when the row of an address was made
  phase,  \* per request: where its handler is
  saw,    \* per request: {} or the request that had made the row it read
  now     \* the time, at the clients and the server

vars == <<names, ips, phase, saw, now>>

\* time is the column timestamp; signed and id are the time in the request
\* that wrote the row last and the request that made the row.  ip and at are
\* the column ip_id: the row of address ip that was made at that time.
Row == [key : Key, value : Value, ip : Ip, at : Time, time : Int, signed : Time,
        id : Request]
Exists(n) == names[n] # [key |-> None]

-----------------------------------------------------------------------------
Init ==
  /\ names = [n \in Name |-> [key |-> None]]
  /\ ips = [p \in Ip |-> NoRow]
  /\ phase = [r \in Request |-> "sent"]
  /\ saw = [r \in Request |-> {}]
  /\ now = 0

Goto(r, ph) == phase' = [phase EXCEPT ![r] = ph]

\* A bug: the signature is checked against the key in the request alone.
ReceiveAnyKey(r) ==
  /\ phase[r] = "sent" /\ r.updated <= now
  /\ saw' = [saw EXCEPT ![r] = IF Exists(r.name) THEN {names[r.name].id} ELSE {}]
  /\ Goto(r, IF r.op = "fetch" THEN "done"
             ELSE IF r.op = "delete" /\ Exists(r.name) THEN "delete"
             ELSE IF r.bump THEN "prune" ELSE "write")
  /\ UNCHANGED <<names, ips, now>>

\* msg_cb up to its first write: the row is read and its owner's key checks
\* the signature.  The deletion of a name that is not there goes on as a
\* write of an empty value.
Receive(r) ==
  /\ phase[r] = "sent" /\ r.updated <= now
  /\ saw' = [saw EXCEPT ![r] = IF Exists(r.name) THEN {names[r.name].id} ELSE {}]
  /\ Goto(r, IF r.op = "fetch" THEN "done"
             ELSE IF Exists(r.name) /\ names[r.name].key # r.key THEN "refused"
             ELSE IF r.op = "delete" /\ Exists(r.name) THEN "delete"
             ELSE IF r.bump THEN "prune" ELSE "write")
  /\ UNCHANGED <<names, ips, now>>

\* verified_delete_name: the row is read again, with a lock.
DeleteName(r) ==
  /\ phase[r] = "delete"
  /\ IF Exists(r.name) /\ names[r.name].time >= r.updated
       THEN Goto(r, "refused") /\ UNCHANGED names
       ELSE /\ names' = [names EXCEPT ![r.name] = [key |-> None]]
            /\ Goto(r, "done")
  /\ UNCHANGED <<ips, saw, now>>

\* A bug: a name that expires at the next second goes as well.
PruneEarly(r) ==
  /\ phase[r] = "prune"
  /\ names' = [n \in Name |->
                 IF Exists(n) /\ now - names[n].time >= Duration - 1
                   THEN [key |-> None] ELSE names[n]]
  /\ ips' = [p \in Ip |->
               IF \/ p \in V6 /\ now - ips[p] >= AddrExpiry
                  \/ ~\E n \in Name : /\ Exists(n)' /\ names'[n].ip = p
                                       /\ names'[n].at = ips[p]
                 THEN NoRow ELSE ips[p]]
  /\ Goto(r, "write")
  /\ UNCHANGED <<saw, now>>

\* verified_pruning: rows of IPv6 addresses of an age are deleted, whether or
\* not names refer to them (their timestamp is that of the insertion), then
\* names that expired, then the rows of addresses that no name refers to.
Prune(r) ==
  /\ phase[r] = "prune"
  /\ names' = [n \in Name |->
                 IF Exists(n) /\ now - names[n].time >= Duration
                   THEN [key |-> None] ELSE names[n]]
  /\ ips' = [p \in Ip |->
               IF \/ p \in V6 /\ now - ips[p] >= AddrExpiry
                  \/ ~\E n \in Name : /\ Exists(n)' /\ names'[n].ip = p
                                       /\ names'[n].at = ips[p]
                 THEN NoRow ELSE ips[p]]
  /\ Goto(r, "write")
  /\ UNCHANGED <<saw, now>>

\* The names that count: those of the row an address has now.
Used(ip) == Cardinality({n \in Name : /\ Exists(n) /\ names[n].ip = ip
                                      /\ names[n].at = ips[ip]})

NameLimit(ip) == IF ip \in V6 THEN V6Limit ELSE V4Limit

\* The more names an address has, the sooner its names expire (rounded up:
\* the time that is stored is rounded down).
Penalty(used, limit) ==
  LET share == (used * MinNameDuration + limit - 1) \div limit + 1 IN
  IF used = 0 THEN 0
  ELSE IF share < MinNameDuration - MinLife THEN share
  ELSE MinNameDuration - MinLife

MayInsert(ip) == Used(ip) < NameLimit(ip)

\* record_ip: the row of an address, or a new one.
RecordIp(ip) == IF ips[ip] = NoRow THEN now ELSE ips[ip]

\* record_name: an update moves the name to the address it comes from,
\* whatever names that has; a new name must be within the address's limit.
Write(r) ==
  LET row == names[r.name]
      at  == RecordIp(r.ip)
  IN
  /\ phase[r] = "write"
  /\ \/ /\ Exists(r.name) /\ row.time < r.updated
        /\ names' = [names EXCEPT ![r.name] =
                       [key |-> row.key, value |-> r.value, ip |-> r.ip, at |-> at,
                        time |-> r.updated - Penalty(Used(r.ip), NameLimit(r.ip)),
                        signed |-> r.updated, id |-> row.id]]
        /\ ips' = [ips EXCEPT ![r.ip] = at]
        /\ Goto(r, "done")
     \/ /\ ~Exists(r.name) /\ MayInsert(r.ip)
        /\ names' = [names EXCEPT ![r.name] =
                       [key |-> r.key, value |-> r.value, ip |-> r.ip, at |-> at,
                        time |-> r.updated, signed |-> r.updated, id |-> r]]
        /\ ips' = [ips EXCEPT ![r.ip] = at]
        /\ Goto(r, "done")
     \/ /\ IF Exists(r.name) THEN row.time >= r.updated ELSE ~MayInsert(r.ip)
        /\ Goto(r, "refused")
        /\ UNCHANGED <<names, ips>>
  /\ UNCHANGED <<saw, now>>

\* The database aborts a transaction (two that lock the same rows, a lost
\* connection): rollback, and no reply.
Rollback(r) ==
  /\ phase[r] \in {"delete", "prune", "write"}
  /\ Goto(r, "refused")
  /\ UNCHANGED <<names, ips, saw, now>>

Tick == now < MaxTime /\ now' = now + 1 /\ UNCHANGED <<names, ips, phase, saw>>

Next ==
  \/ \E r \in Request : \/ Receive(r) \/ DeleteName(r) \/ Prune(r)
                        \/ Write(r) \/ Rollback(r)
  \/ Tick

Spec == Init /\ [][Next]_vars

-----------------------------------------------------------------------------
(***************************************************************************)
(* Properties.                                                             *)
(***************************************************************************)
\* Every variable has its type.  The time of a row is the time its last
\* request was signed or, by the penalty, at most MaxPenalty before it.
MaxPenalty == MinNameDuration - MinLife
Age == 0 .. MaxPenalty
TypeOK ==
  /\ names \in [Name -> Row \cup {[key |-> None]}]
  /\ \A n \in Name : Exists(n) => names[n].signed - names[n].time \in Age
  /\ ips \in [Ip -> Time \cup {NoRow}]
  /\ phase \in [Request -> {"sent", "delete", "prune", "write", "done", "refused"}]
  /\ saw \in [Request -> SUBSET Request]
  /\ now \in Time

\* "Only those with the private key can update the value", for as long as
\* the row is the one whose owner was checked: no other request that commits
\* between the check and the write makes another key's request pass.
OwnersUpdate ==
  [][\A r \in Request, n \in Name :
       /\ phase[r] = "write" /\ phase'[r] = "done"
       /\ Exists(n) /\ n = r.name /\ names[n].id \in saw[r]
       => r.key = names[n].key]_vars

\* A name is deleted by a request for it, or when it was signed some time ago:
\* the server's duration less the largest penalty of the module.  With the
\* server's duration equal to the module's that is MinLife, so the penalty of
\* a busy address never makes a name that was just written expire at once;
\* with a shorter one there may be no such time.
Life == Duration - MaxPenalty
WrittenNamesLive ==
  [][\A n \in Name :
       (Exists(n) /\ ~Exists(n)' /\ now - names[n].signed < Life)
         => \E r \in Request : /\ phase[r] = "delete" /\ phase'[r] = "done"
                              /\ r.name = n]_vars

\* "There is a set number of names allocated per IP": a name is made only at
\* an address that has room, however many requests are between prune and
\* write, and an IPv4 address cannot get around its limit by its row being
\* deleted.  The names of an IPv6 address count from when its row was made.
Held(ip) == Cardinality({n \in Name : Exists(n) /\ names[n].ip = ip})
InsertsWithinLimit ==
  [][\A n \in Name :
       (~Exists(n) /\ Exists(n)') =>
         LET ip == names'[n].ip IN
         IF ip \in V6 THEN Used(ip) < V6Limit ELSE Held(ip) < V4Limit]_vars
=============================================================================
