----------------------------- MODULE P2PNodeProof -----------------------------
(***************************************************************************)
(* Proofs about P2PNode, for any set of nodes, calls, pipe IDs, order of   *)
(* techniques, number of address pairs and size of the punching pool.      *)
(*                                                                         *)
(* TypeOK alone is not inductive for what the properties say: a message is *)
(* in flight, and a handler runs, only for an attempt that was made and at *)
(* one of its two nodes (Involved), a handler marks its ID as seen         *)
(* (Handled), and the messages of a hole punch between two nodes alternate *)
(* (PunchInOrder).  IInv is their conjunction.                             *)
(*                                                                         *)
(* Invariants on top of it: Relays and Making, for the clients of the      *)
(* relays; EntriesBelong, for the table of futures; Ends, for what each    *)
(* node knows of the other; and OneAttempt and Tries, for the call. The    *)
(* last four do not look at the actions: the lemmas ending in Caused say   *)
(* once, for every step, what may have moved a task or put an entry, a     *)
(* message, a line or a client there, and the proofs work from these       *)
(* causes.                                                                 *)
(***************************************************************************)
EXTENDS P2PNode, TLAPS

TaskType  == task \in [Node -> [Pid -> [Role -> TaskState]]]
EntryType == entry \in [Node -> [Pid -> EntryState]]
NetType   == net \subseteq Node \X Pid

\* A task, and a message, belong to an attempt that was made, and to one of
\* its two nodes; only the node that made it has the attempt's own task.
Belongs(n, p, r) ==
  /\ att[p] \in Attempt
  /\ n = att[p].src \/ n = att[p].dst
  /\ r = "I" => n = att[p].src

TasksBelong ==
  \A n \in Node, p \in Pid, r \in Role :
    /\ task[n][p][r] # "none" => Belongs(n, p, r)
    /\ task[n][p][r] \in {"setup", "accept"} => att[p].kind = "relay"
MessagesBelong ==
  \A n \in Node, p \in Pid :
    <<n, p>> \in net => Belongs(n, p, "H")
CallBelongs ==
  \A n \in Node, p \in Pid : p \in cur[n] => task[n][p]["I"] # "none"
PunchersBelong ==
  \A n \in Node, p \in Pid : punch[n][p] # "none" => att[p] \in Attempt
Involved == TasksBelong /\ MessagesBelong /\ CallBelongs /\ PunchersBelong

\* A node that handles an ID has it in its table of seen IDs.
Handled == \A n \in Node, p \in Pid : task[n][p]["H"] # "none" => p \in seen[n]

\* The order of a hole punch between two nodes s and d: s predicts, tells d;
\* d handles it, predicts, tells s; s handles that.
PunchOrder(p, s, d) ==
  /\ punch[s][p] \in {"none", "initiated", "updated"}
  /\ punch[d][p] \in {"none", "received"}
  /\ punch[d][p] = "received" => punch[s][p] # "none"
  /\ punch[s][p] = "updated" => punch[d][p] = "received"
  /\ (\/ task[s][p]["I"] = "predict"
      \/ <<d, p>> \in net
      \/ task[d][p]["H"] # "none") => punch[s][p] # "none"
  /\ (\/ task[d][p]["H"] = "predict"
      \/ <<s, p>> \in net
      \/ task[s][p]["H"] # "none") => punch[d][p] = "received"

PunchInOrder ==
  \A p \in Pid : (att[p] \in Attempt /\ att[p].kind = "punch"
                    /\ att[p].src # att[p].dst)
                 => PunchOrder(p, att[p].src, att[p].dst)

IInv == TypeOK /\ Involved /\ Handled /\ PunchInOrder

-----------------------------------------------------------------------------
(* The operators the actions are made of keep the types. *)
LEMMA NextPositionType ==
  ASSUME NEW at \in Position
  PROVE  NextPosition(at) \in Position
BY NodeAssumption DEF NextPosition, Position

LEMMA SetTaskType ==
  ASSUME TypeOK, NEW n \in Node, NEW p \in Pid, NEW r \in Role,
         NEW st \in TaskState, SetTask(n, p, r, st)
  PROVE  TaskType'
BY DEF TypeOK, SetTask, TaskType

LEMMA ReadyType ==
  ASSUME TypeOK, NEW n \in Node, NEW p \in Pid, Ready(n, p)
  PROVE  EntryType'
BY DEF TypeOK, Ready, EntryType, EntryState

LEMMA RemoveType ==
  ASSUME TypeOK, NEW n \in Node, NEW p \in Pid, NEW r \in Role, Remove(n, p, r)
  PROVE  EntryType' /\ TaskType'
<1> DEFINE new == [q \in Role |-> IF q = r THEN "done"
                                          ELSE Orphan(n, p, task[n][p][q])]
<1>1. new \in [Role -> TaskState]
  BY DEF TypeOK, Orphan, TaskState
<1>2. task' = [task EXCEPT ![n][p] = new]
  BY DEF Remove
<1>3. TaskType'
  BY <1>1, <1>2 DEF TypeOK, TaskType
<1> QED BY <1>3 DEF TypeOK, Remove, EntryType, EntryState

LEMMA EntrySetType ==
  ASSUME TypeOK, NEW n \in Node, NEW p \in Pid,
         \/ UNCHANGED entry
         \/ \E e \in EntryState : entry' = [entry EXCEPT ![n][p] = e]
  PROVE  EntryType'
<1>1. CASE UNCHANGED entry
  BY <1>1 DEF TypeOK, EntryType
<1>2. ASSUME NEW e \in EntryState, entry' = [entry EXCEPT ![n][p] = e]
      PROVE  EntryType'
  BY <1>2 DEF TypeOK, EntryType
<1> QED BY <1>1, <1>2

LEMMA PunchSetType ==
  ASSUME TypeOK, NEW n \in Node, NEW p \in Pid,
         \/ UNCHANGED punch
         \/ \E to \in PunchState : punch' = [punch EXCEPT ![n][p] = to]
  PROVE  punch' \in [Node -> [Pid -> PunchState]]
<1>1. CASE UNCHANGED punch
  BY <1>1 DEF TypeOK
<1>2. ASSUME NEW to \in PunchState, punch' = [punch EXCEPT ![n][p] = to]
      PROVE  punch' \in [Node -> [Pid -> PunchState]]
  BY <1>2 DEF TypeOK
<1> QED BY <1>1, <1>2

LEMMA PeerType ==
  ASSUME NEW n \in Node, NEW p \in Pid, att[p] \in Attempt
  PROVE  PeerOf(n, p) \in Node
BY DEF PeerOf, Attempt

LEMMA SendToType ==
  ASSUME TypeOK, NEW n \in Node, NEW p \in Pid, SendTo(n, p)
  PROVE  NetType'
BY DEF TypeOK, SendTo, NetType

\* What a new attempt of the loop is.
LEMMA NewAttempt ==
  ASSUME TypeOK, NEW n \in Node, NEW p \in Pid, StartAttempt(n, p)
  PROVE  \E a \in Attempt : a.src = n /\ att' = [att EXCEPT ![p] = a]
<1> DEFINE a == [kind |-> Strategies[pos[n].s], src |-> n, dst |-> dest[n],
                 addr |-> AddrTypes[pos[n].a]]
<1>1. att' = [att EXCEPT ![p] = a] /\ pos[n].s <= Len(Strategies)
  BY DEF StartAttempt
<1>2. pos[n] \in Position /\ dest[n] \in Node
  BY DEF TypeOK
<1>3. pos[n].s \in 1 .. Len(Strategies) /\ pos[n].a \in 1 .. Len(AddrTypes)
  BY <1>1, <1>2, NodeAssumption DEF Position
<1>4. Strategies[pos[n].s] \in Technique /\ AddrTypes[pos[n].a] \in AddrType
  BY <1>3, NodeAssumption
<1>5. a \in Attempt /\ a.src = n
  BY <1>2, <1>4 DEF Attempt
<1> QED BY <1>1, <1>5

\* A relay that is allocated, or dropped, is known to its task only.
LEMMA AllocActions ==
  ASSUME NEW n \in Node, NEW p \in Pid, NEW r \in Role,
         TurnAllocates(n, p, r) \/ TurnDropped(n, p, r)
  PROVE  UNCHANGED <<pc, dest, cur, pos, att, entry, task, immune, seen, net, conid, open,
                     turn, punch, sched, punching, hole, active>>
BY DEF TurnAllocates, TurnDropped, conn, signals, punches

-----------------------------------------------------------------------------
LEMMA TypeStep == TypeOK /\ Involved /\ [Next]_vars => TypeOK'
<1> SUFFICES ASSUME TypeOK, Involved, [Next]_vars
    PROVE  TypeOK'
  OBVIOUS
<1>1. ASSUME NEW n \in Node, NEW d \in Node, Connect(n, d)
     PROVE  TypeOK'
  BY <1>1
     DEF Connect, TypeOK, signals, relays, punches, conn
<1>2. ASSUME NEW n \in Node, NameFails(n)
     PROVE  TypeOK'
  BY <1>2
     DEF NameFails, TypeOK, signals, relays, punches, conn
<1>3. ASSUME NEW n \in Node, NEW p \in Pid, NameResolves(n, p)
     PROVE  TypeOK'
  <2>1. TaskType'
    BY <1>3, SetTaskType DEF NameResolves, TaskState, Role
  <2>2. EntryType'
    BY <1>3 DEF NameResolves, TypeOK, EntryType, EntryState
  <2>3. NetType'
    BY <1>3, SendToType DEF NameResolves, TypeOK
  <2>4. att' \in [Pid -> Attempt \cup {NoAttempt}]
    BY <1>3 DEF NameResolves, TypeOK, Attempt, AddrType
  <2> QED BY <1>3, <2>1, <2>2, <2>3, <2>4
       DEF NameResolves, TypeOK, signals, relays, punches, conn, TaskType, EntryType, NetType
<1>4. ASSUME NEW n \in Node, NEW p \in Pid, AddrKnown(n, p)
     PROVE  TypeOK'
  <2>1. TaskType'
    BY <1>4, SetTaskType DEF AddrKnown, TaskState, Role
  <2>2. EntryType'
    BY <1>4 DEF AddrKnown, TypeOK, EntryType, EntryState
  <2> QED BY <1>4, <2>1, <2>2
       DEF AddrKnown, TypeOK, signals, relays, punches, conn, TaskType, EntryType
<1>5. ASSUME NEW n \in Node, NEW p \in Pid, StartAttempt(n, p)
     PROVE  TypeOK'
  <2>1. TaskType'
    BY <1>5, SetTaskType DEF StartAttempt, TaskState, Role
  <2>2. EntryType'
    BY <1>5 DEF StartAttempt, TypeOK, EntryType, EntryState
  <2>3. att' \in [Pid -> Attempt \cup {NoAttempt}]
    BY <1>5, NewAttempt DEF TypeOK
  <2>4. pos' \in [Node -> Position]
    BY <1>5, NextPositionType DEF StartAttempt, TypeOK
  <2>5. /\ cur' = [cur EXCEPT ![n] = {p}]
        /\ UNCHANGED <<pc, dest, immune, signals, relays, punches>>
    BY <1>5 DEF StartAttempt
  <2> QED BY <2>1, <2>2, <2>3, <2>4, <2>5
       DEF TypeOK, signals, relays, punches, TaskType, EntryType
<1>6. ASSUME NEW n \in Node, ConnectFails(n)
     PROVE  TypeOK'
  BY <1>6
     DEF ConnectFails, TypeOK, signals, relays, punches, conn
<1>7. ASSUME NEW n \in Node, NEW p \in Pid, Deliver(n, p)
     PROVE  TypeOK'
  <2>1. TaskType'
    BY <1>7, SetTaskType DEF Deliver, TaskState, TypeOK, TaskType, Role
  <2>4. \/ UNCHANGED entry
        \/ \E e \in EntryState : entry' = [entry EXCEPT ![n][p] = e]
    BY <1>7 DEF Deliver, EntryState
  <2>2. EntryType'
    BY <2>4, EntrySetType
  <2>3. NetType'
    BY <1>7, SendToType DEF Deliver, TypeOK, NetType, Involved, MessagesBelong, Belongs, Attempt
  <2>5. /\ seen' = [seen EXCEPT ![n] = @ \cup {p}]
        /\ UNCHANGED <<conn, att, immune, conid, open, relays, punches>>
    BY <1>7 DEF Deliver
  <2> QED BY <2>1, <2>2, <2>3, <2>5
       DEF TypeOK, relays, punches, conn, TaskType, EntryType, NetType
<1>8. ASSUME NEW n \in Node, NEW p \in Pid, RecvConId(n, p)
     PROVE  TypeOK'
  <2>1. EntryType'
    BY <1>8 DEF RecvConId, TypeOK, EntryType, EntryState
  <2> QED BY <1>8, <2>1
       DEF RecvConId, TypeOK, signals, relays, punches, conn, EntryType
<1>9. ASSUME NEW n \in Node, NEW p \in Pid, StartPunching(n, p)
     PROVE  TypeOK'
  BY <1>9
     DEF StartPunching, TypeOK, signals, relays, punches, conn
<1>10. ASSUME NEW n \in Node, NEW p \in Pid, PunchReady(n, p)
     PROVE  TypeOK'
  <2>1. EntryType'
    BY <1>10, ReadyType DEF PunchReady
  <2> QED BY <1>10, <2>1
       DEF PunchReady, TypeOK, signals, relays, punches, conn, EntryType
<1>11. ASSUME NEW n \in Node, NEW p \in Pid, PunchFails(n, p)
     PROVE  TypeOK'
  BY <1>11
     DEF PunchFails, TypeOK, signals, relays, punches, conn
<1>12. ASSUME NEW n \in Node, NEW p \in Pid, StartHandler(n, p)
     PROVE  TypeOK'
  <2>1. TaskType'
    BY <1>12, SetTaskType DEF StartHandler, TaskState, Role
  <2>2. EntryType'
    BY <1>12 DEF StartHandler, TypeOK, EntryType, EntryState
  <2> QED BY <1>12, <2>1, <2>2
       DEF StartHandler, TypeOK, signals, relays, punches, conn, TaskType, EntryType
<1>13. ASSUME NEW n \in Node, NEW p \in Pid, NEW r \in Role, OpenPipe(n, p, r)
     PROVE  TypeOK'
  <2>1. TaskType'
    BY <1>13, SetTaskType DEF OpenPipe, TaskState
  <2> QED BY <1>13, <2>1
       DEF OpenPipe, TypeOK, signals, relays, punches, conn, TaskType
<1>14. ASSUME NEW n \in Node, NEW p \in Pid, NEW r \in Role, SendConId(n, p, r)
     PROVE  TypeOK'
  <2>1. PeerOf(n, p) \in Node
    BY <1>14, PeerType DEF SendConId, Involved, TasksBelong, Belongs, Role
  <2>2. TaskType'
    BY <1>14, SetTaskType DEF SendConId, TaskState
  <2>3. EntryType'
    BY <1>14, ReadyType DEF SendConId
  <2> QED BY <1>14, <2>1, <2>2, <2>3
       DEF SendConId, TypeOK, signals, relays, punches, conn, TaskType, EntryType
<1>15. ASSUME NEW n \in Node, NEW p \in Pid, ReverseConnect(n, p)
     PROVE  TypeOK'
  <2>1. PeerOf(n, p) \in Node
    BY <1>15, PeerType DEF ReverseConnect, Involved, TasksBelong, Belongs, Role
  <2>2. TaskType'
    BY <1>15, SetTaskType DEF ReverseConnect, TaskState, Role
  <2>3. NetType'
    BY <1>15, SendToType, <2>1 DEF ReverseConnect
  <2> QED BY <1>15, <2>1, <2>2, <2>3
       DEF ReverseConnect, TypeOK, signals, relays, punches, conn, TaskType, NetType
<1>16. ASSUME NEW n \in Node, NEW p \in Pid, NEW r \in Role, PipeArrives(n, p, r)
     PROVE  TypeOK'
  <2>1. TaskType'
    BY <1>16, SetTaskType DEF PipeArrives, TaskState
  <2> QED BY <1>16, <2>1
       DEF PipeArrives, TypeOK, signals, relays, punches, conn, TaskType
<1>17. ASSUME NEW n \in Node, NEW p \in Pid, NEW r \in Role, PunchProto(n, p, r)
     PROVE  TypeOK'
  <2>1. TaskType'
    BY <1>17, SetTaskType DEF PunchProto, TaskState, TypeOK, TaskType
  <2>2. \/ UNCHANGED punch
         \/ \E to \in PunchState : punch' = [punch EXCEPT ![n][p] = to]
    BY <1>17 DEF PunchProto, PuncherStates
  <2>3. punch' \in [Node -> [Pid -> PunchState]]
    BY <2>2, PunchSetType
  <2> QED BY <1>17, <2>1, <2>2, <2>3
       DEF PunchProto, TypeOK, signals, relays, punches, conn, TaskType
<1>18. ASSUME NEW n \in Node, NEW p \in Pid, NEW r \in Role, TurnRelay(n, p, r)
     PROVE  TypeOK'
  <2>1. TaskType'
    BY <1>18, SetTaskType DEF TurnRelay, TaskState
  <2> QED BY <1>18, <2>1
       DEF TurnRelay, TypeOK, signals, relays, punches, conn, TaskType
<1>19. ASSUME NEW n \in Node, NEW p \in Pid, NEW r \in Role, Timeout(n, p, r)
     PROVE  TypeOK'
  <2>1. TaskType'
    BY <1>19, SetTaskType DEF Timeout, TaskState, TypeOK, TaskType
  <2>2. \/ UNCHANGED entry
         \/ \E e \in EntryState : entry' = [entry EXCEPT ![n][p] = e]
    BY <1>19 DEF Timeout, TypeOK, EntryState
  <2>3. EntryType'
    BY <2>2, EntrySetType
  <2> QED BY <1>19, <2>1, <2>2, <2>3
       DEF Timeout, TypeOK, signals, relays, punches, conn, TaskType, EntryType
<1>20. ASSUME NEW n \in Node, NEW p \in Pid, NEW r \in Role, Cleanup(n, p, r)
     PROVE  TypeOK'
  <2>1. EntryType' /\ TaskType'
    BY <1>20, RemoveType DEF Cleanup
  <2>2. active' \in [Node -> 0 .. MaxPunchers]
    BY <1>20, NodeAssumption DEF Cleanup, TypeOK
  <2> QED BY <1>20, <2>1, <2>2
       DEF Cleanup, TypeOK, signals, relays, punches, conn, TaskType, EntryType
<1>21. ASSUME NEW n \in Node, NEW p \in Pid, NEW r \in Role, TurnCleanup(n, p, r)
     PROVE  TypeOK'
  <2>1. TaskType'
    BY <1>21, SetTaskType DEF TurnCleanup, TaskState
  <2> QED BY <1>21, <2>1
       DEF TurnCleanup, TypeOK, signals, relays, punches, conn, TaskType
<1>22. ASSUME NEW n \in Node, NEW p \in Pid, NEW r \in Role, PipeOpened(n, p, r)
     PROVE  TypeOK'
  <2>1. PeerOf(n, p) \in Node
    BY <1>22, PeerType DEF PipeOpened, Involved, TasksBelong, Belongs, Role
  <2>2. TaskType'
    BY <1>22, SetTaskType DEF PipeOpened, TaskState
  <2> QED BY <1>22, <2>1, <2>2
       DEF PipeOpened, TypeOK, signals, relays, punches, conn, TaskType
<1>23. ASSUME NEW n \in Node, NEW p \in Pid, NEW r \in Role, PipeRefused(n, p, r)
     PROVE  TypeOK'
  <2>1. TaskType'
    BY <1>23, SetTaskType DEF PipeRefused, TaskState
  <2> QED BY <1>23, <2>1
       DEF PipeRefused, TypeOK, signals, relays, punches, conn, TaskType
<1>24. ASSUME NEW n \in Node, NEW p \in Pid, NEW r \in Role, Predicted(n, p, r)
     PROVE  TypeOK'
  <2>1. PeerOf(n, p) \in Node
    BY <1>24, PeerType DEF Predicted, Involved, TasksBelong, Belongs, Role
  <2>2. TaskType'
    BY <1>24, SetTaskType DEF Predicted, TaskState
  <2>3. NetType'
    BY <1>24, SendToType, <2>1 DEF Predicted
  <2>4. active' \in [Node -> 0 .. MaxPunchers]
    BY <1>24, NodeAssumption DEF Predicted, TypeOK
  <2> QED BY <1>24, <2>1, <2>2, <2>3, <2>4
       DEF Predicted, TypeOK, signals, relays, punches, conn, TaskType, NetType
<1>25. ASSUME NEW n \in Node, NEW p \in Pid, NEW r \in Role, PredictFails(n, p, r)
     PROVE  TypeOK'
  <2>1. TaskType'
    BY <1>25, SetTaskType DEF PredictFails, TaskState
  <2> QED BY <1>25, <2>1
       DEF PredictFails, TypeOK, signals, relays, punches, conn, TaskType
<1>26. ASSUME NEW n \in Node, NEW p \in Pid, NEW r \in Role, TurnReady(n, p, r)
     PROVE  TypeOK'
  <2>1. PeerOf(n, p) \in Node
    BY <1>26, PeerType DEF TurnReady, Involved, TasksBelong, Belongs, Role
  <2>2. TaskType'
    BY <1>26, SetTaskType DEF TurnReady, TaskState, TypeOK, TaskType
  <2>3. NetType'
    BY <1>26, SendToType, <2>1 DEF TurnReady, TypeOK, NetType
  <2> QED BY <1>26, <2>1, <2>2, <2>3
       DEF TurnReady, TypeOK, signals, relays, punches, conn, TaskType, NetType
<1>27. ASSUME NEW n \in Node, NEW p \in Pid, NEW r \in Role, TurnUnavailable(n, p, r)
     PROVE  TypeOK'
  <2>1. TaskType'
    BY <1>27, SetTaskType DEF TurnUnavailable, TaskState
  <2> QED BY <1>27, <2>1
       DEF TurnUnavailable, TypeOK, signals, relays, punches, conn, TaskType
<1>28. ASSUME NEW n \in Node, NEW p \in Pid, NEW r \in Role, TurnClosed(n, p, r)
     PROVE  TypeOK'
  <2>1. EntryType' /\ TaskType'
    BY <1>28, RemoveType, SetTaskType DEF TurnClosed, TypeOK, EntryType, TaskType, TaskState, EntryState
  <2> QED BY <1>28, <2>1
       DEF TurnClosed, TypeOK, signals, relays, punches, conn, TaskType, EntryType
<1>29. ASSUME NEW n \in Node, NEW p \in Pid, NEW r \in Role, PeerAccepted(n, p, r)
     PROVE  TypeOK'
  <2>1. PeerOf(n, p) \in Node
    BY <1>29, PeerType DEF PeerAccepted, Involved, TasksBelong, Belongs, Role
  <2>2. TaskType'
    BY <1>29, SetTaskType DEF PeerAccepted, TaskState
  <2>3. EntryType'
    BY <1>29, ReadyType DEF PeerAccepted
  <2>4. NetType'
    BY <1>29, <2>1 DEF PeerAccepted, TypeOK, NetType
  <2> QED BY <1>29, <2>1, <2>2, <2>3, <2>4
       DEF PeerAccepted, TypeOK, signals, relays, punches, conn, TaskType, EntryType, NetType
<1>30. ASSUME NEW n \in Node, NEW p \in Pid, NEW r \in Role, AcceptFails(n, p, r)
     PROVE  TypeOK'
  <2>1. TaskType'
    BY <1>30, SetTaskType DEF AcceptFails, TaskState
  <2> QED BY <1>30, <2>1
       DEF AcceptFails, TypeOK, signals, relays, punches, conn, TaskType
<1>31. ASSUME NEW p \in Pid, Punched(p)
     PROVE  TypeOK'
  BY <1>31
     DEF Punched, TypeOK, signals, relays, punches, conn
<1>32. ASSUME NEW n \in Node, NEW p \in Pid, NEW r \in Role,
              TurnAllocates(n, p, r) \/ TurnDropped(n, p, r)
     PROVE  TypeOK'
  <2>1. alloc' \subseteq Node \X Pid \X Role
    BY <1>32 DEF TurnAllocates, TurnDropped, TypeOK
  <2> QED BY <1>32, <2>1, AllocActions DEF TypeOK
<1>40. CASE UNCHANGED vars
  BY <1>40 DEF vars, TypeOK
<1>41. Callers \subseteq Node
  BY NodeAssumption DEF Callers
<1>42. CASE \E n, d \in Node : Connect(n, d)
  BY <1>42, <1>1
<1>43. CASE \E n \in Callers : CallStep(n)
  BY <1>43, <1>41, <1>2, <1>3, <1>4, <1>5, <1>6 DEF CallStep
<1>44. CASE \E n \in Node, p \in Pid : Arrival(n, p)
  BY <1>44, <1>7, <1>8, <1>9, <1>10, <1>11 DEF Arrival
<1>45. CASE \E n \in Node, p \in Pid, r \in Role : TaskStep(n, p, r)
  BY <1>45, <1>12, <1>13, <1>14, <1>15, <1>16, <1>17, <1>18, <1>19, <1>20, <1>21
     DEF TaskStep
<1>46. CASE \E n \in Node, p \in Pid, r \in Role : Outcome(n, p, r)
  BY <1>46, <1>22, <1>23, <1>24, <1>25, <1>26, <1>27, <1>28, <1>29, <1>30, <1>32
     DEF Outcome, TurnProgress
<1>47. CASE \E p \in Pid : Punched(p)
  BY <1>47, <1>31
<1> QED
  BY <1>40, <1>42, <1>43, <1>44, <1>45, <1>46, <1>47 DEF Next

-----------------------------------------------------------------------------
(* Most steps only move a task that is there already: they are quiet.      *)
TaskKept ==
  \A n \in Node, p \in Pid, r \in Role :
    /\ task'[n][p][r] = "none" <=> task[n][p][r] = "none"
    /\ task'[n][p][r] \in {"predict", "queued"} => task'[n][p][r] = task[n][p][r]
    /\ task'[n][p][r] \in {"setup", "accept"} =>
         task[n][p][r] \in {"setup", "accept"} \/ att[p].kind = "relay"

SendsKept ==
  \A n \in Node, p \in Pid :
    (<<n, p>> \in net' /\ <<n, p>> \notin net) =>
      /\ att[p] \in Attempt /\ att[p].kind # "punch"
      /\ n = att[p].src \/ n = att[p].dst

CurKept == \A n \in Node : cur'[n] \subseteq cur[n]

Quiet == TaskKept /\ SendsKept /\ CurKept /\ UNCHANGED <<att, seen, punch>>

LEMMA SetTaskKept ==
  ASSUME TypeOK, NEW n \in Node, NEW p \in Pid, NEW r \in Role,
         NEW st \in TaskState \ {"none", "queued", "predict", "setup"},
         st = "accept" => att[p].kind = "relay",
         task[n][p][r] # "none", SetTask(n, p, r, st)
  PROVE  TaskKept
BY DEF TypeOK, SetTask, TaskKept

LEMMA RemoveKept ==
  ASSUME TypeOK, NEW n \in Node, NEW p \in Pid, NEW r \in Role,
         task[n][p][r] # "none", Remove(n, p, r)
  PROVE  TaskKept
<1> DEFINE new == [q \in Role |-> IF q = r THEN "done"
                                          ELSE Orphan(n, p, task[n][p][q])]
<1>1. task' = [task EXCEPT ![n][p] = new]
  BY DEF Remove
<1>2. ASSUME NEW q \in Role
      PROVE  /\ new[q] = "none" <=> task[n][p][q] = "none"
             /\ new[q] \in {"predict", "queued", "setup", "accept"} => new[q] = task[n][p][q]
  BY <1>2 DEF Orphan
<1> HIDE DEF new
<1> QED BY <1>1, <1>2 DEF TypeOK, TaskKept

LEMMA PeerInvolved ==
  ASSUME NEW n \in Node, NEW p \in Pid
  PROVE  PeerOf(n, p) = att[p].src \/ PeerOf(n, p) = att[p].dst
BY DEF PeerOf

LEMMA QuietStep ==
  ASSUME TypeOK, Involved, Handled, PunchInOrder, Quiet
  PROVE  Involved' /\ Handled' /\ PunchInOrder' /\ Once
<1> USE DEF Quiet
<1>1. TasksBelong'
  BY DEF Involved, TasksBelong, Belongs, TaskKept
<1>2. MessagesBelong'
  BY DEF Involved, MessagesBelong, Belongs, SendsKept, Role
<1>3. CallBelongs'
  BY DEF Involved, CallBelongs, TaskKept, CurKept, Role
<1>4. Handled'
  BY DEF Handled, TaskKept, Role
<1>5. PunchInOrder'
  <2> SUFFICES ASSUME NEW p \in Pid, att[p] \in Attempt, att[p].kind = "punch",
                      att[p].src # att[p].dst
      PROVE  PunchOrder(p, att[p].src, att[p].dst)'
    BY DEF PunchInOrder
  <2>1. PunchOrder(p, att[p].src, att[p].dst)
    BY DEF PunchInOrder
  <2>2. att[p].src \in Node /\ att[p].dst \in Node
    BY DEF Attempt
  <2> QED BY <2>1, <2>2 DEF PunchOrder, TaskKept, SendsKept, Role
<1>6. PunchersBelong'
  BY DEF Involved, PunchersBelong
<1>7. Once
  BY DEF Once, TaskKept, Role
<1> QED BY <1>1, <1>2, <1>3, <1>4, <1>5, <1>6, <1>7 DEF Involved

LEMMA QuietActions ==
  ASSUME TypeOK, Involved
  PROVE  /\ \A n, d \in Node : Connect(n, d) => Quiet
         /\ \A n \in Node : NameFails(n) \/ ConnectFails(n) => Quiet
         /\ \A n \in Node, p \in Pid : AddrKnown(n, p) \/ Arrival(n, p)
              => Quiet \/ Deliver(n, p)
         /\ \A n \in Node, p \in Pid, r \in Role : TaskStep(n, p, r)
              => Quiet \/ PunchProto(n, p, r)
         /\ \A n \in Node, p \in Pid, r \in Role : Outcome(n, p, r)
              => Quiet \/ Predicted(n, p, r)
         /\ \A p \in Pid : Punched(p) => Quiet
<1> USE DEF Quiet, conn, signals, relays, punches
<1>1. ASSUME NEW n \in Node, NEW d \in Node, Connect(n, d)
     PROVE  Quiet
  BY <1>1 DEF Connect, TaskKept, SendsKept, CurKept
<1>2. ASSUME NEW n \in Node, NameFails(n)
     PROVE  Quiet
  BY <1>2 DEF NameFails, TaskKept, SendsKept, CurKept
<1>3. ASSUME NEW n \in Node, NEW p \in Pid, AddrKnown(n, p)
     PROVE  Quiet
  <2>1. TaskKept
    BY <1>3, SetTaskKept DEF AddrKnown, TaskState, Role, Involved, CallBelongs
  <2> QED BY <1>3, <2>1 DEF AddrKnown, CurKept, SendsKept
<1>4. ASSUME NEW n \in Node, ConnectFails(n)
     PROVE  Quiet
  BY <1>4 DEF ConnectFails, TaskKept, SendsKept, CurKept
<1>5. ASSUME NEW n \in Node, NEW p \in Pid, RecvConId(n, p)
     PROVE  Quiet
  BY <1>5 DEF RecvConId, TaskKept, SendsKept, CurKept
<1>6. ASSUME NEW n \in Node, NEW p \in Pid, StartPunching(n, p)
     PROVE  Quiet
  BY <1>6 DEF StartPunching, TaskKept, SendsKept, CurKept
<1>7. ASSUME NEW n \in Node, NEW p \in Pid, PunchReady(n, p)
     PROVE  Quiet
  BY <1>7 DEF PunchReady, TaskKept, SendsKept, CurKept
<1>8. ASSUME NEW n \in Node, NEW p \in Pid, PunchFails(n, p)
     PROVE  Quiet
  BY <1>8 DEF PunchFails, TaskKept, SendsKept, CurKept
<1>9. ASSUME NEW n \in Node, NEW p \in Pid, StartHandler(n, p)
     PROVE  Quiet
  <2>1. TaskKept
    BY <1>9, SetTaskKept DEF StartHandler, TaskState, Role
  <2> QED BY <1>9, <2>1 DEF StartHandler, CurKept, SendsKept
<1>10. ASSUME NEW n \in Node, NEW p \in Pid, NEW r \in Role, OpenPipe(n, p, r)
     PROVE  Quiet
  <2>1. TaskKept
    BY <1>10, SetTaskKept DEF OpenPipe, TaskState
  <2> QED BY <1>10, <2>1 DEF OpenPipe, CurKept, SendsKept
<1>11. ASSUME NEW n \in Node, NEW p \in Pid, NEW r \in Role, SendConId(n, p, r)
     PROVE  Quiet
  <2>1. TaskKept
    BY <1>11, SetTaskKept DEF SendConId, TaskState
  <2> QED BY <1>11, <2>1 DEF SendConId, CurKept, SendsKept
<1>12. ASSUME NEW n \in Node, NEW p \in Pid, ReverseConnect(n, p)
     PROVE  Quiet
  <2>1. TaskKept
    BY <1>12, SetTaskKept DEF ReverseConnect, TaskState, Role
  <2>2. att[p] \in Attempt /\ att[p].kind # "punch"
    BY <1>12 DEF ReverseConnect, Involved, TasksBelong, Belongs, Func, Role
  <2>3. SendsKept
    BY <1>12, <2>2, PeerInvolved DEF ReverseConnect, SendTo, SendsKept
  <2> QED BY <1>12, <2>1, <2>2, <2>3 DEF ReverseConnect, CurKept
<1>13. ASSUME NEW n \in Node, NEW p \in Pid, NEW r \in Role, PipeArrives(n, p, r)
     PROVE  Quiet
  <2>1. TaskKept
    BY <1>13, SetTaskKept DEF PipeArrives, TaskState
  <2> QED BY <1>13, <2>1 DEF PipeArrives, CurKept, SendsKept
<1>14. ASSUME NEW n \in Node, NEW p \in Pid, NEW r \in Role, TurnRelay(n, p, r)
     PROVE  Quiet
  <2>1. TaskKept
    BY <1>14 DEF TurnRelay, SetTask, TypeOK, TaskKept, Func
  <2> QED BY <1>14, <2>1 DEF TurnRelay, CurKept, SendsKept
<1>15. ASSUME NEW n \in Node, NEW p \in Pid, NEW r \in Role, Timeout(n, p, r)
     PROVE  Quiet
  <2>1. TaskKept
    BY <1>15, SetTaskKept DEF Timeout, TaskState, Waiting, TaskKept
  <2> QED BY <1>15, <2>1 DEF Timeout, CurKept, SendsKept
<1>16. ASSUME NEW n \in Node, NEW p \in Pid, NEW r \in Role, Cleanup(n, p, r)
     PROVE  Quiet
  <2>1. TaskKept
    BY <1>16, RemoveKept DEF Cleanup
  <2> QED BY <1>16, <2>1 DEF Cleanup, CurKept, Remove, SendsKept
<1>17. ASSUME NEW n \in Node, NEW p \in Pid, NEW r \in Role, TurnCleanup(n, p, r)
     PROVE  Quiet
  <2>1. TaskKept
    BY <1>17, SetTaskKept DEF TurnCleanup, TaskState
  <2> QED BY <1>17, <2>1 DEF TurnCleanup, CurKept, SendsKept
<1>18. ASSUME NEW n \in Node, NEW p \in Pid, NEW r \in Role, PipeOpened(n, p, r)
     PROVE  Quiet
  <2>1. TaskKept
    BY <1>18, SetTaskKept DEF PipeOpened, TaskState
  <2> QED BY <1>18, <2>1 DEF PipeOpened, CurKept, SendsKept
<1>19. ASSUME NEW n \in Node, NEW p \in Pid, NEW r \in Role, PipeRefused(n, p, r)
     PROVE  Quiet
  <2>1. TaskKept
    BY <1>19, SetTaskKept DEF PipeRefused, TaskState
  <2> QED BY <1>19, <2>1 DEF PipeRefused, CurKept, SendsKept
<1>20. ASSUME NEW n \in Node, NEW p \in Pid, NEW r \in Role, PredictFails(n, p, r)
     PROVE  Quiet
  <2>1. TaskKept
    BY <1>20, SetTaskKept DEF PredictFails, TaskState
  <2> QED BY <1>20, <2>1 DEF PredictFails, CurKept, SendsKept
<1>21. ASSUME NEW n \in Node, NEW p \in Pid, NEW r \in Role, TurnReady(n, p, r)
     PROVE  Quiet
  <2>1. TaskKept
    BY <1>21, SetTaskKept DEF TurnReady, TaskState, Involved, TasksBelong
  <2>2. att[p] \in Attempt /\ att[p].kind # "punch"
    BY <1>21 DEF TurnReady, Involved, TasksBelong, Belongs, Func, Role
  <2>3. SendsKept
    BY <1>21, <2>2, PeerInvolved DEF TurnReady, SendTo, SendsKept
  <2> QED BY <1>21, <2>1, <2>2, <2>3 DEF TurnReady, CurKept
<1>22. ASSUME NEW n \in Node, NEW p \in Pid, NEW r \in Role, TurnUnavailable(n, p, r)
     PROVE  Quiet
  <2>1. TaskKept
    BY <1>22, SetTaskKept DEF TurnUnavailable, TaskState
  <2> QED BY <1>22, <2>1 DEF TurnUnavailable, CurKept, SendsKept
<1>23. ASSUME NEW n \in Node, NEW p \in Pid, NEW r \in Role, TurnClosed(n, p, r)
     PROVE  Quiet
  <2>1. TaskKept
    BY <1>23, RemoveKept, SetTaskKept DEF TurnClosed, TaskState
  <2> QED BY <1>23, <2>1 DEF TurnClosed, CurKept, Remove, SendsKept
<1>24. ASSUME NEW n \in Node, NEW p \in Pid, NEW r \in Role, PeerAccepted(n, p, r)
     PROVE  Quiet
  <2>1. TaskKept
    BY <1>24, SetTaskKept DEF PeerAccepted, TaskState
  <2>2. att[p] \in Attempt /\ att[p].kind # "punch"
    BY <1>24 DEF PeerAccepted, Involved, TasksBelong, Belongs, Func, Role
  <2>3. SendsKept
    BY <1>24, <2>2, PeerInvolved DEF PeerAccepted, SendTo, SendsKept
  <2> QED BY <1>24, <2>1, <2>2, <2>3 DEF PeerAccepted, CurKept
<1>25. ASSUME NEW n \in Node, NEW p \in Pid, NEW r \in Role, AcceptFails(n, p, r)
     PROVE  Quiet
  <2>1. TaskKept
    BY <1>25, SetTaskKept DEF AcceptFails, TaskState
  <2> QED BY <1>25, <2>1 DEF AcceptFails, CurKept, SendsKept
<1>26. ASSUME NEW p \in Pid, Punched(p)
     PROVE  Quiet
  BY <1>26 DEF Punched, TaskKept, SendsKept, CurKept
<1>27. ASSUME NEW n \in Node, NEW p \in Pid, NEW r \in Role,
              TurnAllocates(n, p, r) \/ TurnDropped(n, p, r)
     PROVE  Quiet
  BY <1>27, AllocActions DEF TaskKept, SendsKept, CurKept
<1>50. ASSUME NEW n \in Node, NEW p \in Pid, Arrival(n, p)
      PROVE  Quiet \/ Deliver(n, p)
  BY <1>50, <1>5, <1>6, <1>7, <1>8 DEF Arrival
<1>51. ASSUME NEW n \in Node, NEW p \in Pid, NEW r \in Role, TaskStep(n, p, r)
      PROVE  Quiet \/ PunchProto(n, p, r)
  BY <1>51, <1>9, <1>10, <1>11, <1>12, <1>13,
     <1>14, <1>15, <1>16, <1>17 DEF TaskStep
<1>52. ASSUME NEW n \in Node, NEW p \in Pid, NEW r \in Role, Outcome(n, p, r)
      PROVE  Quiet \/ Predicted(n, p, r)
  BY <1>52, <1>18, <1>19, <1>20, <1>21, <1>22,
     <1>23, <1>24, <1>25, <1>27 DEF Outcome, TurnProgress
<1> QED
  BY <1>1, <1>2, <1>4, <1>3, <1>26, <1>50, <1>51, <1>52

-----------------------------------------------------------------------------
(* The five steps that are not quiet. *)

\* A new ID: nothing has it yet, and the attempt's own task starts.
Fresh(n, p) ==
  /\ att[p] = NoAttempt
  /\ cur' = [cur EXCEPT ![n] = {p}]
  /\ \E a \in Attempt : a.src = n /\ att' = [att EXCEPT ![p] = a]
  /\ \E st \in TaskState \ {"none", "predict", "setup", "accept"} :
       SetTask(n, p, "I", st)
  /\ \/ UNCHANGED net
     \/ (net' = net \cup {<<att'[p].dst, p>>} /\ att'[p].kind # "punch")
  /\ UNCHANGED <<seen, punch>>

LEMMA FreshStep ==
  ASSUME TypeOK, Involved, Handled, PunchInOrder,
         NEW n \in Node, NEW p \in Pid, Fresh(n, p)
  PROVE  Involved' /\ Handled' /\ PunchInOrder' /\ Once
<1> USE DEF Fresh
<1>1. PICK a \in Attempt : a.src = n /\ att' = [att EXCEPT ![p] = a]
  OBVIOUS
<1>2. att'[p] = a /\ \A q \in Pid \ {p} : att'[q] = att[q]
  BY <1>1 DEF TypeOK
<1>3. att[p] \notin Attempt
  BY DEF NoAttempt, Attempt
<1>4. \A m \in Node, r \in Role : task[m][p][r] = "none"
  BY <1>3 DEF Involved, TasksBelong, Belongs
<1>5. \A m \in Node : <<m, p>> \notin net
  BY <1>3 DEF Involved, MessagesBelong, Belongs
<1>6. PICK st \in TaskState \ {"none", "predict", "setup", "accept"} :
           task' = [task EXCEPT ![n][p]["I"] = st]
  BY DEF SetTask
<1>7. /\ task'[n][p]["I"] = st
      /\ \A m \in Node, q \in Pid, r \in Role :
           <<m, q, r>> # <<n, p, "I">> => task'[m][q][r] = task[m][q][r]
  BY <1>6 DEF TypeOK, Role
<1>8. \A m \in Node, q \in Pid :
        (<<m, q>> \in net' /\ <<m, q>> \notin net) =>
          q = p /\ m = a.dst /\ a.kind # "punch"
  BY <1>2
<1>9. TasksBelong'
  BY <1>1, <1>2, <1>4, <1>7 DEF Involved, TasksBelong, Belongs
<1>10. MessagesBelong'
  BY <1>1, <1>2, <1>5, <1>8 DEF Involved, MessagesBelong, Belongs
<1>11. CallBelongs'
  BY <1>6, <1>7 DEF Involved, CallBelongs, TypeOK, Role
<1>12. Handled'
  BY <1>7 DEF Handled, Role
<1>13. PunchInOrder'
  <2> SUFFICES ASSUME NEW q \in Pid, att'[q] \in Attempt, att'[q].kind = "punch",
                      att'[q].src # att'[q].dst
      PROVE  PunchOrder(q, att[q].src, att[q].dst)'
    BY DEF PunchInOrder
  <2>1. CASE q # p
    <3>1. PunchOrder(q, att[q].src, att[q].dst)
      BY <1>2, <2>1 DEF PunchInOrder
    <3>2. att[q].src \in Node /\ att[q].dst \in Node /\ att'[q] = att[q]
      BY <1>2, <2>1 DEF Attempt
    <3> QED BY <2>1, <3>1, <3>2, <1>7, <1>8 DEF PunchOrder, Role
  <2>2. CASE q = p
    <3>1. a.src \in Node /\ a.dst \in Node /\ a.kind = "punch" /\ a.src # a.dst
      BY <1>2, <2>2 DEF Attempt
    <3>2. \A m \in Node : <<m, p>> \notin net'
      BY <1>5, <1>8, <3>1
    <3>3. \A m \in Node : punch[m][p] = "none"
      BY <1>3 DEF Involved, PunchersBelong
    <3> QED BY <1>1, <1>2, <1>4, <1>7, <2>2, <3>1, <3>2, <3>3 DEF PunchOrder, Role
  <2> QED BY <2>1, <2>2
<1>14. PunchersBelong'
  BY <1>1, <1>2 DEF Involved, PunchersBelong
<1>15. Once
  BY <1>7 DEF Once, Role
<1> QED BY <1>9, <1>10, <1>11, <1>12, <1>13, <1>14, <1>15 DEF Involved

LEMMA FreshActions ==
  ASSUME TypeOK, NEW n \in Node, NEW p \in Pid,
         StartAttempt(n, p) \/ NameResolves(n, p)
  PROVE  Fresh(n, p)
<1>1. CASE StartAttempt(n, p)
  <2>1. PICK a \in Attempt : a.src = n /\ att' = [att EXCEPT ![p] = a]
    BY <1>1, NewAttempt
  <2>2. \E st \in TaskState \ {"none", "predict", "setup", "accept"} :
          SetTask(n, p, "I", st)
    BY <1>1 DEF StartAttempt, TaskState
  <2> QED BY <1>1, <2>1, <2>2 DEF StartAttempt, Fresh, signals, relays, punches
<1>2. CASE NameResolves(n, p)
  <2> DEFINE a == [kind |-> "getaddr", src |-> n, dst |-> dest[n], addr |-> "ext"]
  <2>1. a \in Attempt /\ a.src = n /\ a.kind # "punch" /\ a.dst = dest[n]
    BY DEF TypeOK, Attempt, AddrType
  <2>2. att' = [att EXCEPT ![p] = a] /\ att'[p] = a
    BY <1>2 DEF NameResolves, TypeOK
  <2>3. \E st \in TaskState \ {"none", "predict", "setup", "accept"} :
          SetTask(n, p, "I", st)
    BY <1>2 DEF NameResolves, TaskState
  <2> HIDE DEF a
  <2> QED BY <1>2, <2>1, <2>2, <2>3 DEF NameResolves, Fresh, SendTo, relays, punches
<1> QED BY <1>1, <1>2

LEMMA DeliverStep ==
  ASSUME TypeOK, Involved, Handled, PunchInOrder,
         NEW n \in Node, NEW p \in Pid, Deliver(n, p)
  PROVE  Involved' /\ Handled' /\ PunchInOrder' /\ Once
<1>1. Belongs(n, p, "H")
  BY DEF Deliver, Involved, MessagesBelong
<1>2. /\ UNCHANGED <<att, cur, punch>>
      /\ seen' = [seen EXCEPT ![n] = @ \cup {p}]
  BY DEF Deliver, conn, relays, punches
<1>3. \/ UNCHANGED task
      \/ SetTask(n, p, "H", "queued") /\ UNCHANGED net
  BY DEF Deliver
<1>4. \A m \in Node, q \in Pid, r \in Role :
        \/ task'[m][q][r] = task[m][q][r]
        \/ m = n /\ q = p /\ r = "H" /\ task'[m][q][r] = "queued"
  <2>1. CASE UNCHANGED task
    BY <2>1
  <2>2. CASE task' = [task EXCEPT ![n][p]["H"] = "queued"]
    BY <2>2 DEF TypeOK, Role
  <2> QED BY <1>3, <2>1, <2>2 DEF SetTask
<1>5. \A m \in Node, q \in Pid :
        (<<m, q>> \in net' /\ <<m, q>> \notin net) =>
          q = p /\ m = att[p].src /\ att[p].kind = "getaddr"
  BY DEF Deliver, SendTo
<1>6. TasksBelong'
  BY <1>1, <1>2, <1>4 DEF Involved, TasksBelong, Belongs
<1>7. MessagesBelong'
  BY <1>1, <1>2, <1>5 DEF Involved, MessagesBelong, Belongs
<1>8. CallBelongs'
  BY <1>2, <1>4 DEF Involved, CallBelongs, Role
<1>9. PunchersBelong'
  BY <1>2 DEF Involved, PunchersBelong
<1>10. Handled'
  BY <1>2, <1>4 DEF Handled, TypeOK, Role
<1>11. PunchInOrder'
  <2> SUFFICES ASSUME NEW q \in Pid, att[q] \in Attempt, att[q].kind = "punch",
                      att[q].src # att[q].dst
      PROVE  PunchOrder(q, att[q].src, att[q].dst)'
    BY <1>2 DEF PunchInOrder
  <2>1. PunchOrder(q, att[q].src, att[q].dst)
    BY DEF PunchInOrder
  <2>2. att[q].src \in Node /\ att[q].dst \in Node
    BY DEF Attempt
  <2>3. <<n, p>> \in net
    BY DEF Deliver
  <2> QED BY <1>2, <1>4, <1>5, <2>1, <2>2, <2>3 DEF PunchOrder, Role
<1>12. Once
  BY <1>4 DEF Once, Deliver, Handled, Role
<1> QED BY <1>6, <1>7, <1>8, <1>9, <1>10, <1>11, <1>12 DEF Involved

LEMMA PunchProtoStep ==
  ASSUME TypeOK, Involved, Handled, PunchInOrder,
         NEW n \in Node, NEW p \in Pid, NEW r \in Role, PunchProto(n, p, r)
  PROVE  Involved' /\ Handled' /\ PunchInOrder' /\ Once
<1>1. Belongs(n, p, r) /\ task[n][p][r] = "new"
  BY DEF PunchProto, Involved, TasksBelong
<1>2. UNCHANGED <<att, cur, net, seen>>
  BY DEF PunchProto, conn, signals
<1>3. \E st \in {"ok", "predict", "failed"} : SetTask(n, p, r, st)
  BY DEF PunchProto
<1>4. \A m \in Node, q \in Pid, k \in Role :
        \/ task'[m][q][k] = task[m][q][k]
        \/ m = n /\ q = p /\ k = r /\ task'[m][q][k] \in {"ok", "predict", "failed"}
  BY <1>3 DEF SetTask, TypeOK
<1>5. TasksBelong'
  BY <1>1, <1>2, <1>4 DEF Involved, TasksBelong, Belongs
<1>6. MessagesBelong'
  BY <1>2 DEF Involved, MessagesBelong, Belongs
<1>7. CallBelongs'
  BY <1>2, <1>4 DEF Involved, CallBelongs, Role
<1>8. Handled'
  BY <1>1, <1>2, <1>4 DEF Handled, Role
<1>11. Once
  BY <1>4 DEF Once, Role
<1>9. CASE UNCHANGED punch /\ SetTask(n, p, r, "failed")
  <2>1. Quiet
    BY <1>1, <1>2, <1>9, SetTaskKept DEF Quiet, SendsKept, CurKept, TaskState
  <2> QED BY <2>1, QuietStep
<1>10. CASE \E to \in PuncherStates(r = "H", punch[n][p]) :
               /\ punch' = [punch EXCEPT ![n][p] = to]
               /\ SetTask(n, p, r, IF to = "updated" THEN "ok" ELSE "predict")
  <2>1. PICK to \in PuncherStates(r = "H", punch[n][p]) :
               /\ punch' = [punch EXCEPT ![n][p] = to]
               /\ SetTask(n, p, r, IF to = "updated" THEN "ok" ELSE "predict")
    BY <1>10
  <2>2. \/ r = "I" /\ punch[n][p] = "none" /\ to = "initiated"
        \/ r = "H" /\ punch[n][p] = "none" /\ to = "received"
        \/ r = "H" /\ punch[n][p] = "initiated" /\ to = "updated"
    BY <2>1 DEF PuncherStates, Role
  <2>3. /\ punch'[n][p] = to
        /\ \A m \in Node, q \in Pid :
             <<m, q>> # <<n, p>> => punch'[m][q] = punch[m][q]
    BY <2>1, <2>2 DEF TypeOK
  <2>4. task'[n][p][r] = IF to = "updated" THEN "ok" ELSE "predict"
    BY <2>1 DEF SetTask, TypeOK
  <2>5. PunchersBelong'
    BY <1>1, <1>2, <2>3 DEF Involved, PunchersBelong, Belongs
  <2>6. PunchInOrder'
    <3> SUFFICES ASSUME NEW q \in Pid, att[q] \in Attempt, att[q].kind = "punch",
                        att[q].src # att[q].dst
        PROVE  PunchOrder(q, att[q].src, att[q].dst)'
      BY <1>2 DEF PunchInOrder
    <3>1. PunchOrder(q, att[q].src, att[q].dst)
      BY DEF PunchInOrder
    <3>2. att[q].src \in Node /\ att[q].dst \in Node
      BY DEF Attempt
    <3>3. CASE q # p
      BY <1>2, <1>4, <2>3, <3>1, <3>2, <3>3 DEF PunchOrder, Role
    <3>4. CASE q = p
      <4>1. CASE r = "I"
        BY <1>1, <1>2, <1>4, <2>2, <2>3, <3>1, <3>2, <3>4, <4>1
           DEF PunchOrder, Belongs, Role
      <4>2. CASE r = "H" /\ n = att[p].src
        BY <1>1, <1>2, <1>4, <2>2, <2>3, <3>1, <3>2, <3>4, <4>2
           DEF PunchOrder, Role
      <4>3. CASE r = "H" /\ n = att[p].dst
        BY <1>1, <1>2, <1>4, <2>2, <2>3, <3>1, <3>2, <3>4, <4>3
           DEF PunchOrder, Role
      <4> QED BY <1>1, <4>1, <4>2, <4>3 DEF Belongs, Role
    <3> QED BY <3>3, <3>4
  <2> QED BY <1>5, <1>6, <1>7, <1>8, <1>11, <2>5, <2>6 DEF Involved
<1> QED BY <1>9, <1>10 DEF PunchProto

LEMMA PredictedStep ==
  ASSUME TypeOK, Involved, Handled, PunchInOrder,
         NEW n \in Node, NEW p \in Pid, NEW r \in Role, Predicted(n, p, r)
  PROVE  Involved' /\ Handled' /\ PunchInOrder' /\ Once
<1>1. Belongs(n, p, r) /\ task[n][p][r] = "predict"
  BY DEF Predicted, Involved, TasksBelong
<1>2. UNCHANGED <<att, cur, seen, punch>> /\ net' = net \cup {<<PeerOf(n, p), p>>}
  BY DEF Predicted, conn, SendTo
<1>3. \E st \in {"failed", "await"} : SetTask(n, p, r, st)
  BY DEF Predicted
<1>4. TaskKept
  BY <1>1, <1>3, SetTaskKept DEF TaskState
<1>5. TasksBelong'
  BY <1>2, <1>4 DEF Involved, TasksBelong, Belongs, TaskKept
<1>6. MessagesBelong'
  BY <1>1, <1>2, PeerInvolved DEF Involved, MessagesBelong, Belongs
<1>7. CallBelongs' /\ PunchersBelong'
  BY <1>2, <1>4 DEF Involved, CallBelongs, PunchersBelong, TaskKept, Role
<1>8. Handled'
  BY <1>2, <1>4 DEF Handled, TaskKept, Role
<1>9. PunchInOrder'
  <2> SUFFICES ASSUME NEW q \in Pid, att[q] \in Attempt, att[q].kind = "punch",
                      att[q].src # att[q].dst
      PROVE  PunchOrder(q, att[q].src, att[q].dst)'
    BY <1>2 DEF PunchInOrder
  <2>1. PunchOrder(q, att[q].src, att[q].dst)
    BY DEF PunchInOrder
  <2>2. att[q].src \in Node /\ att[q].dst \in Node
    BY DEF Attempt
  <2>3. CASE q # p
    BY <1>2, <1>4, <2>1, <2>2, <2>3 DEF PunchOrder, TaskKept, Role
  <2>4. CASE q = p /\ n = att[p].src
    BY <1>1, <1>2, <1>4, <2>1, <2>2, <2>4 DEF PunchOrder, TaskKept, PeerOf, Role
  <2>5. CASE q = p /\ n = att[p].dst
    BY <1>1, <1>2, <1>4, <2>1, <2>2, <2>5
       DEF PunchOrder, TaskKept, PeerOf, Belongs, Role
  <2> QED BY <1>1, <2>3, <2>4, <2>5 DEF Belongs
<1>10. Once
  BY <1>4 DEF Once, TaskKept, Role
<1> QED BY <1>5, <1>6, <1>7, <1>8, <1>9, <1>10 DEF Involved

-----------------------------------------------------------------------------
LEMMA InitInv == Init => IInv
<1> SUFFICES ASSUME Init PROVE IInv
  OBVIOUS
<1>1. TypeOK
  BY NodeAssumption DEF Init, TypeOK, TaskState, EntryState, PunchState,
                        Position, NoAttempt
<1>2. Involved /\ Handled
  BY DEF Init, Involved, TasksBelong, MessagesBelong, CallBelongs,
         PunchersBelong, Handled, Role
<1>3. PunchInOrder
  BY DEF Init, PunchInOrder, Attempt, NoAttempt
<1> QED BY <1>1, <1>2, <1>3 DEF IInv

LEMMA NextInv == IInv /\ [Next]_vars => IInv' /\ [Once]_vars
<1> SUFFICES ASSUME TypeOK, Involved, Handled, PunchInOrder, [Next]_vars
    PROVE  IInv' /\ Once
  BY DEF IInv
<1> DEFINE Rest == Involved' /\ Handled' /\ PunchInOrder' /\ Once
<1>1. TypeOK'
  BY TypeStep
<1>2. CASE UNCHANGED vars
  <2>1. Quiet
    BY <1>2 DEF vars, Quiet, TaskKept, SendsKept, CurKept
  <2> QED BY <1>1, <2>1, QuietStep DEF IInv
<1>3. Callers \subseteq Node
  BY NodeAssumption DEF Callers
<1>4. ASSUME NEW n \in Node, NEW d \in Node, Connect(n, d) PROVE Rest
  BY <1>4, QuietActions, QuietStep
<1>5. ASSUME NEW n \in Node, CallStep(n) PROVE Rest
  <2>1. CASE NameFails(n) \/ ConnectFails(n)
    BY <2>1, QuietActions, QuietStep
  <2>2. ASSUME NEW p \in Pid, AddrKnown(n, p) PROVE Rest
    <3>1. Quiet \/ Deliver(n, p)
      BY <2>2, QuietActions
    <3> QED BY <3>1, QuietStep, DeliverStep
  <2>3. ASSUME NEW p \in Pid, NameResolves(n, p) \/ StartAttempt(n, p) PROVE Rest
    BY <2>3, FreshActions, FreshStep
  <2> QED BY <1>5, <2>1, <2>2, <2>3 DEF CallStep
<1>6. ASSUME NEW n \in Node, NEW p \in Pid, Arrival(n, p) PROVE Rest
  <2>1. Quiet \/ Deliver(n, p)
    BY <1>6, QuietActions
  <2> QED BY <2>1, QuietStep, DeliverStep
<1>7. ASSUME NEW n \in Node, NEW p \in Pid, NEW r \in Role, TaskStep(n, p, r)
      PROVE  Rest
  <2>1. Quiet \/ PunchProto(n, p, r)
    BY <1>7, QuietActions
  <2> QED BY <2>1, QuietStep, PunchProtoStep
<1>8. ASSUME NEW n \in Node, NEW p \in Pid, NEW r \in Role, Outcome(n, p, r)
      PROVE  Rest
  <2>1. Quiet \/ Predicted(n, p, r)
    BY <1>8, QuietActions
  <2> QED BY <2>1, QuietStep, PredictedStep
<1>9. ASSUME NEW p \in Pid, Punched(p) PROVE Rest
  BY <1>9, QuietActions, QuietStep
<1>10. CASE Next
  BY <1>3, <1>4, <1>5, <1>6, <1>7, <1>8, <1>9, <1>1, <1>10 DEF Next, IInv
<1> QED BY <1>2, <1>10

\* IInv is an inductive invariant of the specification.
LEMMA SpecInv == Spec => []IInv
BY InitInv, NextInv, PTL DEF Spec

(***************************************************************************)
(* The theorems.                                                           *)
(***************************************************************************)
\* Whatever the nodes, the calls, the techniques and the bounds, the variables
\* keep their types: in particular the count of punchers of tcp_hole_punch and
\* tcp_punch_cleanup stays within the pool.
THEOREM TypeCorrect == Spec => []TypeOK
<1>1. IInv => TypeOK
  BY DEF IInv
<1> QED BY <1>1, SpecInv, PTL

\* The punchers of two nodes agree on their sides and on the progress of the
\* exchange, however the TCPPunchMsgs between them are repeated or delayed.
THEOREM PunchersAgree == Spec => []PunchAgreement
<1>1. IInv => PunchAgreement
  <2> SUFFICES ASSUME IInv, NEW p \in Pid, att[p].kind = "punch",
                      att[p].src # att[p].dst
      PROVE  PunchOrder(p, att[p].src, att[p].dst)
    BY DEF PunchAgreement, PunchOrder
  <2>1. att[p] \in Attempt
    BY DEF IInv, TypeOK, NoAttempt
  <2> QED BY <2>1 DEF IInv, PunchInOrder
<1> QED BY <1>1, SpecInv, PTL

\* A task of a node for another node's message never starts a second time.
THEOREM MessagesHandledOnce == Spec => HandledOnce
BY SpecInv, NextInv, PTL DEF Spec, HandledOnce

-----------------------------------------------------------------------------
(***************************************************************************)
(* Relays.  A client in the table is that of a relay attempt (RelayOnly),  *)
(* and some task of its ID is at a place from which it returns the client  *)
(* or cleans it up (RelayHeld).  The lookup of an address never is one     *)
(* (LookupOnly).                                                           *)
(***************************************************************************)
Holding == {"accept", "await", "lost", "late", "ok", "failed", "closing"}
InTable == {"client", "accepted"}

LookupOnly ==
  \A n \in Node, p \in Pid : pc[n] = "addr" /\ p \in cur[n] => att[p].kind = "getaddr"
RelayOnly ==
  \A n \in Node, p \in Pid :
    turn[n][p] # "none" => att[p] \in Attempt /\ att[p].kind = "relay"
RelayHeld ==
  \A n \in Node, p \in Pid :
    turn[n][p] \in InTable => \E r \in Role : task[n][p][r] \in Holding
Relays == LookupOnly /\ RelayOnly /\ RelayHeld

\* Nothing that holds a client lets go of it.
Held == \A n \in Node, p \in Pid, r \in Role :
          turn[n][p] \in InTable /\ task[n][p][r] \in Holding => task'[n][p][r] \in Holding
OthersHold(n, p, r) ==
  \A m \in Node, q \in Pid, x \in Role :
    <<m, q, x>> # <<n, p, r>> /\ task[m][q][x] \in Holding => task'[m][q][x] \in Holding
CallKept == \A n \in Node : pc'[n] = "addr" => pc[n] = "addr" /\ cur'[n] = cur[n]
Calm == Held /\ CallKept /\ UNCHANGED <<att, turn>>

LEMMA CalmStep ==
  ASSUME Relays, Calm
  PROVE  Relays'
<1> USE DEF Calm
<1>1. LookupOnly'
  BY DEF Relays, LookupOnly, CallKept
<1>2. RelayOnly'
  BY DEF Relays, RelayOnly
<1>3. RelayHeld'
  BY DEF Relays, RelayHeld, Held, InTable
<1> QED BY <1>1, <1>2, <1>3 DEF Relays

LEMMA SetTaskHeld ==
  ASSUME TypeOK, NEW n \in Node, NEW p \in Pid, NEW r \in Role, NEW st,
         SetTask(n, p, r, st),
         turn[n][p] \in InTable /\ task[n][p][r] \in Holding => st \in Holding
  PROVE  Held
BY DEF TypeOK, SetTask, Held

\* A task that is orphaned still cleans up.
LEMMA RemoveHeld ==
  ASSUME TypeOK, NEW n \in Node, NEW p \in Pid, NEW r \in Role, Remove(n, p, r)
  PROVE  OthersHold(n, p, r)
<1> DEFINE new == [x \in Role |-> IF x = r THEN "done"
                                          ELSE Orphan(n, p, task[n][p][x])]
<1>1. task' = [task EXCEPT ![n][p] = new]
  BY DEF Remove
<1>2. ASSUME NEW x \in Role \ {r}, task[n][p][x] \in Holding
      PROVE  new[x] \in Holding
  BY <1>2 DEF Orphan, Holding
<1> HIDE DEF new
<1> QED BY <1>1, <1>2 DEF TypeOK, OthersHold

LEMMA SetTaskOthers ==
  ASSUME TypeOK, NEW n \in Node, NEW p \in Pid, NEW r \in Role, NEW st,
         SetTask(n, p, r, st)
  PROVE  OthersHold(n, p, r)
BY DEF TypeOK, SetTask, OthersHold

\* Steps that leave the tasks that hold clients alone.
LEMMA CalmActions ==
  ASSUME TypeOK, Involved, Handled, Relays
  PROVE  /\ \A n, d \in Node : Connect(n, d) => Calm
         /\ \A n \in Node : NameFails(n) \/ ConnectFails(n) => Calm
         /\ \A n \in Node, p \in Pid : AddrKnown(n, p) \/ Arrival(n, p) => Calm
         /\ \A n \in Node, p \in Pid, r \in Role : TaskStep(n, p, r) => Calm
         /\ \A n \in Node, p \in Pid, r \in Role :
              Outcome(n, p, r) => \/ Calm \/ TurnReady(n, p, r) \/ TurnUnavailable(n, p, r)
                                  \/ TurnClosed(n, p, r) \/ PeerAccepted(n, p, r)
         /\ \A p \in Pid : Punched(p) => Calm
<1> USE DEF Calm, conn, signals, relays, punches
<1>1. ASSUME NEW n \in Node, NEW d \in Node, Connect(n, d)
      PROVE  Calm
  BY <1>1 DEF Connect, Held, CallKept, TypeOK
<1>2. ASSUME NEW n \in Node, NameFails(n) \/ ConnectFails(n)
      PROVE  Calm
  BY <1>2 DEF NameFails, ConnectFails, Held, CallKept, TypeOK
<1>3. ASSUME NEW n \in Node, NEW p \in Pid, AddrKnown(n, p)
      PROVE  Calm
  <2>1. turn[n][p] = "none"
    BY <1>3 DEF AddrKnown, Relays, LookupOnly, RelayOnly
  <2>2. Held
    BY <1>3, <2>1, SetTaskHeld DEF AddrKnown, Role, InTable
  <2> QED BY <1>3, <2>2 DEF AddrKnown, CallKept, TypeOK
<1>4. ASSUME NEW n \in Node, NEW p \in Pid, Deliver(n, p)
      PROVE  Calm
  <2>1. task[n][p]["H"] = "none"
    BY <1>4 DEF Deliver, Handled
  <2>2. Held
    <3>1. CASE SetTask(n, p, "H", "queued")
      BY <2>1, <3>1, SetTaskHeld DEF Role, Holding
    <3>2. CASE UNCHANGED task
      BY <3>2 DEF Held
    <3> QED BY <1>4, <3>1, <3>2 DEF Deliver
  <2> QED BY <1>4, <2>2 DEF Deliver, CallKept
<1>5. ASSUME NEW n \in Node, NEW p \in Pid,
             RecvConId(n, p) \/ StartPunching(n, p) \/ PunchReady(n, p) \/ PunchFails(n, p)
      PROVE  Calm
  BY <1>5 DEF RecvConId, StartPunching, PunchReady, PunchFails, Held, CallKept
<1>6. ASSUME NEW n \in Node, NEW p \in Pid, StartHandler(n, p)
      PROVE  Calm
  <2>1. Held
    BY <1>6, SetTaskHeld DEF StartHandler, Role, Holding
  <2> QED BY <1>6, <2>1 DEF StartHandler, CallKept
<1>7. ASSUME NEW n \in Node, NEW p \in Pid, NEW r \in Role, OpenPipe(n, p, r)
      PROVE  Calm
  <2>1. Held
    BY <1>7, SetTaskHeld DEF OpenPipe, Holding
  <2> QED BY <1>7, <2>1 DEF OpenPipe, CallKept
<1>8. ASSUME NEW n \in Node, NEW p \in Pid, NEW r \in Role, SendConId(n, p, r)
      PROVE  Calm
  <2>1. Held
    BY <1>8, SetTaskHeld DEF SendConId, Holding
  <2> QED BY <1>8, <2>1 DEF SendConId, CallKept
<1>9. ASSUME NEW n \in Node, NEW p \in Pid, ReverseConnect(n, p)
      PROVE  Calm
  <2>1. Held
    BY <1>9, SetTaskHeld DEF ReverseConnect, Role, Holding
  <2> QED BY <1>9, <2>1 DEF ReverseConnect, CallKept
<1>10. ASSUME NEW n \in Node, NEW p \in Pid, NEW r \in Role, PipeArrives(n, p, r)
       PROVE  Calm
  <2>1. Held
    BY <1>10, SetTaskHeld DEF PipeArrives, Holding
  <2> QED BY <1>10, <2>1 DEF PipeArrives, CallKept
<1>11. ASSUME NEW n \in Node, NEW p \in Pid, NEW r \in Role, PunchProto(n, p, r)
       PROVE  Calm
  <2>1. \E st \in TaskState : SetTask(n, p, r, st)
    BY <1>11 DEF PunchProto, TaskState
  <2>2. Held
    BY <1>11, <2>1, SetTaskHeld DEF PunchProto, Holding
  <2> QED BY <1>11, <2>2 DEF PunchProto, CallKept
<1>12. ASSUME NEW n \in Node, NEW p \in Pid, NEW r \in Role, TurnRelay(n, p, r)
       PROVE  Calm
  <2>1. Held
    BY <1>12, SetTaskHeld DEF TurnRelay, Holding
  <2> QED BY <1>12, <2>1 DEF TurnRelay, CallKept
<1>13. ASSUME NEW n \in Node, NEW p \in Pid, NEW r \in Role, Timeout(n, p, r)
       PROVE  Calm
  <2>1. Held
    <3>1. CASE SetTask(n, p, r, "failed")
      BY <3>1, SetTaskHeld DEF Holding
    <3>2. CASE UNCHANGED task
      BY <3>2 DEF Held
    <3> QED BY <1>13, <3>1, <3>2 DEF Timeout
  <2> QED BY <1>13, <2>1 DEF Timeout, CallKept
<1>14. ASSUME NEW n \in Node, NEW p \in Pid, NEW r \in Role, Cleanup(n, p, r)
       PROVE  Calm
  <2>1. turn[n][p] = "none"
    BY <1>14 DEF Cleanup, Relays, RelayOnly, Func
  <2>2. Held
    BY <1>14, <2>1, RemoveHeld DEF Cleanup, Held, OthersHold, InTable
  <2> QED BY <1>14, <2>2 DEF Cleanup, CallKept
<1>15. ASSUME NEW n \in Node, NEW p \in Pid, NEW r \in Role, TurnCleanup(n, p, r)
       PROVE  Calm
  <2>1. Held
    BY <1>15, SetTaskHeld DEF TurnCleanup, Holding, InTable
  <2> QED BY <1>15, <2>1 DEF TurnCleanup, CallKept
<1>16. ASSUME NEW n \in Node, NEW p \in Pid, NEW r \in Role,
              PipeOpened(n, p, r) \/ PipeRefused(n, p, r) \/ Predicted(n, p, r)
                \/ PredictFails(n, p, r) \/ AcceptFails(n, p, r)
       PROVE  Calm
  <2>1. PICK st \in TaskState : /\ SetTask(n, p, r, st)
                                /\ task[n][p][r] \in Holding => st \in Holding
    BY <1>16 DEF PipeOpened, PipeRefused, Predicted, PredictFails, AcceptFails,
                 TaskState, Holding
  <2>2. Held
    BY <2>1, SetTaskHeld
  <2> QED BY <1>16, <2>2 DEF PipeOpened, PipeRefused, Predicted, PredictFails,
                             AcceptFails, CallKept
<1>17. ASSUME NEW p \in Pid, Punched(p)
       PROVE  Calm
  BY <1>17 DEF Punched, Held, CallKept
<1>21. ASSUME NEW n \in Node, NEW p \in Pid, NEW r \in Role,
              TurnAllocates(n, p, r) \/ TurnDropped(n, p, r)
       PROVE  Calm
  BY <1>21, AllocActions DEF Held, CallKept
<1>18. ASSUME NEW n \in Node, NEW p \in Pid, AddrKnown(n, p) \/ Arrival(n, p)
       PROVE  Calm
  BY <1>18, <1>3, <1>4, <1>5 DEF Arrival
<1>19. ASSUME NEW n \in Node, NEW p \in Pid, NEW r \in Role, TaskStep(n, p, r)
       PROVE  Calm
  BY <1>19, <1>6, <1>7, <1>8, <1>9, <1>10, <1>11, <1>12, <1>13, <1>14, <1>15
     DEF TaskStep
<1>20. ASSUME NEW n \in Node, NEW p \in Pid, NEW r \in Role, Outcome(n, p, r)
       PROVE  \/ Calm \/ TurnReady(n, p, r) \/ TurnUnavailable(n, p, r)
              \/ TurnClosed(n, p, r) \/ PeerAccepted(n, p, r)
  BY <1>20, <1>16, <1>21 DEF Outcome, TurnProgress
<1> QED BY <1>1, <1>2, <1>17, <1>18, <1>19, <1>20

\* The steps that change the table leave its other entries, and their tasks,
\* as they are, and the entry they change with a task that holds it.
LEMMA TableStep ==
  ASSUME TypeOK, Involved, Relays, NEW n \in Node, NEW p \in Pid, NEW r \in Role,
         \/ TurnReady(n, p, r) \/ TurnUnavailable(n, p, r)
         \/ TurnClosed(n, p, r) \/ PeerAccepted(n, p, r)
  PROVE  Relays'
<1> USE DEF conn, signals, relays, punches
<1>1. \E v \in {"none", "null", "client", "accepted"} :
        /\ turn' = [turn EXCEPT ![n][p] = v]
        /\ v # "none" => task[n][p][r] \in {"setup", "accept"}
        /\ v \in InTable => task'[n][p][r] \in Holding
  <2>1. CASE TurnReady(n, p, r)
    BY <2>1 DEF TurnReady, SetTask, TypeOK, Holding
  <2>2. CASE TurnUnavailable(n, p, r)
    BY <2>2 DEF TurnUnavailable, InTable
  <2>3. CASE TurnClosed(n, p, r)
    BY <2>3 DEF TurnClosed, InTable
  <2>4. CASE PeerAccepted(n, p, r)
    BY <2>4 DEF PeerAccepted, SetTask, TypeOK, Holding
  <2> QED BY <2>1, <2>2, <2>3, <2>4
<1>2. UNCHANGED <<att, pc, cur>>
  BY DEF TurnReady, TurnUnavailable, TurnClosed, PeerAccepted
<1>3. OthersHold(n, p, r)
  <2>1. Remove(n, p, r) \/ \E st \in TaskState : SetTask(n, p, r, st)
    BY DEF TurnReady, TurnUnavailable, TurnClosed, PeerAccepted, TaskState
  <2> QED BY <2>1, RemoveHeld, SetTaskOthers
<1>4. PICK v \in {"none", "null", "client", "accepted"} :
        /\ turn' = [turn EXCEPT ![n][p] = v]
        /\ v # "none" => task[n][p][r] \in {"setup", "accept"}
        /\ v \in InTable => task'[n][p][r] \in Holding
  BY <1>1
<1>5. LookupOnly'
  BY <1>2 DEF Relays, LookupOnly
<1>6. RelayOnly'
  BY <1>2, <1>4 DEF Relays, RelayOnly, Involved, TasksBelong, Belongs, TypeOK
<1>7. RelayHeld'
  <2> SUFFICES ASSUME NEW m \in Node, NEW q \in Pid, turn'[m][q] \in InTable
      PROVE  \E x \in Role : task'[m][q][x] \in Holding
    BY DEF RelayHeld
  <2>1. CASE m = n /\ q = p
    BY <1>4, <2>1 DEF TypeOK
  <2>2. CASE ~(m = n /\ q = p)
    <3>1. turn[m][q] \in InTable
      BY <1>4, <2>2 DEF TypeOK
    <3> QED BY <1>3, <2>2, <3>1 DEF Relays, RelayHeld, OthersHold
  <2> QED BY <2>1, <2>2
<1> QED BY <1>5, <1>6, <1>7 DEF Relays

\* The ID of a new attempt has no client, and no task.
LEMMA NewStep ==
  ASSUME TypeOK, Involved, Relays, NEW n \in Node, NEW p \in Pid,
         NameResolves(n, p) \/ StartAttempt(n, p)
  PROVE  Relays'
<1> USE DEF conn, signals, relays, punches
<1>1. /\ att[p] \notin Attempt /\ UNCHANGED turn
      /\ \A q \in Pid \ {p} : att'[q] = att[q]
      /\ cur' = [cur EXCEPT ![n] = {p}]
  <2>1. Fresh(n, p)
    BY FreshActions
  <2>2. att[p] \notin Attempt
    BY <2>1 DEF Fresh, NoAttempt, Attempt
  <2> QED BY <2>1, <2>2 DEF Fresh, NameResolves, StartAttempt, TypeOK
<1>2. \A m \in Node : turn[m][p] = "none"
  BY <1>1 DEF Relays, RelayOnly
<1>3. Held
  <2>1. \E st \in TaskState : SetTask(n, p, "I", st)
    BY DEF NameResolves, StartAttempt, TaskState
  <2> QED BY <1>2, <2>1, SetTaskHeld DEF Role, InTable
<1>4. LookupOnly'
  <2>1. \A m \in Node, q \in Pid : q \in cur[m] => q # p
    BY <1>1 DEF Involved, CallBelongs, TasksBelong, Belongs, Role
  <2>2. CASE NameResolves(n, p)
    BY <1>1, <2>1, <2>2 DEF NameResolves, Relays, LookupOnly, TypeOK
  <2>3. CASE StartAttempt(n, p)
    <3>1. pc' = pc /\ pc[n] = "loop"
      BY <2>3 DEF StartAttempt, LoopResumes
    <3> QED BY <1>1, <2>1, <3>1 DEF Relays, LookupOnly, TypeOK
  <2> QED BY <2>2, <2>3
<1>5. RelayOnly'
  BY <1>1, <1>2 DEF Relays, RelayOnly, TypeOK
<1>6. RelayHeld'
  BY <1>1, <1>3 DEF Relays, RelayHeld, Held
<1> QED BY <1>4, <1>5, <1>6 DEF Relays

LEMMA NextRelays == IInv /\ Relays /\ [Next]_vars => Relays'
<1> SUFFICES ASSUME TypeOK, Involved, Handled, Relays, [Next]_vars
    PROVE  Relays'
  BY DEF IInv
<1>1. CASE UNCHANGED vars
  <2>1. Calm
    BY <1>1 DEF vars, Calm, Held, CallKept
  <2> QED BY <2>1, CalmStep
<1>2. Callers \subseteq Node
  BY NodeAssumption DEF Callers
<1>3. ASSUME NEW n \in Node, NEW d \in Node, Connect(n, d) PROVE Relays'
  BY <1>3, CalmActions, CalmStep
<1>4. ASSUME NEW n \in Node, CallStep(n) PROVE Relays'
  <2>1. CASE NameFails(n) \/ ConnectFails(n)
    BY <2>1, CalmActions, CalmStep
  <2>2. ASSUME NEW p \in Pid, AddrKnown(n, p) PROVE Relays'
    BY <2>2, CalmActions, CalmStep
  <2>3. ASSUME NEW p \in Pid, NameResolves(n, p) \/ StartAttempt(n, p) PROVE Relays'
    BY <2>3, NewStep
  <2> QED BY <1>4, <2>1, <2>2, <2>3 DEF CallStep
<1>5. ASSUME NEW n \in Node, NEW p \in Pid, Arrival(n, p) PROVE Relays'
  BY <1>5, CalmActions, CalmStep
<1>6. ASSUME NEW n \in Node, NEW p \in Pid, NEW r \in Role, TaskStep(n, p, r)
      PROVE  Relays'
  BY <1>6, CalmActions, CalmStep
<1>7. ASSUME NEW n \in Node, NEW p \in Pid, NEW r \in Role, Outcome(n, p, r)
      PROVE  Relays'
  <2>1. \/ Calm \/ TurnReady(n, p, r) \/ TurnUnavailable(n, p, r)
        \/ TurnClosed(n, p, r) \/ PeerAccepted(n, p, r)
    BY <1>7, CalmActions
  <2> QED BY <2>1, CalmStep, TableStep
<1>8. ASSUME NEW p \in Pid, Punched(p) PROVE Relays'
  BY <1>8, CalmActions, CalmStep
<1>9. CASE Next
  BY <1>2, <1>3, <1>4, <1>5, <1>6, <1>7, <1>8, <1>9 DEF Next
<1> QED BY <1>1, <1>9

-----------------------------------------------------------------------------
(***************************************************************************)
(* The table of futures.  What is in it, and what a CON_ID line puts there,*)
(* is of an attempt that was made (EntriesBelong): the ID of a new attempt *)
(* is not in the table.                                                    *)
(***************************************************************************)
EntriesBelong ==
  \A n \in Node, p \in Pid :
    entry[n][p] # "absent" \/ <<n, p>> \in conid => att[p] \in Attempt

Settles ==
  \A n \in Node, p \in Pid :
    entry[n][p] \in {"pipe", "cancelled"} => entry'[n][p] \in {entry[n][p], "absent"}

\* Entries and CON_ID lines come for attempts that were made.
EntriesKept ==
  /\ \A n \in Node, p \in Pid :
       /\ entry'[n][p] # "absent" => entry[n][p] # "absent" \/ att[p] \in Attempt
       /\ <<n, p>> \in conid' => <<n, p>> \in conid \/ att[p] \in Attempt
  /\ UNCHANGED att
Lawful == EntriesKept /\ Settles

LEMMA LawfulStep ==
  ASSUME EntriesBelong, Lawful
  PROVE  EntriesBelong' /\ Settles
BY DEF Lawful, EntriesKept, EntriesBelong

LEMMA ReadyLawful ==
  ASSUME TypeOK, NEW n \in Node, NEW p \in Pid, Ready(n, p)
  PROVE  Settles /\ \A m \in Node, q \in Pid :
                      entry'[m][q] # "absent" => entry[m][q] # "absent"
BY DEF TypeOK, Ready, Settles, EntryState

LEMMA RemoveLawful ==
  ASSUME TypeOK, NEW n \in Node, NEW p \in Pid, NEW r \in Role, Remove(n, p, r)
  PROVE  Settles /\ \A m \in Node, q \in Pid :
                      entry'[m][q] # "absent" => entry[m][q] # "absent"
BY DEF TypeOK, Remove, Settles, EntryState

LEMMA LawfulActions ==
  ASSUME TypeOK, Involved, EntriesBelong
  PROVE  /\ \A n, d \in Node : Connect(n, d) => Lawful
         /\ \A n \in Node : NameFails(n) \/ ConnectFails(n) => Lawful
         /\ \A n \in Node, p \in Pid : AddrKnown(n, p) \/ Arrival(n, p) => Lawful
         /\ \A n \in Node, p \in Pid, r \in Role : TaskStep(n, p, r) => Lawful
         /\ \A n \in Node, p \in Pid, r \in Role : Outcome(n, p, r) => Lawful
         /\ \A p \in Pid : Punched(p) => Lawful
<1> USE DEF Lawful, conn, signals, relays, punches
\* Steps that touch neither the table nor the lines.
<1>1. ASSUME UNCHANGED <<entry, conid, att>>
      PROVE  Lawful
  BY <1>1 DEF EntriesKept, Settles
\* Steps that set a future of the table, or take it out.
<1>2. ASSUME NEW n \in Node, NEW p \in Pid, Ready(n, p), UNCHANGED <<conid, att>>
      PROVE  Lawful
  BY <1>2, ReadyLawful DEF EntriesKept
<1>3. ASSUME NEW n \in Node, NEW p \in Pid, NEW r \in Role, Remove(n, p, r),
             UNCHANGED <<conid, att>>
      PROVE  Lawful
  BY <1>3, RemoveLawful DEF EntriesKept
<1>4. ASSUME NEW n \in Node, NEW d \in Node, Connect(n, d)
      PROVE  Lawful
  BY <1>1, <1>4 DEF Connect
<1>5. ASSUME NEW n \in Node, NameFails(n) \/ ConnectFails(n)
      PROVE  Lawful
  BY <1>1, <1>5 DEF NameFails, ConnectFails
<1>6. ASSUME NEW n \in Node, NEW p \in Pid, AddrKnown(n, p)
      PROVE  Lawful
  BY <1>6 DEF AddrKnown, TypeOK, EntriesKept, Settles
<1>7. ASSUME NEW n \in Node, NEW p \in Pid, Deliver(n, p)
      PROVE  Lawful
  <2>1. CASE UNCHANGED entry
    BY <1>1, <1>7, <2>1 DEF Deliver
  <2>2. CASE entry[n][p] = "pending" /\ entry' = [entry EXCEPT ![n][p] = "pipe"]
    <3>1. Ready(n, p)
      BY <2>2 DEF Ready
    <3> QED BY <1>2, <1>7, <3>1 DEF Deliver
  <2> QED BY <1>7, <2>1, <2>2 DEF Deliver
<1>8. ASSUME NEW n \in Node, NEW p \in Pid, RecvConId(n, p)
      PROVE  Lawful
  BY <1>8 DEF RecvConId, TypeOK, EntriesKept, Settles, EntriesBelong
<1>9. ASSUME NEW n \in Node, NEW p \in Pid, PunchReady(n, p)
      PROVE  Lawful
  BY <1>2, <1>9 DEF PunchReady
<1>10. ASSUME NEW n \in Node, NEW p \in Pid, StartPunching(n, p) \/ PunchFails(n, p)
       PROVE  Lawful
  BY <1>1, <1>10 DEF StartPunching, PunchFails
<1>11. ASSUME NEW n \in Node, NEW p \in Pid, StartHandler(n, p)
       PROVE  Lawful
  <2>1. att[p] \in Attempt
    BY <1>11 DEF StartHandler, Involved, TasksBelong, Belongs, Role
  <2> QED BY <1>11, <2>1 DEF StartHandler, TypeOK, EntriesKept, Settles
<1>12. ASSUME NEW n \in Node, NEW p \in Pid, NEW r \in Role, SendConId(n, p, r)
       PROVE  Lawful
  <2>1. att[p] \in Attempt
    BY <1>12 DEF SendConId, Involved, TasksBelong, Belongs
  <2> QED BY <1>12, <2>1, ReadyLawful DEF SendConId, EntriesKept
<1>13. ASSUME NEW n \in Node, NEW p \in Pid, NEW r \in Role, Timeout(n, p, r)
       PROVE  Lawful
  <2>1. \A m \in Node, q \in Pid :
          \/ entry'[m][q] = entry[m][q]
          \/ entry[m][q] = "pending" /\ entry'[m][q] = "cancelled"
    <3>1. CASE task[n][p][r] = "setup"
      BY <1>13, <3>1 DEF Timeout
    <3>2. CASE task[n][p][r] = "await" /\ entry[n][p] = "pending"
      <4>1. entry' = [entry EXCEPT ![n][p] = "cancelled"]
        BY <1>13, <3>2 DEF Timeout
      <4> QED BY <3>2, <4>1 DEF TypeOK
    <3>3. CASE task[n][p][r] # "setup" /\ ~(task[n][p][r] = "await" /\ entry[n][p] = "pending")
      <4>1. entry' = [entry EXCEPT ![n][p] = entry[n][p]]
        BY <1>13, <3>3 DEF Timeout
      <4> QED BY <4>1 DEF TypeOK
    <3> QED BY <3>1, <3>2, <3>3
  <2>2. UNCHANGED <<att, conid>>
    BY <1>13 DEF Timeout
  <2> QED BY <2>1, <2>2 DEF EntriesKept, Settles
<1>14. ASSUME NEW n \in Node, NEW p \in Pid, NEW r \in Role, Cleanup(n, p, r)
       PROVE  Lawful
  BY <1>3, <1>14 DEF Cleanup
<1>15. ASSUME NEW n \in Node, NEW p \in Pid, NEW r \in Role,
              OpenPipe(n, p, r) \/ ReverseConnect(n, p) \/ PipeArrives(n, p, r)
                \/ PunchProto(n, p, r) \/ TurnRelay(n, p, r) \/ TurnCleanup(n, p, r)
       PROVE  Lawful
  BY <1>1, <1>15 DEF OpenPipe, ReverseConnect, PipeArrives, PunchProto, TurnRelay, TurnCleanup
<1>16. ASSUME NEW n \in Node, NEW p \in Pid, NEW r \in Role,
              PipeOpened(n, p, r) \/ PipeRefused(n, p, r) \/ Predicted(n, p, r)
                \/ PredictFails(n, p, r) \/ TurnReady(n, p, r)
                \/ TurnUnavailable(n, p, r) \/ AcceptFails(n, p, r)
       PROVE  Lawful
  BY <1>1, <1>16 DEF PipeOpened, PipeRefused, Predicted, PredictFails, TurnReady,
                     TurnUnavailable, AcceptFails
<1>17. ASSUME NEW n \in Node, NEW p \in Pid, NEW r \in Role, PeerAccepted(n, p, r)
       PROVE  Lawful
  BY <1>2, <1>17 DEF PeerAccepted
<1>18. ASSUME NEW n \in Node, NEW p \in Pid, NEW r \in Role, TurnClosed(n, p, r)
       PROVE  Lawful
  BY <1>1, <1>3, <1>18 DEF TurnClosed
<1>19. ASSUME NEW p \in Pid, Punched(p)
       PROVE  Lawful
  BY <1>1, <1>19 DEF Punched
<1>23. ASSUME NEW n \in Node, NEW p \in Pid, NEW r \in Role,
              TurnAllocates(n, p, r) \/ TurnDropped(n, p, r)
       PROVE  Lawful
  BY <1>1, <1>23, AllocActions
<1>20. ASSUME NEW n \in Node, NEW p \in Pid, AddrKnown(n, p) \/ Arrival(n, p)
       PROVE  Lawful
  BY <1>20, <1>6, <1>7, <1>8, <1>9, <1>10 DEF Arrival
<1>21. ASSUME NEW n \in Node, NEW p \in Pid, NEW r \in Role, TaskStep(n, p, r)
       PROVE  Lawful
  BY <1>21, <1>11, <1>12, <1>13, <1>14, <1>15 DEF TaskStep
<1>22. ASSUME NEW n \in Node, NEW p \in Pid, NEW r \in Role, Outcome(n, p, r)
       PROVE  Lawful
  BY <1>22, <1>16, <1>17, <1>18, <1>23 DEF Outcome, TurnProgress
<1> QED BY <1>4, <1>5, <1>19, <1>20, <1>21, <1>22

\* The future of a new attempt is made where there was none.
LEMMA NewEntryStep ==
  ASSUME TypeOK, Involved, EntriesBelong, NEW n \in Node, NEW p \in Pid,
         NameResolves(n, p) \/ StartAttempt(n, p)
  PROVE  EntriesBelong' /\ Settles
<1> USE DEF signals
<1>1. PICK a \in Attempt : att' = [att EXCEPT ![p] = a]
  BY FreshActions DEF Fresh
<1>2. att[p] \notin Attempt
  BY FreshActions DEF Fresh, NoAttempt, Attempt
<1>3. entry' = [entry EXCEPT ![n][p] = "pending"] /\ UNCHANGED conid
  BY DEF NameResolves, StartAttempt
<1>4. entry[n][p] = "absent"
  BY <1>2 DEF EntriesBelong
<1>5. Settles
  BY <1>3, <1>4 DEF Settles, TypeOK
<1>6. EntriesBelong'
  BY <1>1, <1>3 DEF EntriesBelong, TypeOK
<1> QED BY <1>5, <1>6

LEMMA NextSettles == IInv /\ EntriesBelong /\ [Next]_vars => EntriesBelong' /\ [Settles]_vars
<1> SUFFICES ASSUME TypeOK, Involved, EntriesBelong, [Next]_vars
    PROVE  EntriesBelong' /\ [Settles]_vars
  BY DEF IInv
<1> DEFINE Rest == EntriesBelong' /\ Settles
<1>1. CASE UNCHANGED vars
  BY <1>1 DEF vars, EntriesBelong
<1>2. Callers \subseteq Node
  BY NodeAssumption DEF Callers
<1>3. ASSUME NEW n \in Node, NEW d \in Node, Connect(n, d) PROVE Rest
  BY <1>3, LawfulActions, LawfulStep
<1>4. ASSUME NEW n \in Node, CallStep(n) PROVE Rest
  <2>1. CASE NameFails(n) \/ ConnectFails(n)
    BY <2>1, LawfulActions, LawfulStep
  <2>2. ASSUME NEW p \in Pid, AddrKnown(n, p) PROVE Rest
    BY <2>2, LawfulActions, LawfulStep
  <2>3. ASSUME NEW p \in Pid, NameResolves(n, p) \/ StartAttempt(n, p) PROVE Rest
    BY <2>3, NewEntryStep
  <2> QED BY <1>4, <2>1, <2>2, <2>3 DEF CallStep
<1>5. ASSUME NEW n \in Node, NEW p \in Pid, Arrival(n, p) PROVE Rest
  BY <1>5, LawfulActions, LawfulStep
<1>6. ASSUME NEW n \in Node, NEW p \in Pid, NEW r \in Role,
             TaskStep(n, p, r) \/ Outcome(n, p, r)
      PROVE  Rest
  BY <1>6, LawfulActions, LawfulStep
<1>7. ASSUME NEW p \in Pid, Punched(p) PROVE Rest
  BY <1>7, LawfulActions, LawfulStep
<1>8. CASE Next
  <2> HIDE DEF Rest
  <2>1. Rest
    BY <1>2, <1>3, <1>4, <1>5, <1>6, <1>7, <1>8 DEF Next
  <2> QED BY <2>1 DEF Rest
<1> QED BY <1>1, <1>8

\* Whoever of the technique, the CON_ID line, the punching process and the time
\* limit comes first settles a future; nobody settles it again.
THEOREM FuturesSettleOnce == Spec => SettledOnce
<1>1. Init => EntriesBelong
  BY DEF Init, EntriesBelong
<1> QED BY <1>1, SpecInv, NextSettles, PTL DEF Spec, SettledOnce, Settles

-----------------------------------------------------------------------------
(***************************************************************************)
(* Both ends.  What is set in the table of one node, or sent to it, proves *)
(* how far the other node is: per technique, from where a task can be      *)
(* (PlaceOf) and which future, message or line only the other's progress   *)
(* can have put there.                                                     *)
(***************************************************************************)
\* Where a task of its technique can be.
PlaceOf(p, r, st) ==
  /\ st \in {"open", "send"} => Func(p, r) = "direct"
  /\ st = "predict" => att[p].kind = "punch"
  /\ st \in {"setup", "accept", "closing"} => att[p].kind = "relay"
  /\ st = "accept" => r = "H"
  /\ st \in {"await", "lost", "late"} =>
       Func(p, r) # "direct" /\ (r = "H" => att[p].kind = "punch")
Placed == \A n \in Node, p \in Pid, r \in Role : PlaceOf(p, r, task[n][p][r])

\* Lines are sent by direct_connect, and holes are punched for punches only.
Wired ==
  \A n \in Node, p \in Pid :
    /\ <<n, p>> \in conid => att[p].kind \in {"direct", "reverse"}
    /\ <<n, p>> \in sched \cup punching => att[p].kind = "punch"

\* A call has one attempt, and after the lookup it is one of a technique.
OneAttempt ==
  \A n \in Node :
    /\ pc[n] \in {"idle", "name"} => cur[n] = {}
    /\ \A p, q \in cur[n] : p = q
    /\ pc[n] = "loop" => \A p \in cur[n] : att[p].kind # "getaddr"

DirectMet(p) ==
  \A n \in Node, r \in Role :
    task[n][p][r] \in {"send", "ok"} /\ Func(p, r) = "direct" => <<PeerOf(n, p), p>> \in open

\* Only the handler at the other node can have connected back.
ReverseMet(p) ==
  LET s == att[p].src
      d == att[p].dst IN
  att[p].kind = "reverse" =>
    /\ \A m \in Node : <<m, p>> \in net \/ task[m][p]["H"] # "none" => m = d
    /\ (entry[s][p] = "pipe" \/ <<s, p>> \in conid \/ task[s][p]["I"] \in {"late", "ok"})
         => task[d][p]["H"] = "ok"

PunchMet(p) ==
  att[p].kind = "punch" =>
    \A m \in Node : entry[m][p] = "pipe" \/ task[m][p]["I"] \in {"late", "ok"} => p \in hole

\* A relay's messages start behind the attempt's own client; its future is set
\* by the handler that accepted the peer; and a message to the attempt's node
\* comes from a handler at the other node that has accepted too.
RelayMet(p) ==
  LET s == att[p].src
      d == att[p].dst IN
  att[p].kind = "relay" =>
    /\ \A m \in Node : <<m, p>> \in net \/ task[m][p]["H"] # "none"
                         => task[s][p]["I"] \notin {"none", "new", "setup"}
    /\ \A m \in Node : entry[m][p] = "pipe" => task[m][p]["H"] = "ok"
    /\ task[s][p]["I"] # "late"
    /\ task[s][p]["I"] = "ok" => task[s][p]["H"] = "ok"
    /\ task[s][p]["I"] \in {"await", "ok"} /\ task[s][p]["H"] = "ok" => turn[s][p] = "accepted"
    /\ s # d =>
         /\ <<s, p>> \in net \/ task[s][p]["H"] # "none" => task[d][p]["H"] = "ok"
         /\ task[d][p]["H"] = "ok" => turn[d][p] = "accepted"
         /\ task[d][p]["H"] \in {"new", "setup", "accept"} => entry[d][p] # "absent"
         /\ entry[d][p] # "cancelled"

Met(p) == DirectMet(p) /\ ReverseMet(p) /\ PunchMet(p) /\ RelayMet(p)
Ends == Placed /\ Wired /\ \A p \in Pid : Met(p)

(***************************************************************************)
(* What can have moved a task, and what put there a future, a message, a   *)
(* line or a client: the steps of one ID as its two nodes see them.        *)
(***************************************************************************)
\* Task r of node n goes from one place to another.
Moves(n, p, r, from, to) ==
  \/ from = "none" /\ to = "queued" /\ r = "H" /\ <<n, p>> \in net
  \/ from = "queued" /\ to \in {"new", "done"} /\ r = "H" /\ entry'[n][p] # "absent"
  \/ from = "new" /\ to = "open" /\ Func(p, r) = "direct"
  \/ from = "new" /\ to = "await" /\ att[p].kind = "reverse" /\ r = "I"
  \/ from = "new" /\ att[p].kind = "punch" /\ (to = "predict" \/ (to = "ok" /\ r = "H"))
  \/ from = "new" /\ att[p].kind = "relay"
       /\ \/ to = "setup" /\ (r = "H" => turn[n][p] = "none")
          \/ to = "accept" /\ r = "H"
  \/ from = "open" /\ to = "send" /\ <<PeerOf(n, p), p>> \in open'
  \/ from = "send" /\ to = "ok"
  \/ from = "predict" /\ to = "await"
  \/ from = "await" /\ entry[n][p] = "pipe" /\ to = "ok"
  \/ from = "await" /\ entry[n][p] = "pipe" /\ to = "late"
       /\ \E k \in Role \ {r} : task[n][p][k] \in {"failed", "closing"}
  \/ from = "await" /\ to = "lost"
  \/ from = "late" /\ to = "ok"
  \/ from = "setup" /\ to \in {"failed", IF r = "I" THEN "await" ELSE "accept"}
       /\ <<n, p, r>> \notin alloc'
  \/ from = "accept" /\ to = "ok" /\ turn'[n][p] = "accepted"
  \/ from \in {"new"} \cup (Waiting \ {"setup"}) /\ to = "failed"
  \/ from = "failed" /\ (to = "done" \/ (to = "closing" /\ att[p].kind = "relay"))
  \/ from = "closing" /\ to = "done"
  \/ att[p].kind = "getaddr" /\ to \in {"ok", "done"}

TaskCause(n, p, r) ==
  task'[n][p][r] = task[n][p][r] \/ Moves(n, p, r, task[n][p][r], task'[n][p][r])

EntryCause(n, p) ==
  \/ entry'[n][p] = entry[n][p]
  \/ att[p].kind = "getaddr"
  \/ entry[n][p] = "absent" /\ entry'[n][p] = "pending"
  \/ entry'[n][p] = "absent" /\ \E r \in Role : /\ task[n][p][r] \in {"failed", "closing"}
                                                /\ task'[n][p][r] = "done"
  \/ entry'[n][p] = "cancelled" /\ \E r \in Role : task[n][p][r] = "await"
  \/ /\ entry'[n][p] = "pipe"
     /\ \/ \E r \in Role : task[n][p][r] = "send" /\ task'[n][p][r] = "ok"
        \/ \E r \in Role : task[n][p][r] = "accept" /\ task'[n][p][r] = "ok"
        \/ <<n, p>> \in conid
        \/ <<n, p>> \in punching /\ p \in hole

\* A message comes from the task m of the peer that sends it.
NetCause(n, p) ==
  <<n, p>> \in net' =>
    \/ <<n, p>> \in net
    \/ att[p].kind = "getaddr"
    \/ \E m \in Node, r \in Role :
         /\ n = PeerOf(m, p)
         /\ \/ task[m][p][r] = "new" /\ r = "I" /\ att[p].kind = "reverse"
            \/ task[m][p][r] = "predict"
            \/ task[m][p][r] = "setup" /\ r = "I" /\ task'[m][p][r] \in {"await", "failed"}
            \/ /\ task[m][p][r] = "accept"
               /\ entry[m][p] \in {"pending", "pipe"} => task'[m][p][r] = "ok"

ConCause(n, p) ==
  <<n, p>> \in conid' =>
    \/ <<n, p>> \in conid
    \/ \E m \in Node, r \in Role :
         n = PeerOf(m, p) /\ task[m][p][r] = "send" /\ task'[m][p][r] = "ok"

TurnCause(n, p) ==
  \/ turn'[n][p] = turn[n][p]
  \/ turn'[n][p] = "accepted" /\ turn[n][p] # "none"
  \/ turn'[n][p] = "none" /\ \E r \in Role : /\ task[n][p][r] = "closing"
                                             /\ task'[n][p][r] = "done"
  \/ \E r \in Role : /\ task[n][p][r] = "setup"
                     /\ task'[n][p][r] \in {"failed", "await", "accept"}

PunchCause(n, p) ==
  <<n, p>> \in sched' \cup punching' =>
    <<n, p>> \in sched \cup punching \/ \E r \in Role : task[n][p][r] = "predict"

Grows(p) ==
  /\ \A n \in Node : <<n, p>> \in open => <<n, p>> \in open'
  /\ p \in hole => p \in hole'

Caused(p) ==
  /\ att'[p] = att[p] /\ Grows(p)
  /\ \A n \in Node : /\ \A r \in Role : TaskCause(n, p, r)
                     /\ EntryCause(n, p) /\ NetCause(n, p) /\ ConCause(n, p)
                     /\ TurnCause(n, p) /\ PunchCause(n, p)

Same(p) ==
  /\ att'[p] = att[p] /\ Grows(p)
  /\ \A n \in Node :
       /\ \A r \in Role : task'[n][p][r] = task[n][p][r]
       /\ entry'[n][p] = entry[n][p] /\ turn'[n][p] = turn[n][p]
       /\ <<n, p>> \in net' => <<n, p>> \in net
       /\ <<n, p>> \in conid' => <<n, p>> \in conid
       /\ <<n, p>> \in sched' \cup punching' => <<n, p>> \in sched \cup punching

\* Nothing of the ID changes, but for what is delivered or ends.
LEMMA SameCaused == ASSUME NEW p \in Pid, Same(p) PROVE Caused(p)
BY DEF Same, Caused, TaskCause, EntryCause, NetCause, ConCause, TurnCause, PunchCause

\* What a task's step changes of tasks and entries, point by point.
TaskTo(n, p, r, st) ==
  /\ task'[n][p][r] = st
  /\ \A m \in Node, q \in Pid, k \in Role :
       <<m, q, k>> # <<n, p, r>> => task'[m][q][k] = task[m][q][k]

EntryTo(n, p, st) ==
  /\ entry'[n][p] = st
  /\ \A m \in Node, q \in Pid : <<m, q>> # <<n, p>> => entry'[m][q] = entry[m][q]

TurnTo(n, p, st) ==
  /\ turn'[n][p] = st
  /\ \A m \in Node, q \in Pid : <<m, q>> # <<n, p>> => turn'[m][q] = turn[m][q]

LEMMA SetTaskTo ==
  ASSUME TypeOK, NEW n \in Node, NEW p \in Pid, NEW r \in Role, NEW st, SetTask(n, p, r, st)
  PROVE  TaskTo(n, p, r, st)
BY DEF TypeOK, SetTask, TaskTo

LEMMA EntrySetTo ==
  ASSUME TypeOK, NEW n \in Node, NEW p \in Pid, NEW st, entry' = [entry EXCEPT ![n][p] = st]
  PROVE  EntryTo(n, p, st)
BY DEF TypeOK, EntryTo

LEMMA TurnSetTo ==
  ASSUME TypeOK, NEW n \in Node, NEW p \in Pid, NEW st, turn' = [turn EXCEPT ![n][p] = st]
  PROVE  TurnTo(n, p, st)
BY DEF TypeOK, TurnTo

LEMMA ReadyTo ==
  ASSUME TypeOK, NEW n \in Node, NEW p \in Pid, Ready(n, p)
  PROVE  EntryTo(n, p, IF entry[n][p] = "pending" THEN "pipe" ELSE entry[n][p])
BY DEF TypeOK, Ready, EntryTo

LEMMA RemoveTo ==
  ASSUME TypeOK, NEW n \in Node, NEW p \in Pid, NEW r \in Role, Remove(n, p, r)
  PROVE  /\ EntryTo(n, p, "absent")
         /\ task'[n][p][r] = "done"
         /\ \A k \in Role \ {r} : task'[n][p][k] = Orphan(n, p, task[n][p][k])
         /\ \A m \in Node, q \in Pid, k \in Role :
              <<m, q>> # <<n, p>> => task'[m][q][k] = task[m][q][k]
<1> DEFINE new == [q \in Role |-> IF q = r THEN "done"
                                          ELSE Orphan(n, p, task[n][p][q])]
<1>1. task' = [task EXCEPT ![n][p] = new]
  BY DEF Remove
<1>2. new[r] = "done" /\ \A k \in Role \ {r} : new[k] = Orphan(n, p, task[n][p][k])
  OBVIOUS
<1> HIDE DEF new
<1>3. EntryTo(n, p, "absent")
  BY EntrySetTo DEF Remove
<1> QED BY <1>1, <1>2, <1>3 DEF TypeOK

\* Only a task moves, and perhaps a pipe opens.
LEMMA MoveCaused ==
  ASSUME TypeOK, NEW n \in Node, NEW p \in Pid, NEW r \in Role, NEW st,
         SetTask(n, p, r, st), Moves(n, p, r, task[n][p][r], st),
         open \subseteq open', UNCHANGED <<att, entry, net, conid, turn, hole, sched, punching>>
  PROVE  \A q \in Pid : Caused(q)
<1>1. TaskTo(n, p, r, st)
  BY SetTaskTo
<1>2. ASSUME NEW q \in Pid, q # p PROVE Caused(q)
  <2>1. Same(q)
    BY <1>1, <1>2 DEF TaskTo, Same, Grows
  <2> QED BY <2>1, SameCaused
<1>3. Caused(p)
  BY <1>1 DEF TaskTo, Caused, TaskCause, EntryCause, NetCause, ConCause, TurnCause,
              PunchCause, Grows
<1> QED BY <1>2, <1>3

\* Where nothing of tasks, messages and clients changes.
LEMMA IdleCaused ==
  ASSUME UNCHANGED <<att, entry, task, net, conid, open, turn>>,
         hole \subseteq hole', sched' \cup punching' \subseteq sched \cup punching
  PROVE  \A q \in Pid : Caused(q)
<1> SUFFICES ASSUME NEW q \in Pid PROVE Caused(q)
  OBVIOUS
<1>1. Same(q)
  BY DEF Same, Grows
<1> QED BY <1>1, SameCaused

\* The steps of a call, but for those that draw an ID.
LEMMA CallCaused ==
  ASSUME TypeOK, Involved, Relays, NEW n \in Node
  PROVE  /\ \A d \in Node : Connect(n, d) => \A q \in Pid : Caused(q)
         /\ NameFails(n) \/ ConnectFails(n) => \A q \in Pid : Caused(q)
         /\ \A p \in Pid : AddrKnown(n, p) => \A q \in Pid : Caused(q)
<1> USE DEF signals, relays, punches
<1>1. ASSUME NEW d \in Node, Connect(n, d) PROVE \A q \in Pid : Caused(q)
  BY <1>1, IdleCaused DEF Connect
<1>2. ASSUME NameFails(n) \/ ConnectFails(n) PROVE \A q \in Pid : Caused(q)
  BY <1>2, IdleCaused DEF NameFails, ConnectFails
<1>3. ASSUME NEW p \in Pid, AddrKnown(n, p), NEW q \in Pid PROVE Caused(q)
  <2>1. att[p].kind = "getaddr" /\ task[n][p]["I"] # "none"
    BY <1>3 DEF AddrKnown, Relays, LookupOnly, Involved, CallBelongs
  <2>2. \E st : EntryTo(n, p, st)
    BY <1>3, EntrySetTo DEF AddrKnown
  <2>3. \E st \in {"ok", "done"} : TaskTo(n, p, "I", st)
    BY <1>3, SetTaskTo DEF AddrKnown, Role
  <2>4. UNCHANGED <<att, net, conid, open, turn, hole, sched, punching>>
    BY <1>3 DEF AddrKnown
  <2>5. CASE q # p
    <3>1. Same(q)
      BY <2>2, <2>3, <2>4, <2>5 DEF TaskTo, EntryTo, Same, Grows
    <3> QED BY <3>1, SameCaused
  <2>6. CASE q = p
    BY <2>1, <2>2, <2>3, <2>4, <2>6
       DEF TaskTo, EntryTo, Caused, TaskCause, Moves, EntryCause, NetCause, ConCause,
           TurnCause, PunchCause, Grows
  <2> QED BY <2>5, <2>6
<1> QED BY <1>1, <1>2, <1>3

\* What arrives.
LEMMA ArrivalCaused ==
  ASSUME TypeOK, Handled, NEW n \in Node, NEW p \in Pid, Arrival(n, p), NEW q \in Pid
  PROVE  Caused(q)
<1> USE DEF conn, signals, relays, punches
<1>1. CASE Deliver(n, p)
  <2>1. UNCHANGED <<att, conid, open, turn, hole, sched, punching>>
    BY <1>1 DEF Deliver
  <2>2. CASE UNCHANGED <<entry, task, net>>
    BY <2>1, <2>2, IdleCaused
  <2>3. CASE SetTask(n, p, "H", "queued") /\ UNCHANGED <<entry, net>>
    <3>1. Moves(n, p, "H", task[n][p]["H"], "queued")
      BY <1>1 DEF Deliver, Handled, Moves
    <3> QED BY <2>1, <2>3, <3>1, MoveCaused DEF Role
  <2>4. CASE att[p].kind = "getaddr" /\ SendTo(att[p].src, p) /\ UNCHANGED <<entry, task>>
    BY <2>1, <2>4
       DEF SendTo, Caused, TaskCause, EntryCause, NetCause, ConCause, TurnCause,
           PunchCause, Grows
  <2>5. CASE /\ att[p].kind = "getaddr" /\ UNCHANGED <<task, net>>
             /\ entry' = [entry EXCEPT ![n][p] = "pipe"]
    <3>1. \E st : EntryTo(n, p, st)
      BY <2>5, EntrySetTo
    <3> QED
      BY <2>1, <2>5, <3>1
         DEF EntryTo, Caused, TaskCause, EntryCause, NetCause, ConCause, TurnCause,
             PunchCause, Grows
  <2> QED BY <1>1, <2>2, <2>3, <2>4, <2>5 DEF Deliver
<1>2. CASE RecvConId(n, p)
  <2>1. \E st : EntryTo(n, p, st) /\ (st = entry[n][p] \/ st = "pipe")
    BY <1>2, EntrySetTo DEF RecvConId
  <2> QED
    BY <1>2, <2>1
       DEF RecvConId, EntryTo, Caused, TaskCause, EntryCause, NetCause, ConCause, TurnCause,
           PunchCause, Grows
<1>3. CASE StartPunching(n, p)
  BY <1>3, IdleCaused DEF StartPunching
<1>4. CASE PunchFails(n, p)
  BY <1>4, IdleCaused DEF PunchFails
<1>5. CASE PunchReady(n, p)
  <2>1. \E st : EntryTo(n, p, st) /\ (st = entry[n][p] \/ st = "pipe")
    BY <1>5, ReadyTo DEF PunchReady
  <2> QED
    BY <1>5, <2>1
       DEF PunchReady, EntryTo, Caused, TaskCause, EntryCause, NetCause, ConCause, TurnCause,
           PunchCause, Grows
<1> QED BY <1>1, <1>2, <1>3, <1>4, <1>5 DEF Arrival

\* A task moves, and may settle its entry, send or change its client with it.
LEMMA WithMoveCaused ==
  ASSUME TypeOK, NEW n \in Node, NEW p \in Pid, NEW r \in Role,
         NEW st, NEW en, NEW tu,
         TaskTo(n, p, r, st), EntryTo(n, p, en), TurnTo(n, p, tu),
         Moves(n, p, r, task[n][p][r], st),
         EntryCause(n, p), TurnCause(n, p),
         \A m \in Node : NetCause(m, p) /\ ConCause(m, p) /\ PunchCause(m, p),
         UNCHANGED <<att, hole, open>>,
         \A m \in Node, q \in Pid : q # p =>
           /\ <<m, q>> \in net' => <<m, q>> \in net
           /\ <<m, q>> \in conid' => <<m, q>> \in conid
           /\ <<m, q>> \in sched' \cup punching' => <<m, q>> \in sched \cup punching
  PROVE  \A q \in Pid : Caused(q)
<1>1. ASSUME NEW q \in Pid, q # p PROVE Caused(q)
  <2>1. Same(q)
    BY <1>1 DEF TaskTo, EntryTo, TurnTo, Same, Grows
  <2> QED BY <2>1, SameCaused
<1>2. Caused(p)
  <2>1. \A m \in Node : \A k \in Role : TaskCause(m, p, k)
    BY DEF TaskTo, TaskCause
  <2>2. \A m \in Node : EntryCause(m, p)
    BY DEF EntryTo, EntryCause
  <2>3. \A m \in Node : TurnCause(m, p)
    BY DEF TurnTo, TurnCause
  <2> QED BY <2>1, <2>2, <2>3 DEF Caused, Grows
<1> QED BY <1>1, <1>2

\* An entry is deleted by the clean-up of a task; another task of the ID that
\* waits for it is orphaned.
LEMMA RemoveCaused ==
  ASSUME TypeOK, NEW n \in Node, NEW p \in Pid, NEW r \in Role,
         task[n][p][r] \in {"failed", "closing"}, Remove(n, p, r),
         NEW tu, TurnTo(n, p, tu), TurnCause(n, p),
         UNCHANGED <<att, net, conid, open, hole, sched, punching>>
  PROVE  \A q \in Pid : Caused(q)
<1>1. /\ EntryTo(n, p, "absent") /\ task'[n][p][r] = "done"
      /\ \A k \in Role \ {r} : task'[n][p][k] = Orphan(n, p, task[n][p][k])
      /\ \A m \in Node, q \in Pid, k \in Role :
           <<m, q>> # <<n, p>> => task'[m][q][k] = task[m][q][k]
  BY RemoveTo
<1>2. ASSUME NEW q \in Pid, q # p PROVE Caused(q)
  <2>1. Same(q)
    BY <1>1, <1>2 DEF EntryTo, TurnTo, Same, Grows
  <2> QED BY <2>1, SameCaused
<1>3. Caused(p)
  <2>1. TaskCause(n, p, r)
    BY <1>1 DEF TaskCause, Moves
  <2>2. ASSUME NEW k \in Role \ {r} PROVE TaskCause(n, p, k)
    BY <1>1, <2>2 DEF TaskCause, Moves, Orphan
  <2>3. \A m \in Node : m # n => \A k \in Role : TaskCause(m, p, k)
    BY <1>1 DEF TaskCause
  <2>4. EntryCause(n, p)
    BY <1>1 DEF EntryTo, EntryCause
  <2>5. \A m \in Node : m # n => EntryCause(m, p) /\ TurnCause(m, p)
    BY <1>1 DEF EntryTo, TurnTo, EntryCause, TurnCause
  <2>6. \A m \in Node : NetCause(m, p) /\ ConCause(m, p) /\ PunchCause(m, p)
    BY DEF NetCause, ConCause, PunchCause
  <2> QED BY <2>1, <2>2, <2>3, <2>4, <2>5, <2>6 DEF Caused, Grows
<1> QED BY <1>2, <1>3

\* The steps the event loop of a node takes by itself.
LEMMA TaskCaused ==
  ASSUME TypeOK, Involved, Relays, NEW n \in Node, NEW p \in Pid, NEW r \in Role,
         TaskStep(n, p, r)
  PROVE  \A q \in Pid : Caused(q)
<1> USE DEF conn, signals, relays, punches
<1>0. \A m \in Node : /\ UNCHANGED net => NetCause(m, p)
                      /\ UNCHANGED conid => ConCause(m, p)
                      /\ UNCHANGED turn => TurnCause(m, p) /\ TurnTo(m, p, turn[m][p])
                      /\ UNCHANGED entry => EntryCause(m, p) /\ EntryTo(m, p, entry[m][p])
                      /\ UNCHANGED <<sched, punching>> => PunchCause(m, p)
  BY DEF NetCause, ConCause, TurnCause, TurnTo, EntryCause, EntryTo, PunchCause
<1>1. CASE r = "H" /\ StartHandler(n, p)
  <2>1. PICK st \in {"new", "done"} : SetTask(n, p, "H", st)
    BY <1>1 DEF StartHandler
  <2>2. EntryTo(n, p, IF entry[n][p] = "absent" THEN "pending" ELSE entry[n][p])
    BY <1>1, EntrySetTo DEF StartHandler
  <2>3. TaskTo(n, p, "H", st)
    BY <2>1, SetTaskTo DEF Role
  <2>4. Moves(n, p, "H", task[n][p]["H"], st)
    BY <1>1, <2>2 DEF StartHandler, Moves, EntryTo
  <2>5. EntryCause(n, p)
    BY <2>2 DEF EntryTo, EntryCause
  <2> QED BY <1>0, <1>1, <2>2, <2>3, <2>4, <2>5, WithMoveCaused DEF StartHandler
<1>2. CASE OpenPipe(n, p, r)
  BY <1>2, MoveCaused DEF OpenPipe, Moves
<1>3. CASE SendConId(n, p, r)
  <2>1. TaskTo(n, p, r, "ok")
    BY <1>3, SetTaskTo DEF SendConId
  <2>2. \E en : EntryTo(n, p, en) /\ (en = entry[n][p] \/ en = "pipe")
    BY <1>3, ReadyTo DEF SendConId
  <2>3. EntryCause(n, p)
    BY <1>3, <2>1, <2>2 DEF SendConId, EntryTo, TaskTo, EntryCause
  <2>4. Moves(n, p, r, task[n][p][r], "ok")
    BY <1>3 DEF SendConId, Moves
  <2>5. \A m \in Node : ConCause(m, p)
    BY <1>3, <2>1 DEF SendConId, ConCause, TaskTo
  <2>6. \A m \in Node, q \in Pid : q # p => (<<m, q>> \in conid' => <<m, q>> \in conid)
    BY <1>3 DEF SendConId
  <2> QED BY <1>0, <1>3, <2>1, <2>2, <2>3, <2>4, <2>5, <2>6, WithMoveCaused DEF SendConId
<1>4. CASE r = "I" /\ ReverseConnect(n, p)
  <2>1. TaskTo(n, p, r, "await")
    BY <1>4, SetTaskTo DEF ReverseConnect
  <2>2. Moves(n, p, r, task[n][p][r], "await")
    BY <1>4 DEF ReverseConnect, Moves, Func
  <2>3. \A m \in Node : NetCause(m, p)
    BY <1>4 DEF ReverseConnect, SendTo, NetCause, Func
  <2>4. \A m \in Node, q \in Pid : q # p => (<<m, q>> \in net' => <<m, q>> \in net)
    BY <1>4 DEF ReverseConnect, SendTo
  <2> QED BY <1>0, <1>4, <2>1, <2>2, <2>3, <2>4, WithMoveCaused DEF ReverseConnect
<1>5. CASE PipeArrives(n, p, r)
  BY <1>5, MoveCaused DEF PipeArrives, Moves
<1>6. CASE PunchProto(n, p, r)
  <2>1. PICK st : SetTask(n, p, r, st) /\ Moves(n, p, r, "new", st)
    <3>1. CASE SetTask(n, p, r, "failed")
      BY <3>1 DEF Moves
    <3>2. CASE \E to \in PuncherStates(r = "H", punch[n][p]) :
                 SetTask(n, p, r, IF to = "updated" THEN "ok" ELSE "predict")
      BY <1>6, <3>2 DEF PunchProto, Moves, PuncherStates, Func, Role
    <3> QED BY <1>6, <3>1, <3>2 DEF PunchProto
  <2> QED BY <1>6, <2>1, MoveCaused DEF PunchProto
<1>7. CASE TurnRelay(n, p, r)
  <2>1. PICK st : SetTask(n, p, r, st) /\ Moves(n, p, r, "new", st)
    BY <1>7 DEF TurnRelay, Moves, Func, Role
  <2> QED BY <1>7, <2>1, MoveCaused DEF TurnRelay
<1>8. CASE Timeout(n, p, r)
  <2>1. CASE UNCHANGED <<entry, task>>
    BY <1>8, <2>1, IdleCaused DEF Timeout
  <2>2. CASE SetTask(n, p, r, "failed")
    <3>1. TaskTo(n, p, r, "failed")
      BY <2>2, SetTaskTo
    <3>2. \E en : /\ EntryTo(n, p, en)
                  /\ en = entry[n][p] \/ (en = "cancelled" /\ task[n][p][r] = "await")
      <4>1. CASE UNCHANGED entry
        BY <1>0, <4>1
      <4>2. CASE entry' = [entry EXCEPT ![n][p] = IF task[n][p][r] = "await" /\ @ = "pending"
                                                    THEN "cancelled" ELSE @]
        BY <4>2, EntrySetTo
      <4> QED BY <1>8, <4>1, <4>2 DEF Timeout
    <3>3. EntryCause(n, p)
      BY <3>2 DEF EntryTo, EntryCause
    <3>4. Moves(n, p, r, task[n][p][r], "failed")
      BY <1>8 DEF Timeout, Moves
    <3> QED BY <1>0, <1>8, <3>1, <3>2, <3>3, <3>4, WithMoveCaused DEF Timeout
  <2> QED BY <1>8, <2>1, <2>2 DEF Timeout
<1>9. CASE Cleanup(n, p, r)
  <2>1. Remove(n, p, r) /\ UNCHANGED <<att, net, conid, open, turn, hole, sched, punching>>
    BY <1>9 DEF Cleanup
  <2> QED BY <1>0, <1>9, <2>1, RemoveCaused DEF Cleanup
<1>10. CASE TurnCleanup(n, p, r)
  <2>1. PICK st \in {"done", "closing"} : SetTask(n, p, r, st)
    BY <1>10 DEF TurnCleanup
  <2> QED BY <1>10, <2>1, MoveCaused DEF TurnCleanup, Moves, Func
<1> QED BY <1>1, <1>2, <1>3, <1>4, <1>5, <1>6, <1>7, <1>8, <1>9, <1>10 DEF TaskStep

\* What depends on the network and on other machines.
LEMMA OutcomeCaused ==
  ASSUME TypeOK, Involved, NEW n \in Node, NEW p \in Pid, NEW r \in Role,
         Outcome(n, p, r)
  PROVE  \A q \in Pid : Caused(q)
<1> USE DEF conn, signals, relays, punches
<1>0. \A m \in Node : /\ UNCHANGED net => NetCause(m, p)
                      /\ UNCHANGED conid => ConCause(m, p)
                      /\ UNCHANGED turn => TurnCause(m, p) /\ TurnTo(m, p, turn[m][p])
                      /\ UNCHANGED entry => EntryCause(m, p) /\ EntryTo(m, p, entry[m][p])
                      /\ UNCHANGED <<sched, punching>> => PunchCause(m, p)
  BY DEF NetCause, ConCause, TurnCause, TurnTo, EntryCause, EntryTo, PunchCause
<1>1. CASE PipeOpened(n, p, r)
  <2>1. Moves(n, p, r, task[n][p][r], "send")
    BY <1>1 DEF PipeOpened, Moves
  <2> QED BY <1>1, <2>1, MoveCaused DEF PipeOpened
<1>2. CASE PipeRefused(n, p, r)
  BY <1>2, MoveCaused DEF PipeRefused, Moves, Waiting
<1>3. CASE Predicted(n, p, r)
  <2>1. PICK st \in {"failed", "await"} : SetTask(n, p, r, st)
    BY <1>3 DEF Predicted
  <2>2. TaskTo(n, p, r, st)
    BY <2>1, SetTaskTo
  <2>3. Moves(n, p, r, task[n][p][r], st)
    BY <1>3 DEF Predicted, Moves, Waiting
  <2>4. \A m \in Node : NetCause(m, p) /\ PunchCause(m, p)
    BY <1>3 DEF Predicted, SendTo, NetCause, PunchCause
  <2>5. \A m \in Node, q \in Pid : q # p =>
          /\ <<m, q>> \in net' => <<m, q>> \in net
          /\ <<m, q>> \in sched' \cup punching' => <<m, q>> \in sched \cup punching
    BY <1>3 DEF Predicted, SendTo
  <2>6. UNCHANGED <<att, entry, conid, open, turn, hole>>
    BY <1>3 DEF Predicted
  <2> QED BY <1>0, <2>2, <2>3, <2>4, <2>5, <2>6, WithMoveCaused
<1>4. CASE PredictFails(n, p, r)
  BY <1>4, MoveCaused DEF PredictFails, Moves, Waiting
<1>5. CASE TurnReady(n, p, r)
  <2>1. UNCHANGED <<att, entry, conid, open, hole, sched, punching>>
    BY <1>5 DEF TurnReady
  <2>2. TurnTo(n, p, "client")
    BY <1>5, TurnSetTo DEF TurnReady
  <2>3. PICK st : /\ SetTask(n, p, r, st)
                  /\ st \in (IF r = "H" THEN {"accept"} ELSE {"failed", "await"})
    BY <1>5 DEF TurnReady, Role
  <2>4. TaskTo(n, p, r, st)
    BY <2>3, SetTaskTo
  <2>5. Moves(n, p, r, task[n][p][r], st)
    BY <1>5, <2>3 DEF TurnReady, Moves, Role
  <2>6. TurnCause(n, p)
    BY <1>5, <2>3, <2>4 DEF TurnReady, TurnCause, TaskTo
  <2>7. \A m \in Node : NetCause(m, p)
    <3>1. CASE r = "H"
      BY <1>5, <3>1 DEF TurnReady, NetCause
    <3>2. CASE r = "I"
      BY <1>5, <2>3, <2>4, <3>2 DEF TurnReady, SendTo, NetCause, TaskTo
    <3> QED BY <3>1, <3>2 DEF Role
  <2>8. \A m \in Node, q \in Pid : q # p => (<<m, q>> \in net' => <<m, q>> \in net)
    BY <1>5 DEF TurnReady, SendTo
  <2> QED BY <1>0, <2>1, <2>2, <2>4, <2>5, <2>6, <2>7, <2>8, WithMoveCaused
<1>6. CASE TurnUnavailable(n, p, r)
  <2>1. UNCHANGED <<att, entry, net, conid, open, hole, sched, punching>>
    BY <1>6 DEF TurnUnavailable
  <2>2. TurnTo(n, p, "null") /\ TaskTo(n, p, r, "failed")
    BY <1>6, TurnSetTo, SetTaskTo DEF TurnUnavailable
  <2>3. Moves(n, p, r, task[n][p][r], "failed") /\ TurnCause(n, p)
    BY <1>6, <2>2 DEF TurnUnavailable, Moves, TurnCause, TaskTo
  <2> QED BY <1>0, <2>1, <2>2, <2>3, WithMoveCaused
<1>7. CASE TurnClosed(n, p, r)
  <2>1. UNCHANGED <<att, net, conid, open, hole, sched, punching>>
    BY <1>7 DEF TurnClosed
  <2>2. TurnTo(n, p, "none")
    BY <1>7, TurnSetTo DEF TurnClosed
  <2>3. CASE Remove(n, p, r)
    <3>1. TurnCause(n, p)
      BY <1>7, <2>3, RemoveTo DEF TurnClosed, TurnCause
    <3> QED BY <1>7, <2>1, <2>2, <2>3, <3>1, RemoveCaused DEF TurnClosed
  <2>4. CASE SetTask(n, p, r, "done") /\ UNCHANGED entry
    <3>1. TaskTo(n, p, r, "done")
      BY <2>4, SetTaskTo
    <3>2. Moves(n, p, r, task[n][p][r], "done") /\ TurnCause(n, p)
      BY <1>7, <3>1 DEF TurnClosed, Moves, TurnCause, TaskTo
    <3> QED BY <1>0, <2>1, <2>2, <2>4, <3>1, <3>2, WithMoveCaused
  <2> QED BY <1>7, <2>3, <2>4 DEF TurnClosed
<1>8. CASE PeerAccepted(n, p, r)
  <2>1. UNCHANGED <<att, conid, open, hole, sched, punching>>
    BY <1>8 DEF PeerAccepted
  <2>2. TurnTo(n, p, "accepted") /\ TurnCause(n, p)
    <3>1. TurnTo(n, p, "accepted")
      BY <1>8, TurnSetTo DEF PeerAccepted
    <3> QED BY <1>8, <3>1 DEF PeerAccepted, TurnTo, TurnCause
  <2>3. PICK st : /\ SetTask(n, p, r, st) /\ st \in {"ok", "failed"}
                  /\ (entry[n][p] \in {"pending", "pipe"} => st = "ok")
    <3>1. CASE turn[n][p] = "accepted" \/ entry[n][p] \in {"pending", "pipe"}
      BY <1>8, <3>1 DEF PeerAccepted
    <3>2. CASE ~ (turn[n][p] = "accepted" \/ entry[n][p] \in {"pending", "pipe"})
      BY <1>8, <3>2 DEF PeerAccepted
    <3> QED BY <3>1, <3>2
  <2>4. TaskTo(n, p, r, st)
    BY <2>3, SetTaskTo
  <2>5. Moves(n, p, r, task[n][p][r], st)
    BY <1>8, <2>2, <2>3 DEF PeerAccepted, Moves, TurnTo, Waiting
  <2>6. EntryTo(n, p, IF entry[n][p] = "pending" THEN "pipe" ELSE entry[n][p])
    BY <1>8, ReadyTo DEF PeerAccepted
  <2>7. EntryCause(n, p)
    BY <1>8, <2>3, <2>4, <2>6 DEF PeerAccepted, EntryTo, TaskTo, EntryCause
  <2>8. net' \subseteq net \cup {<<PeerOf(n, p), p>>}
    BY <1>8 DEF PeerAccepted
  <2>9. \A m \in Node : NetCause(m, p)
    BY <1>8, <2>3, <2>4, <2>8 DEF PeerAccepted, NetCause, TaskTo
  <2>10. \A m \in Node, q \in Pid : q # p => (<<m, q>> \in net' => <<m, q>> \in net)
    BY <2>8
  <2> QED BY <1>0, <2>1, <2>2, <2>4, <2>5, <2>6, <2>7, <2>9, <2>10, WithMoveCaused
<1>9. CASE AcceptFails(n, p, r)
  BY <1>9, MoveCaused DEF AcceptFails, Moves, Waiting
<1>10. CASE TurnAllocates(n, p, r) \/ TurnDropped(n, p, r)
  BY <1>10, AllocActions, IdleCaused
<1> QED BY <1>1, <1>2, <1>3, <1>4, <1>5, <1>6, <1>7, <1>8, <1>9, <1>10
        DEF Outcome, TurnProgress

\* To draw an ID changes nothing of another one.
LEMMA FreshSame ==
  ASSUME TypeOK, NEW n \in Node, NEW p \in Pid, NEW q \in Pid, q # p,
         StartAttempt(n, p) \/ NameResolves(n, p)
  PROVE  Same(q)
<1>1. /\ \E a : att' = [att EXCEPT ![p] = a]
      /\ \E st : SetTask(n, p, "I", st)
      /\ entry' = [entry EXCEPT ![n][p] = "pending"]
      /\ net' \subseteq net \cup {<<dest[n], p>>}
      /\ UNCHANGED <<conid, open, turn, sched, punching, hole>>
  BY DEF StartAttempt, NameResolves, SendTo, signals, relays, punches
<1>2. \E st : TaskTo(n, p, "I", st)
  BY <1>1, SetTaskTo DEF Role
<1>3. EntryTo(n, p, "pending")
  BY <1>1, EntrySetTo
<1>4. att'[q] = att[q]
  BY <1>1 DEF TypeOK
<1> QED BY <1>1, <1>2, <1>3, <1>4 DEF TaskTo, EntryTo, Same, Grows

\* Every step that draws no ID.
LEMMA NextCaused ==
  ASSUME IInv, Relays, [Next]_vars, NEW q \in Pid
  PROVE  Caused(q) \/ \E n \in Node : StartAttempt(n, q) \/ NameResolves(n, q)
<1> USE DEF IInv
<1> Callers \subseteq Node
  BY NodeAssumption DEF Callers
<1>1. CASE UNCHANGED vars
  BY <1>1, IdleCaused DEF vars
<1>2. CASE \E n, d \in Node : Connect(n, d)
  BY <1>2, CallCaused
<1>3. CASE \E n \in Callers : CallStep(n)
  <2>1. PICK n \in Node : CallStep(n)
    BY <1>3
  <2>2. CASE NameFails(n) \/ ConnectFails(n) \/ \E p \in Pid : AddrKnown(n, p)
    BY <2>2, CallCaused
  <2>3. ASSUME NEW p \in Pid, NameResolves(n, p) \/ StartAttempt(n, p)
        PROVE  Caused(q) \/ StartAttempt(n, q) \/ NameResolves(n, q)
    <3>1. CASE q # p
      <4>1. Same(q)
        BY <2>3, <3>1, FreshSame
      <4> QED BY <4>1, SameCaused
    <3> QED BY <2>3, <3>1
  <2> QED BY <2>1, <2>2, <2>3 DEF CallStep
<1>4. CASE \E n \in Node, p \in Pid : Arrival(n, p)
  BY <1>4, ArrivalCaused
<1>5. CASE \E n \in Node, p \in Pid, r \in Role : TaskStep(n, p, r)
  BY <1>5, TaskCaused
<1>6. CASE \E n \in Node, p \in Pid, r \in Role : Outcome(n, p, r)
  BY <1>6, OutcomeCaused
<1>7. CASE \E p \in Pid : Punched(p)
  BY <1>7, IdleCaused DEF Punched, conn, signals, relays
<1> QED BY <1>1, <1>2, <1>3, <1>4, <1>5, <1>6, <1>7 DEF Next

\* From the causes of a step: tasks stay where their technique has them, lines
\* and punches are of theirs.
LEMMA PlacedStep ==
  ASSUME TypeOK, Involved, NEW p \in Pid, Caused(p),
         \A n \in Node, r \in Role : PlaceOf(p, r, task[n][p][r])
  PROVE  \A n \in Node, r \in Role : PlaceOf(p, r, task[n][p][r])'
<1> SUFFICES ASSUME NEW n \in Node, NEW r \in Role
    PROVE  PlaceOf(p, r, task[n][p][r])'
  OBVIOUS
<1>1. att'[p] = att[p] /\ TaskCause(n, p, r) /\ PlaceOf(p, r, task[n][p][r])
  BY DEF Caused
<1>2. CASE task'[n][p][r] = task[n][p][r]
  BY <1>1, <1>2 DEF PlaceOf, Func
<1>3. CASE Moves(n, p, r, task[n][p][r], task'[n][p][r])
  BY <1>1, <1>3 DEF Moves, PlaceOf, Func, Role, Waiting
<1> QED BY <1>1, <1>2, <1>3 DEF TaskCause

LEMMA WiredStep ==
  ASSUME TypeOK, NEW p \in Pid, Caused(p), Placed, Wired, NEW n \in Node
  PROVE  /\ <<n, p>> \in conid' => att'[p].kind \in {"direct", "reverse"}
         /\ <<n, p>> \in sched' \cup punching' => att'[p].kind = "punch"
<1>1. att'[p] = att[p] /\ ConCause(n, p) /\ PunchCause(n, p)
  BY DEF Caused
<1> QED BY <1>1 DEF ConCause, PunchCause, Placed, PlaceOf, Func, Wired

\* The other end of a direct pipe is open from the connection on.
LEMMA DirectStep ==
  ASSUME TypeOK, NEW p \in Pid, Caused(p), Placed, DirectMet(p)
  PROVE  DirectMet(p)'
<1> SUFFICES ASSUME NEW n \in Node, NEW r \in Role, task'[n][p][r] \in {"send", "ok"},
                    Func(p, r)' = "direct"
    PROVE  <<PeerOf(n, p), p>>' \in open'
  BY DEF DirectMet
<1>1. att'[p] = att[p] /\ TaskCause(n, p, r) /\ Grows(p)
  BY DEF Caused
<1>2. PlaceOf(p, r, task[n][p][r]) /\ Func(p, r) = "direct" /\ PeerOf(n, p)' = PeerOf(n, p)
  BY <1>1 DEF Placed, Func, PeerOf
<1>3. CASE task[n][p][r] \in {"send", "ok"}
  <2>1. <<PeerOf(n, p), p>> \in open
    BY <1>2, <1>3 DEF DirectMet
  <2>2. PeerOf(n, p) \in Node
    BY <2>1 DEF TypeOK
  <2> QED BY <1>1, <1>2, <2>1, <2>2 DEF Grows
<1>4. CASE task[n][p][r] \notin {"send", "ok"}
  BY <1>1, <1>2, <1>4 DEF TaskCause, Moves, PlaceOf, Func, Waiting
<1> QED BY <1>3, <1>4

\* A task that returned a pipe is not moved again.
LEMMA OkStays ==
  ASSUME NEW n \in Node, NEW p \in Pid, NEW r \in Role, TaskCause(n, p, r),
         att[p].kind # "getaddr", task[n][p][r] = "ok"
  PROVE  task'[n][p][r] = "ok"
BY DEF TaskCause, Moves, Waiting

\* The one task that can connect back for a reverse connect is the handler's.
LEMMA ReverseStep ==
  ASSUME TypeOK, Involved, NEW p \in Pid, Caused(p), Placed, Wired, ReverseMet(p)
  PROVE  ReverseMet(p)'
<1> DEFINE s == att[p].src
           d == att[p].dst
<1> SUFFICES ASSUME att[p].kind = "reverse"
    PROVE  /\ \A m \in Node : <<m, p>> \in net' \/ task'[m][p]["H"] # "none" => m = d
           /\ (entry'[s][p] = "pipe" \/ <<s, p>> \in conid' \/ task'[s][p]["I"] \in {"late", "ok"})
                => task'[d][p]["H"] = "ok"
  BY DEF Caused, ReverseMet
<1>0. att[p] \in Attempt /\ s \in Node /\ d \in Node
  BY DEF TypeOK, Attempt, NoAttempt
<1>1. /\ \A m \in Node : <<m, p>> \in net \/ task[m][p]["H"] # "none" => m = d
      /\ (entry[s][p] = "pipe" \/ <<s, p>> \in conid \/ task[s][p]["I"] \in {"late", "ok"})
           => task[d][p]["H"] = "ok"
  BY DEF ReverseMet
<1>2. \A n \in Node, r \in Role : TaskCause(n, p, r) /\ PlaceOf(p, r, task[n][p][r])
  BY DEF Caused, Placed
<1>3. \A n \in Node, r \in Role :
        /\ task[n][p][r] \notin {"predict", "setup", "accept"}
        /\ task[n][p][r] = "send" => r = "H" /\ n = d
        /\ r = "I" /\ task[n][p][r] # "none" => n = s
  BY <1>1, <1>2 DEF PlaceOf, Func, Role, Involved, TasksBelong, Belongs
<1> HIDE DEF s, d
<1>4. ASSUME NEW m \in Node, <<m, p>> \in net' \/ task'[m][p]["H"] # "none" PROVE m = d
  <2>1. CASE <<m, p>> \in net'
    <3>1. NetCause(m, p)
      BY DEF Caused
    <3> QED BY <1>1, <1>3, <2>1, <3>1 DEF NetCause, PeerOf, s, d
  <2>2. CASE task'[m][p]["H"] # "none"
    BY <1>1, <1>2, <2>2 DEF TaskCause, Moves, Role, Waiting
  <2> QED BY <1>4, <2>1, <2>2
<1>5. task[d][p]["H"] = "ok" => task'[d][p]["H"] = "ok"
  BY <1>0, <1>2, OkStays DEF Role
<1>6. ASSUME entry'[s][p] = "pipe" PROVE task'[d][p]["H"] = "ok"
  <2>1. EntryCause(s, p)
    BY <1>0 DEF Caused
  <2>2. <<s, p>> \notin punching
    BY <1>0 DEF Wired
  <2> QED BY <1>0, <1>1, <1>3, <1>5, <1>6, <2>1, <2>2 DEF EntryCause
<1>7. ASSUME <<s, p>> \in conid' PROVE task'[d][p]["H"] = "ok"
  <2>1. ConCause(s, p)
    BY <1>0 DEF Caused
  <2> QED BY <1>0, <1>1, <1>3, <1>5, <1>7, <2>1 DEF ConCause
<1>8. ASSUME task'[s][p]["I"] \in {"late", "ok"} PROVE task'[d][p]["H"] = "ok"
  <2>1. TaskCause(s, p, "I") /\ task[s][p]["I"] \notin {"send", "accept"}
    BY <1>0, <1>2, <1>3 DEF Role
  <2>2. task[s][p]["I"] \in {"late", "ok"} \/ entry[s][p] = "pipe"
    BY <1>8, <2>1 DEF TaskCause, Moves, Waiting
  <2> QED BY <1>1, <1>5, <2>2
<1> QED BY <1>4, <1>6, <1>7, <1>8

\* Only the punching process sets the future of a punch, with its hole.
LEMMA PunchStep ==
  ASSUME TypeOK, NEW p \in Pid, Caused(p), Placed, Wired, PunchMet(p)
  PROVE  PunchMet(p)'
<1> SUFFICES ASSUME att[p].kind = "punch", NEW m \in Node,
                    entry'[m][p] = "pipe" \/ task'[m][p]["I"] \in {"late", "ok"}
    PROVE  p \in hole'
  BY DEF Caused, PunchMet
<1>1. entry[m][p] = "pipe" \/ task[m][p]["I"] \in {"late", "ok"} => p \in hole
  BY DEF PunchMet
<1>2. p \in hole => p \in hole'
  BY DEF Caused, Grows
<1>3. \A r \in Role : TaskCause(m, p, r) /\ PlaceOf(p, r, task[m][p][r])
  BY DEF Caused, Placed
<1>4. CASE entry'[m][p] = "pipe"
  <2>1. EntryCause(m, p) /\ <<m, p>> \notin conid
    BY DEF Caused, Wired
  <2> QED BY <1>1, <1>2, <1>3, <1>4, <2>1 DEF EntryCause, PlaceOf, Func
<1>5. CASE task'[m][p]["I"] \in {"late", "ok"}
  BY <1>1, <1>2, <1>3, <1>5 DEF TaskCause, Moves, PlaceOf, Func, Role, Waiting
<1> QED BY <1>4, <1>5

\* The messages of a relay start with the attempt, and go back once the handler
\* at the other node has accepted its peer.
LEMMA RelayStep ==
  ASSUME TypeOK, Involved, NEW p \in Pid, Caused(p), Placed, Wired, RelayMet(p)
  PROVE  RelayMet(p)'
<1> DEFINE s == att[p].src
           d == att[p].dst
<1> SUFFICES ASSUME att[p].kind = "relay"
    PROVE  RelayMet(p)'
  BY DEF Caused, RelayMet
<1>0. att[p] \in Attempt /\ s \in Node /\ d \in Node
  BY DEF TypeOK, Attempt, NoAttempt
<1>1. /\ \A m \in Node : <<m, p>> \in net \/ task[m][p]["H"] # "none"
                           => task[s][p]["I"] \notin {"none", "new", "setup"}
      /\ \A m \in Node : entry[m][p] = "pipe" => task[m][p]["H"] = "ok"
      /\ task[s][p]["I"] # "late"
      /\ task[s][p]["I"] = "ok" => task[s][p]["H"] = "ok"
      /\ task[s][p]["I"] \in {"await", "ok"} /\ task[s][p]["H"] = "ok"
           => turn[s][p] = "accepted"
  BY DEF RelayMet
<1>2. s # d =>
        /\ <<s, p>> \in net \/ task[s][p]["H"] # "none" => task[d][p]["H"] = "ok"
        /\ task[d][p]["H"] = "ok" => turn[d][p] = "accepted"
        /\ task[d][p]["H"] \in {"new", "setup", "accept"} => entry[d][p] # "absent"
        /\ entry[d][p] # "cancelled"
  BY DEF RelayMet
<1>3. \A n \in Node, r \in Role : TaskCause(n, p, r) /\ PlaceOf(p, r, task[n][p][r])
  BY DEF Caused, Placed
<1>4. \A n \in Node, r \in Role :
        /\ task[n][p][r] \notin {"open", "send", "predict"}
        /\ task[n][p][r] \in {"await", "lost", "late"} => r = "I"
        /\ task[n][p][r] = "accept" => r = "H"
        /\ task[n][p][r] # "none" => (n = s \/ n = d) /\ (r = "I" => n = s)
  BY <1>3 DEF PlaceOf, Func, Role, Involved, TasksBelong, Belongs
<1>5. \A n \in Node : <<n, p>> \notin conid /\ <<n, p>> \notin punching
  BY DEF Wired
<1>6. \A n \in Node : EntryCause(n, p) /\ NetCause(n, p) /\ TurnCause(n, p)
  BY DEF Caused
<1>7. \A n \in Node : task[n][p]["H"] = "ok" => task'[n][p]["H"] = "ok"
  BY <1>3, OkStays DEF Role
<1>8. att'[p] = att[p]
  BY DEF Caused
<1> HIDE DEF s, d
\* How a handler gets to its end, and the attempt to its wait.
<1>9. \A n \in Node : task'[n][p]["H"] = "ok" /\ task[n][p]["H"] # "ok"
                       => task[n][p]["H"] = "accept" /\ turn'[n][p] = "accepted"
  BY <1>3, <1>4 DEF TaskCause, Moves, Waiting, Role
<1>10. \A n \in Node : task'[n][p]["H"] # "none" => task[n][p]["H"] # "none" \/ <<n, p>> \in net
  BY <1>3 DEF TaskCause, Moves, Waiting, Role
<1>11. TaskCause(s, p, "I") /\ TaskCause(s, p, "H")
  BY <1>0, <1>3 DEF Role
<1>12. task[s][p]["I"] \notin {"none", "new", "setup"}
         => task'[s][p]["I"] \notin {"none", "new", "setup"}
  BY <1>11 DEF TaskCause, Moves, Waiting
<1>13. ASSUME NEW m \in Node, <<m, p>> \in net' \/ task'[m][p]["H"] # "none"
      PROVE  task'[s][p]["I"] \notin {"none", "new", "setup"}
  <2>1. CASE \E n \in Node : <<n, p>> \in net \/ task[n][p]["H"] # "none"
    BY <1>1, <1>12, <2>1
  <2>2. CASE ~ \E n \in Node : <<n, p>> \in net \/ task[n][p]["H"] # "none"
    BY <1>4, <1>6, <1>10, <1>13, <2>2 DEF NetCause, Role
  <2> QED BY <2>1, <2>2
<1>14. ASSUME NEW m \in Node, entry'[m][p] = "pipe" PROVE task'[m][p]["H"] = "ok"
  BY <1>1, <1>4, <1>5, <1>6, <1>7, <1>14 DEF EntryCause, Role
<1>15. task'[s][p]["I"] # "late"
  BY <1>0, <1>1, <1>11 DEF TaskCause, Moves, Waiting, Role
<1>16. task'[s][p]["I"] = "ok" => task'[s][p]["H"] = "ok"
  <2>1. task'[s][p]["I"] = "ok" => task[s][p]["I"] = "ok" \/ entry[s][p] = "pipe"
    BY <1>0, <1>1, <1>4, <1>11 DEF TaskCause, Moves, Waiting, Role
  <2> QED BY <1>0, <1>1, <1>7, <2>1
<1>17. ASSUME task'[s][p]["I"] \in {"await", "ok"}, task'[s][p]["H"] = "ok"
      PROVE  turn'[s][p] = "accepted"
  <2>1. CASE task[s][p]["H"] # "ok"
    BY <1>0, <1>9, <1>17, <2>1
  <2>2. CASE task[s][p]["H"] = "ok"
    <3>1. task[s][p]["I"] \notin {"none", "new", "setup"}
      BY <1>0, <1>1, <2>2
    <3>2. task[s][p]["I"] \in {"await", "ok"}
      BY <1>0, <1>1, <1>4, <1>11, <1>17, <3>1 DEF TaskCause, Moves, Waiting, Role
    <3> QED BY <1>0, <1>1, <1>6, <2>2, <3>2 DEF TurnCause, Role
  <2> QED BY <2>1, <2>2
<1>18. ASSUME s # d
      PROVE  /\ <<s, p>> \in net' \/ task'[s][p]["H"] # "none" => task'[d][p]["H"] = "ok"
             /\ task'[d][p]["H"] = "ok" => turn'[d][p] = "accepted"
             /\ task'[d][p]["H"] \in {"new", "setup", "accept"} => entry'[d][p] # "absent"
             /\ entry'[d][p] # "cancelled"
  <2>1. task[d][p]["I"] = "none" /\ TaskCause(d, p, "H")
    BY <1>0, <1>3, <1>4, <1>18 DEF Role
  <2>2. <<s, p>> \in net' => task'[d][p]["H"] = "ok"
    <3>1. CASE <<s, p>> \in net
      BY <1>0, <1>2, <1>7, <1>18, <3>1
    <3>2. ASSUME <<s, p>> \notin net, <<s, p>> \in net' PROVE task'[d][p]["H"] = "ok"
      <4>1. PICK m \in Node, r \in Role :
               /\ s = PeerOf(m, p)
               /\ \/ task[m][p][r] = "setup" /\ r = "I"
                  \/ /\ task[m][p][r] = "accept"
                     /\ entry[m][p] \in {"pending", "pipe"} => task'[m][p][r] = "ok"
        BY <1>0, <1>4, <1>6, <3>2 DEF NetCause
      <4>2. m = d /\ r = "H"
        BY <1>4, <1>18, <4>1 DEF PeerOf, s, d, Role
      <4>3. entry[d][p] \in {"pending", "pipe"}
        BY <1>0, <1>2, <1>18, <4>1, <4>2 DEF TypeOK, EntryState
      <4> QED BY <4>1, <4>2, <4>3
    <3> QED BY <3>1, <3>2
  <2>3. task'[s][p]["H"] # "none" => task'[d][p]["H"] = "ok"
    BY <1>0, <1>2, <1>7, <1>10, <1>18
  <2>4. task'[d][p]["H"] = "ok" => turn'[d][p] = "accepted"
    BY <1>0, <1>2, <1>6, <1>9, <1>18, <2>1 DEF TurnCause, Role
  <2>5. task'[d][p]["H"] \in {"new", "setup", "accept"} => entry'[d][p] # "absent"
    <3>1. task'[d][p]["H"] \in {"new", "setup", "accept"}
            => entry'[d][p] # "absent" \/ task[d][p]["H"] \in {"new", "setup", "accept"}
      BY <2>1 DEF TaskCause, Moves, Waiting
    <3> QED BY <1>0, <1>2, <1>6, <1>18, <2>1, <3>1 DEF EntryCause, Role
  <2>6. entry'[d][p] # "cancelled"
    BY <1>0, <1>2, <1>4, <1>6, <1>18, <2>1 DEF EntryCause, Role
  <2> QED BY <2>2, <2>3, <2>4, <2>5, <2>6
<1> QED BY <1>8, <1>13, <1>14, <1>15, <1>16, <1>17, <1>18 DEF RelayMet, s, d

\* Nothing was at either node for an ID that is drawn.
LEMMA DrawnMet ==
  ASSUME IInv, Relays, EntriesBelong, Wired, NEW n \in Node, NEW p \in Pid,
         StartAttempt(n, p) \/ NameResolves(n, p)
  PROVE  /\ Met(p)'
         /\ \A m \in Node, r \in Role : PlaceOf(p, r, task[m][p][r])'
         /\ \A m \in Node : <<m, p>> \notin conid' \cup sched' \cup punching'
<1> USE DEF IInv
<1>1. att[p] = NoAttempt /\ att[p] \notin Attempt
  BY DEF StartAttempt, NameResolves, NoAttempt, Attempt
<1>2. \A m \in Node : /\ \A r \in Role : task[m][p][r] = "none"
                      /\ <<m, p>> \notin net /\ <<m, p>> \notin conid
                      /\ entry[m][p] = "absent" /\ turn[m][p] = "none"
                      /\ <<m, p>> \notin sched \cup punching
  BY <1>1 DEF Involved, TasksBelong, MessagesBelong, Belongs, EntriesBelong, Relays, RelayOnly,
              Wired, NoAttempt
<1>3. UNCHANGED <<conid, turn, sched, punching>>
  BY DEF StartAttempt, NameResolves, signals, relays, punches
<1>4. EntryTo(n, p, "pending")
  BY EntrySetTo DEF StartAttempt, NameResolves
<1>5. PICK a \in Attempt : a.src = n /\ att' = [att EXCEPT ![p] = a]
  BY FreshActions DEF Fresh
<1>6. att'[p] = a
  BY <1>5 DEF TypeOK
<1>7. \E st \in {"new", "done", "await"} :
        TaskTo(n, p, "I", st) /\ (st = "await" => a.kind = "getaddr")
  <2>1. CASE StartAttempt(n, p)
    <3>1. PICK st \in {"new", "done"} : SetTask(n, p, "I", st)
      BY <2>1 DEF StartAttempt
    <3>2. TaskTo(n, p, "I", st)
      BY <3>1, SetTaskTo DEF Role
    <3> QED BY <3>2
  <2>2. CASE NameResolves(n, p)
    <3>1. TaskTo(n, p, "I", "await")
      BY <2>2, SetTaskTo DEF NameResolves, Role
    <3> QED BY <1>6, <2>2, <3>1 DEF NameResolves, TypeOK
  <2> QED BY <2>1, <2>2
<1>8. \A m \in Node : <<m, p>> \in net' => a.kind = "getaddr"
  BY <1>2, <1>6 DEF StartAttempt, NameResolves, SendTo, signals, TypeOK
<1>9. \A m \in Node, r \in Role : task'[m][p][r] # "none" =>
        m = a.src /\ r = "I" /\ task'[m][p][r] \in {"new", "done", "await"}
        /\ (task'[m][p][r] = "await" => a.kind = "getaddr")
  <2>1. PICK st \in {"new", "done", "await"} :
          TaskTo(n, p, "I", st) /\ (st = "await" => a.kind = "getaddr")
    BY <1>7
  <2>2. \A m \in Node, r \in Role : m # n \/ r # "I" => task'[m][p][r] = "none"
    <3> SUFFICES ASSUME NEW m \in Node, NEW r \in Role, m # n \/ r # "I"
        PROVE  task'[m][p][r] = "none"
      OBVIOUS
    <3>1. <<m, p, r>> # <<n, p, "I">>
      OBVIOUS
    <3>2. task'[m][p][r] = task[m][p][r]
      BY <2>1, <3>1 DEF TaskTo
    <3> QED BY <1>2, <3>2
  <2>3. task'[n][p]["I"] = st
    BY <2>1 DEF TaskTo
  <2> QED BY <1>5, <2>1, <2>2, <2>3
<1>10. \A m \in Node : entry'[m][p] \in {"absent", "pending"}
  BY <1>2, <1>4 DEF EntryTo
<1>11. a.src \in Node /\ a.dst \in Node
  BY DEF Attempt
<1>12. \A m \in Node, r \in Role : PlaceOf(p, r, task[m][p][r])'
  BY <1>6, <1>9 DEF PlaceOf, Func
<1>13. DirectMet(p)' /\ PunchMet(p)'
  BY <1>9, <1>10 DEF DirectMet, PunchMet, Role
<1>14. ReverseMet(p)'
  BY <1>2, <1>3, <1>6, <1>8, <1>9, <1>10, <1>11 DEF ReverseMet, Role
<1>15. RelayMet(p)'
  BY <1>2, <1>6, <1>8, <1>9, <1>10, <1>11 DEF RelayMet, Role
<1> QED BY <1>2, <1>3, <1>12, <1>13, <1>14, <1>15 DEF Met

\* Ends is inductive relative to the invariants before it.
LEMMA NextEnds == IInv /\ Relays /\ EntriesBelong /\ Ends /\ [Next]_vars => Ends'
<1> SUFFICES ASSUME IInv, Relays, EntriesBelong, Ends, [Next]_vars, NEW p \in Pid
    PROVE  /\ Met(p)'
           /\ \A n \in Node, r \in Role : PlaceOf(p, r, task[n][p][r])'
           /\ \A n \in Node :
                /\ <<n, p>> \in conid' => att'[p].kind \in {"direct", "reverse"}
                /\ <<n, p>> \in sched' \cup punching' => att'[p].kind = "punch"
  BY DEF Ends, Placed, Wired
<1> USE DEF IInv, Ends
<1>1. CASE Caused(p)
  <2>1. Met(p)'
    BY <1>1, DirectStep, ReverseStep, PunchStep, RelayStep DEF Met
  <2>2. \A n \in Node, r \in Role : PlaceOf(p, r, task[n][p][r])'
    BY <1>1, PlacedStep DEF Placed
  <2> QED BY <1>1, <2>1, <2>2, WiredStep
<1>2. CASE \E n \in Node : StartAttempt(n, p) \/ NameResolves(n, p)
  BY <1>2, DrawnMet
<1> QED BY <1>1, <1>2, NextCaused

\* A call makes its attempts one at a time.
LEMMA NextAttempt == IInv /\ OneAttempt /\ [Next]_vars => OneAttempt'
<1> SUFFICES ASSUME IInv, OneAttempt, [Next]_vars
    PROVE  OneAttempt'
  OBVIOUS
<1> USE DEF IInv
<1>1. ASSUME UNCHANGED <<pc, cur, att>> PROVE OneAttempt'
  BY <1>1 DEF OneAttempt
<1>2. ASSUME NEW n \in Node, NEW d \in Node, Connect(n, d) PROVE OneAttempt'
  BY <1>2 DEF Connect, OneAttempt, TypeOK
<1>3. ASSUME NEW n \in Node, NEW p \in Pid, AddrKnown(n, p) PROVE OneAttempt'
  BY <1>3 DEF AddrKnown, OneAttempt, TypeOK
<1>4. ASSUME NEW n \in Node, NameFails(n) \/ ConnectFails(n) PROVE OneAttempt'
  <2>1. pc'[n] = "failed" /\ (\A m \in Node : m # n => pc'[m] = pc[m]) /\ UNCHANGED <<cur, att>>
    BY <1>4 DEF NameFails, ConnectFails, TypeOK
  <2> QED BY <2>1 DEF OneAttempt
<1>5. ASSUME NEW n \in Node, NEW p \in Pid, StartAttempt(n, p) \/ NameResolves(n, p)
      PROVE  OneAttempt'
  <2>1. /\ cur' = [cur EXCEPT ![n] = {p}]
        /\ \A m \in Node : m # n => pc'[m] = pc[m]
        /\ pc'[n] \notin {"idle", "name"}
        /\ \A q \in Pid \ {p} : att'[q] = att[q]
        /\ pc'[n] = "loop" => att'[p].kind # "getaddr"
    <3>1. CASE StartAttempt(n, p)
      <4>1. Strategies[pos[n].s] \in Technique
        BY <3>1, NodeAssumption DEF StartAttempt, TypeOK, Position
      <4>2. att'[p].kind = Strategies[pos[n].s]
        BY <3>1 DEF StartAttempt, TypeOK
      <4> QED BY <3>1, <4>1, <4>2 DEF StartAttempt, LoopResumes, TypeOK, Technique
    <3>2. CASE NameResolves(n, p)
      BY <3>2 DEF NameResolves, TypeOK
    <3> QED BY <1>5, <3>1, <3>2
  <2>2. \A m \in Node : p \notin cur[m]
    BY <1>5 DEF StartAttempt, NameResolves, Involved, CallBelongs, TasksBelong, Belongs,
                Role, NoAttempt, Attempt
  <2>3. cur'[n] = {p} /\ \A m \in Node : m # n => cur'[m] = cur[m]
    BY <2>1 DEF TypeOK
  <2>4. \A m \in Node : cur[m] \subseteq Pid
    BY DEF TypeOK
  <2> QED BY <2>1, <2>2, <2>3, <2>4 DEF OneAttempt
<1>6. ASSUME NEW n \in Node, CallStep(n) PROVE OneAttempt'
  BY <1>3, <1>4, <1>5, <1>6 DEF CallStep
<1>7. ASSUME NEW n \in Node, NEW p \in Pid, Arrival(n, p) PROVE UNCHANGED <<pc, cur, att>>
  BY <1>7 DEF Arrival, Deliver, RecvConId, StartPunching, PunchReady, PunchFails, conn
<1>8. ASSUME NEW n \in Node, NEW p \in Pid, NEW r \in Role, TaskStep(n, p, r)
      PROVE  UNCHANGED <<pc, cur, att>>
  BY <1>8 DEF TaskStep, StartHandler, OpenPipe, SendConId, ReverseConnect, PipeArrives,
              PunchProto, TurnRelay, Timeout, Cleanup, TurnCleanup, conn
<1>9. ASSUME NEW n \in Node, NEW p \in Pid, NEW r \in Role, Outcome(n, p, r)
      PROVE  UNCHANGED <<pc, cur, att>>
  BY <1>9, AllocActions DEF Outcome, PipeOpened, PipeRefused, Predicted, PredictFails, TurnProgress,
              TurnReady, TurnUnavailable, TurnClosed, PeerAccepted, AcceptFails, conn
<1>10. ASSUME NEW p \in Pid, Punched(p) PROVE UNCHANGED <<pc, cur, att>>
  BY <1>10 DEF Punched, conn
<1>11. ASSUME UNCHANGED vars PROVE UNCHANGED <<pc, cur, att>>
  BY <1>11 DEF vars
<1> Callers \subseteq Node
  BY NodeAssumption DEF Callers
<1> HIDE DEF IInv
<1> QED BY <1>1, <1>2, <1>6, <1>7, <1>8, <1>9, <1>10, <1>11 DEF Next

LEMMA SpecEnds == Spec => [](IInv /\ Relays /\ EntriesBelong /\ Ends /\ OneAttempt)
<1>1. Init => Relays /\ EntriesBelong /\ Ends /\ OneAttempt
  <2> SUFFICES ASSUME Init PROVE Relays /\ EntriesBelong /\ Ends /\ OneAttempt
    OBVIOUS
  <2>1. Relays /\ EntriesBelong /\ OneAttempt
    BY DEF Init, Relays, LookupOnly, RelayOnly, RelayHeld, InTable, EntriesBelong, OneAttempt
  <2>2. Placed /\ Wired
    BY DEF Init, Placed, PlaceOf, Wired
  <2>3. \A p \in Pid : att[p].kind = "none" /\ Func(p, "H") = "none" /\ Func(p, "I") = "none"
    BY DEF Init, NoAttempt, Func
  <2>4. \A p \in Pid : Met(p)
    BY <2>3 DEF Met, DirectMet, ReverseMet, PunchMet, RelayMet, Role
  <2> QED BY <2>1, <2>2, <2>4 DEF Ends
<1>2. IInv /\ EntriesBelong /\ [Next]_vars => EntriesBelong'
  BY NextSettles
<1> QED BY <1>1, <1>2, InitInv, NextInv, NextRelays, NextEnds, NextAttempt, PTL DEF Spec

\* When connect returns a pipe the other node holds its end of it, whatever the
\* order of messages, time limits and clean-ups at the two nodes was.
THEOREM BothEndsAreReady == Spec => []BothEndsReady
<1>1. IInv /\ Ends /\ OneAttempt => BothEndsReady
  <2> SUFFICES ASSUME IInv, Ends, OneAttempt, NEW n \in Callers, Connected(n), NEW p \in cur[n]
      PROVE  EndsReady(n, p)
    BY DEF BothEndsReady
  <2>1. n \in Node /\ p \in Pid
    BY NodeAssumption DEF Callers, IInv, TypeOK
  <2>2. pc[n] = "loop" /\ task[n][p]["I"] = "ok"
    BY <2>1 DEF Connected, OneAttempt
  <2>3. att[p] \in Attempt /\ n = att[p].src /\ att[p].kind # "getaddr"
    BY <2>1, <2>2 DEF IInv, Involved, TasksBelong, Belongs, OneAttempt, Role
  <2>4. att[p].kind \in Technique /\ att[p].dst \in Node /\ Func(p, "I") = att[p].kind
    BY <2>3 DEF Attempt, Func
  <2>5. Met(p)
    BY <2>1 DEF Ends
  <2>6. CASE att[p].kind = "direct"
    BY <2>1, <2>2, <2>3, <2>4, <2>5, <2>6 DEF EndsReady, Met, DirectMet, PeerOf, Role
  <2>7. CASE att[p].kind = "reverse"
    BY <2>1, <2>2, <2>3, <2>4, <2>5, <2>7 DEF EndsReady, Met, ReverseMet
  <2>8. CASE att[p].kind = "punch"
    BY <2>1, <2>2, <2>5, <2>8 DEF EndsReady, Met, PunchMet
  <2>9. CASE att[p].kind = "relay"
    BY <2>1, <2>2, <2>3, <2>4, <2>5, <2>9 DEF EndsReady, Met, RelayMet
  <2> QED BY <2>4, <2>6, <2>7, <2>8, <2>9 DEF Technique
<1> QED BY <1>1, SpecEnds, PTL

-----------------------------------------------------------------------------
(***************************************************************************)
(* Clients that are being made.  While a task may still make one there is  *)
(* none in the table: a message that could put one there, at the same node *)
(* and for the same ID, follows the attempt's own client (RelayMet).       *)
(***************************************************************************)
TableFree(p) ==
  \A n \in Node : /\ task[n][p]["I"] \in {"new", "setup"} => turn[n][p] = "none"
                  /\ task[n][p]["H"] = "setup" => turn[n][p] = "none"
Making ==
  /\ \A p \in Pid : TableFree(p)
  /\ \A n \in Node, p \in Pid, r \in Role : <<n, p, r>> \in alloc => task[n][p][r] = "setup"

\* Only a task that makes a client allocates a relay for it.
LEMMA AllocGrows ==
  ASSUME [Next]_vars, NEW n \in Node, NEW p \in Pid, NEW r \in Role, <<n, p, r>> \in alloc'
  PROVE  <<n, p, r>> \in alloc \/ task'[n][p][r] = "setup"
<1> USE DEF conn, signals, relays, punches
<1>1. CASE UNCHANGED vars
  BY <1>1 DEF vars
<1>2. ASSUME NEW m \in Node, NEW q \in Pid, NEW x \in Role, Outcome(m, q, x)
      PROVE  <<n, p, r>> \in alloc \/ task'[n][p][r] = "setup"
  BY <1>2 DEF Outcome, TurnProgress, PipeOpened, PipeRefused, Predicted, PredictFails,
              TurnAllocates, TurnDropped, TurnReady, TurnUnavailable, TurnClosed,
              PeerAccepted, AcceptFails
<1>3. ASSUME NEW m \in Node, NEW q \in Pid, NEW x \in Role, TaskStep(m, q, x)
      PROVE  <<n, p, r>> \in alloc
  BY <1>3 DEF TaskStep, StartHandler, OpenPipe, SendConId, ReverseConnect, PipeArrives,
              PunchProto, TurnRelay, Timeout, Cleanup, TurnCleanup
<1>4. ASSUME NEW m \in Node, NEW q \in Pid, Arrival(m, q)
      PROVE  <<n, p, r>> \in alloc
  BY <1>4 DEF Arrival, Deliver, RecvConId, StartPunching, PunchReady, PunchFails
<1>5. ASSUME NEW m \in Callers, CallStep(m)
      PROVE  <<n, p, r>> \in alloc
  BY <1>5 DEF CallStep, NameFails, NameResolves, AddrKnown, StartAttempt, ConnectFails
<1>6. ASSUME NEW m \in Node, NEW d \in Node, Connect(m, d)
      PROVE  <<n, p, r>> \in alloc
  BY <1>6 DEF Connect
<1>7. ASSUME NEW q \in Pid, Punched(q)
      PROVE  <<n, p, r>> \in alloc
  BY <1>7 DEF Punched
<1> QED BY <1>1, <1>2, <1>3, <1>4, <1>5, <1>6, <1>7 DEF Next

\* The table stays free for the tasks that make a client for an ID.
LEMMA FreeStep ==
  ASSUME TypeOK, Involved, NEW p \in Pid, Caused(p), Placed, RelayMet(p), TableFree(p)
  PROVE  TableFree(p)'
<1>1. ASSUME NEW n \in Node
      PROVE  /\ TaskCause(n, p, "I") /\ TaskCause(n, p, "H") /\ TurnCause(n, p)
             /\ PlaceOf(p, "I", task[n][p]["I"]) /\ PlaceOf(p, "H", task[n][p]["H"])
  BY DEF Caused, Placed, Role
\* A handler runs only after the attempt made its client.
<1>2. ASSUME NEW n \in Node, task[n][p]["I"] \in {"new", "setup"}, att[p].kind = "relay"
      PROVE  task[n][p]["H"] = "none"
  BY <1>2 DEF RelayMet, Involved, TasksBelong, Belongs, Role
<1>4. ASSUME NEW n \in Node, task'[n][p]["I"] \in {"new", "setup"}
      PROVE  task[n][p]["I"] \in {"new", "setup"}
  BY <1>1, <1>4 DEF TaskCause, Moves, Waiting
<1>5. ASSUME NEW n \in Node, task'[n][p]["H"] = "setup"
      PROVE  \/ task[n][p]["H"] = "setup"
             \/ task[n][p]["H"] = "new" /\ turn[n][p] = "none" /\ att[p].kind = "relay"
  BY <1>1, <1>5 DEF TaskCause, Moves, Waiting
\* The table is filled by the task that leaves its making of a client.
<1>6. ASSUME NEW n \in Node, turn[n][p] = "none", turn'[n][p] # "none"
      PROVE  \E r \in Role : /\ task[n][p][r] = "setup"
                             /\ task'[n][p][r] \in {"failed", "await", "accept"}
  BY <1>1, <1>6 DEF TurnCause
<1>7. ASSUME NEW n \in Node, task'[n][p]["I"] \in {"new", "setup"}
      PROVE  turn'[n][p] = "none"
  <2>1. task[n][p]["I"] \in {"new", "setup"} /\ turn[n][p] = "none"
    BY <1>4, <1>7 DEF TableFree
  <2>2. ~ (task[n][p]["H"] = "setup")
    BY <1>1, <1>2, <2>1 DEF PlaceOf
  <2> QED BY <1>6, <1>7, <2>1, <2>2 DEF Role
<1>8. ASSUME NEW n \in Node, task'[n][p]["H"] = "setup"
      PROVE  turn'[n][p] = "none"
  <2>1. turn[n][p] = "none" /\ task[n][p]["H"] # "none" /\ att[p].kind = "relay"
    BY <1>1, <1>5, <1>8 DEF TableFree, PlaceOf
  <2>2. task[n][p]["I"] # "setup"
    BY <1>2, <2>1
  <2> QED BY <1>6, <1>8, <2>1, <2>2 DEF Role
<1> QED BY <1>7, <1>8 DEF TableFree

\* A task that holds a client does nothing but make it.
LEMMA AllocStep ==
  ASSUME TypeOK, NEW p \in Pid, Caused(p), Placed, NEW n \in Node, NEW r \in Role,
         <<n, p, r>> \in alloc', task[n][p][r] = "setup"
  PROVE  task'[n][p][r] = "setup"
<1>1. TaskCause(n, p, r) /\ att[p].kind = "relay"
  BY DEF Caused, Placed, PlaceOf
<1> QED BY <1>1 DEF TaskCause, Moves, Waiting

LEMMA NextMaking ==
  IInv /\ Relays /\ EntriesBelong /\ Ends /\ Making /\ [Next]_vars => Making'
<1> SUFFICES ASSUME IInv, Relays, EntriesBelong, Ends, Making, [Next]_vars, NEW p \in Pid
    PROVE  /\ TableFree(p)'
           /\ \A n \in Node, r \in Role : <<n, p, r>> \in alloc' => task'[n][p][r] = "setup"
  BY DEF Making
<1> USE DEF IInv
<1>1. CASE Caused(p)
  <2>1. TableFree(p)'
    BY <1>1, FreeStep DEF Making, Ends, Met
  <2>2. ASSUME NEW n \in Node, NEW r \in Role, <<n, p, r>> \in alloc'
        PROVE  task'[n][p][r] = "setup"
    <3>1. CASE <<n, p, r>> \in alloc
      BY <1>1, <2>2, <3>1, AllocStep DEF Making, Ends
    <3> QED BY <2>2, <3>1, AllocGrows
  <2> QED BY <2>1, <2>2
<1>2. ASSUME NEW m \in Node, StartAttempt(m, p) \/ NameResolves(m, p)
      PROVE  /\ TableFree(p)'
             /\ \A n \in Node, r \in Role : <<n, p, r>> \in alloc' => task'[n][p][r] = "setup"
  <2>1. att[p] \notin Attempt /\ UNCHANGED <<turn, alloc>>
    BY <1>2 DEF StartAttempt, NameResolves, NoAttempt, Attempt, relays
  <2>2. \A n \in Node : turn[n][p] = "none"
    BY <2>1 DEF Relays, RelayOnly
  <2>3. \A n \in Node, r \in Role : <<n, p, r>> \notin alloc
    BY <2>1 DEF Making, Involved, TasksBelong, Belongs
  <2> QED BY <2>1, <2>2, <2>3 DEF TableFree
<1> QED BY <1>1, <1>2, NextCaused

\* However a relay attempt fails, on either node and whatever its messages and
\* time limits do, the client it has put in the table is cleaned up by a task,
\* and no client is put over another one.
THEOREM RelaysStayInReach == Spec => []RelaysInReach
<1>1. Init => Making
  BY DEF Init, Making, TableFree
<1>2. Relays /\ Making => RelaysInReach
  <2> SUFFICES ASSUME Relays, Making, NEW n \in Node, NEW p \in Pid
      PROVE  /\ turn[n][p] \in {"client", "accepted"} =>
                  \E r \in Role : task[n][p][r] \notin {"none", "done"}
             /\ \A r \in Role :
                  <<n, p, r>> \in alloc => task[n][p][r] = "setup" /\ turn[n][p] = "none"
    BY DEF RelaysInReach
  <2>1. turn[n][p] \in {"client", "accepted"} =>
          \E r \in Role : task[n][p][r] \notin {"none", "done"}
    BY DEF Relays, RelayHeld, Holding, InTable
  <2>2. ASSUME NEW r \in Role, <<n, p, r>> \in alloc
        PROVE  task[n][p][r] = "setup" /\ turn[n][p] = "none"
    BY <2>2 DEF Making, TableFree, Role
  <2> QED BY <2>1, <2>2
<1> QED BY <1>1, <1>2, SpecEnds, NextMaking, PTL DEF Spec

-----------------------------------------------------------------------------
(***************************************************************************)
(* The call.  A call that makes an attempt has seen the end of every one   *)
(* before it; a step that is not of a call moves the tasks of one ID only. *)
(***************************************************************************)
Tries ==
  \A p \in Pid : att[p].kind \in Technique =>
    LET n == att[p].src IN
    /\ n \in Callers
    /\ pc[n] \in {"loop", "failed"}
    /\ (p \in cur[n] /\ pc[n] = "loop") \/ task[n][p]["I"] = "done"

\* What a step of the two nodes does for the calls.
OneMoves ==
  /\ UNCHANGED <<pc, cur, att>>
  /\ \A q \in Pid : Caused(q)
  /\ UNCHANGED task \/ \E p \in Pid : \A n \in Node, q \in Pid \ {p} : task'[n][q] = task[n][q]

\* A step that sets a task or cleans up moves the tasks of one ID.
LEMMA OneTask ==
  ASSUME TypeOK, NEW n \in Node, NEW p \in Pid, NEW r \in Role,
         (\E x \in Role : \E st : SetTask(n, p, x, st)) \/ Remove(n, p, r)
  PROVE  \A m \in Node, q \in Pid \ {p} : task'[m][q] = task[m][q]
<1>1. ASSUME NEW x \in Role, NEW st, SetTask(n, p, x, st)
      PROVE  \A m \in Node, q \in Pid \ {p} : task'[m][q] = task[m][q]
  BY <1>1 DEF SetTask, TypeOK
<1>2. ASSUME NEW new, task' = [task EXCEPT ![n][p] = new]
      PROVE  \A m \in Node, q \in Pid \ {p} : task'[m][q] = task[m][q]
  BY <1>2 DEF TypeOK
<1>3. CASE Remove(n, p, r)
  <2> DEFINE new == [q \in Role |-> IF q = r THEN "done" ELSE Orphan(n, p, task[n][p][q])]
  <2>1. task' = [task EXCEPT ![n][p] = new]
    BY <1>3 DEF Remove
  <2> HIDE DEF new
  <2> QED BY <1>2, <2>1
<1> QED BY <1>1, <1>3

LEMMA NextMoves ==
  ASSUME IInv, Relays, [Next]_vars
  PROVE  \/ \E n, d \in Node : Connect(n, d)
         \/ \E n \in Callers : CallStep(n)
         \/ OneMoves
<1> USE DEF IInv
<1>1. ASSUME UNCHANGED vars PROVE OneMoves
  BY <1>1, IdleCaused DEF vars, OneMoves
<1>2. ASSUME NEW n \in Node, NEW p \in Pid, Arrival(n, p) PROVE OneMoves
  <2>1. \A q \in Pid : Caused(q)
    BY <1>2, ArrivalCaused
  <2>2. UNCHANGED task \/ \E x \in Role : \E st : SetTask(n, p, x, st)
    BY <1>2 DEF Arrival, Deliver, RecvConId, StartPunching, PunchReady, PunchFails, Role
  <2>3. UNCHANGED <<pc, cur, att>>
    BY <1>2 DEF Arrival, Deliver, RecvConId, StartPunching, PunchReady, PunchFails, conn
  <2> QED BY <2>1, <2>2, <2>3, OneTask DEF OneMoves, Role
<1>3. ASSUME NEW n \in Node, NEW p \in Pid, NEW r \in Role, TaskStep(n, p, r) PROVE OneMoves
  <2>1. \A q \in Pid : Caused(q)
    BY <1>3, TaskCaused
  <2>2. UNCHANGED task \/ (\E x \in Role : \E st : SetTask(n, p, x, st)) \/ Remove(n, p, r)
    BY <1>3 DEF TaskStep, StartHandler, OpenPipe, SendConId, ReverseConnect, PipeArrives,
                PunchProto, TurnRelay, Timeout, Cleanup, TurnCleanup, Role
  <2>3. UNCHANGED <<pc, cur, att>>
    BY <1>3 DEF TaskStep, StartHandler, OpenPipe, SendConId, ReverseConnect, PipeArrives,
                PunchProto, TurnRelay, Timeout, Cleanup, TurnCleanup, conn
  <2> QED BY <2>1, <2>2, <2>3, OneTask DEF OneMoves
<1>4. ASSUME NEW n \in Node, NEW p \in Pid, NEW r \in Role, Outcome(n, p, r) PROVE OneMoves
  <2>1. \A q \in Pid : Caused(q)
    BY <1>4, OutcomeCaused
  <2>2. UNCHANGED task \/ (\E x \in Role : \E st : SetTask(n, p, x, st)) \/ Remove(n, p, r)
    BY <1>4, AllocActions DEF Outcome, PipeOpened, PipeRefused, Predicted, PredictFails, TurnProgress,
                TurnReady, TurnUnavailable, TurnClosed, PeerAccepted, AcceptFails
  <2>3. UNCHANGED <<pc, cur, att>>
    BY <1>4, AllocActions DEF Outcome, PipeOpened, PipeRefused, Predicted, PredictFails, TurnProgress,
                TurnReady, TurnUnavailable, TurnClosed, PeerAccepted, AcceptFails, conn
  <2> QED BY <2>1, <2>2, <2>3, OneTask DEF OneMoves
<1>5. ASSUME NEW p \in Pid, Punched(p) PROVE OneMoves
  BY <1>5, IdleCaused DEF Punched, conn, signals, relays, OneMoves
<1> HIDE DEF IInv
<1> QED BY <1>1, <1>2, <1>3, <1>4, <1>5 DEF Next
\* Drawing an ID leaves all others, and the other calls, alone.
LEMMA DrawStep ==
  ASSUME IInv, NEW n \in Node, NEW p \in Pid, StartAttempt(n, p) \/ NameResolves(n, p)
  PROVE  /\ att[p] = NoAttempt /\ (\A m \in Node : p \notin cur[m])
         /\ att'[p].src = n /\ (\A q \in Pid : q # p => att'[q] = att[q])
         /\ cur'[n] = {p} /\ (\A m \in Node : m # n => pc'[m] = pc[m] /\ cur'[m] = cur[m])
         /\ \A m \in Node, q \in Pid, r \in Role :
              <<m, q, r>> # <<n, p, "I">> => task'[m][q][r] = task[m][q][r]
<1> USE DEF IInv
<1>1. att[p] = NoAttempt
  BY DEF StartAttempt, NameResolves
<1>2. \A m \in Node : p \notin cur[m]
  BY <1>1 DEF Involved, CallBelongs, TasksBelong, Belongs, Role, NoAttempt, Attempt
<1>3. /\ cur' = [cur EXCEPT ![n] = {p}]
      /\ \E a \in Attempt : a.src = n /\ att' = [att EXCEPT ![p] = a]
  BY FreshActions DEF Fresh
<1>4. pc' = [pc EXCEPT ![n] = pc'[n]]
  BY DEF StartAttempt, NameResolves, TypeOK
<1>5. PICK st : TaskTo(n, p, "I", st)
  BY SetTaskTo DEF StartAttempt, NameResolves, Role
<1> QED BY <1>1, <1>2, <1>3, <1>4, <1>5 DEF TypeOK, TaskTo

\* An ended attempt stays ended, and only the loop over techniques leaves one.
LEMMA NextTries == IInv /\ Relays /\ OneAttempt /\ Tries /\ [Next]_vars => Tries'
<1> SUFFICES ASSUME IInv, Relays, OneAttempt, Tries, [Next]_vars,
                    NEW p \in Pid, att'[p].kind \in Technique
    PROVE  LET n == att'[p].src IN
           /\ n \in Callers
           /\ pc'[n] \in {"loop", "failed"}
           /\ (p \in cur'[n] /\ pc'[n] = "loop") \/ task'[n][p]["I"] = "done"
  BY DEF Tries
<1> USE DEF IInv
<1> Callers \subseteq Node
  BY NodeAssumption DEF Callers
<1> DEFINE s == att[p].src
           Tried == /\ s \in Callers
                    /\ pc[s] \in {"loop", "failed"}
                    /\ (p \in cur[s] /\ pc[s] = "loop") \/ task[s][p]["I"] = "done"
<1>1. att[p].kind \in Technique => Tried
  BY DEF Tries
<1>2. CASE OneMoves
  <2>1. att'[p] = att[p] /\ Tried /\ UNCHANGED <<pc, cur>>
    BY <1>1, <1>2 DEF OneMoves
  <2>2. TaskCause(s, p, "I")
    BY <1>2, <2>1 DEF OneMoves, Caused, Role
  <2>3. task[s][p]["I"] = "done" => task'[s][p]["I"] = "done"
    BY <2>1, <2>2 DEF TaskCause, Moves, Waiting, Technique
  <2> QED BY <2>1, <2>3
<1>3. ASSUME NEW n \in Node, NEW d \in Node, Connect(n, d) PROVE Tried' /\ att'[p] = att[p]
  BY <1>1, <1>3 DEF Connect, TypeOK
<1>4. ASSUME NEW n \in Callers, CallStep(n), att'[p] = att[p],
             task'[s][p]["I"] = task[s][p]["I"]
      PROVE  Tried'
  <2>1. Tried
    BY <1>1, <1>4
  <2>2. CASE s # n
    <3>1. pc'[s] = pc[s] /\ cur'[s] = cur[s]
      BY <1>4, <2>1, <2>2
         DEF CallStep, NameFails, NameResolves, AddrKnown, StartAttempt, ConnectFails, TypeOK
    <3> QED BY <1>4, <2>1, <3>1
  <2>3. CASE s = n
    <3>1. pc[n] = "loop" /\ pc'[n] \in {"loop", "failed"} /\ LoopResumes(n)
      BY <1>4, <2>1, <2>3
         DEF CallStep, NameFails, NameResolves, AddrKnown, StartAttempt, ConnectFails,
             LoopResumes, TypeOK
    <3>2. task[n][p]["I"] = "done"
      BY <2>1, <2>3, <3>1 DEF LoopResumes
    <3> QED BY <1>4, <2>1, <2>3, <3>1, <3>2
  <2> QED BY <2>2, <2>3
<1>5. ASSUME NEW n \in Callers, CallStep(n) PROVE Tried'
  <2>1. CASE NameFails(n) \/ ConnectFails(n)
    BY <1>4, <1>5, <2>1 DEF NameFails, ConnectFails
  <2>2. ASSUME NEW q \in Pid, AddrKnown(n, q) PROVE Tried'
    <3>1. att' = att /\ att[q].kind = "getaddr" /\ q # p
      BY <2>2 DEF AddrKnown, Relays, LookupOnly, Technique
    <3>2. \E st : TaskTo(n, q, "I", st)
      BY <2>2, SetTaskTo DEF AddrKnown, Role
    <3>3. s \in Node
      BY <1>1, <3>1
    <3>4. task'[s][p]["I"] = task[s][p]["I"]
      BY <3>1, <3>2, <3>3 DEF TaskTo, Role
    <3> QED BY <1>4, <1>5, <3>1, <3>4
  <2>3. ASSUME NEW q \in Pid, StartAttempt(n, q) \/ NameResolves(n, q) PROVE Tried'
    <3>1. CASE q = p
      <4>1. StartAttempt(n, p)
        BY <2>3, <3>1 DEF NameResolves, TypeOK, Technique
      <4>2. pc'[n] = "loop"
        BY <4>1 DEF StartAttempt, LoopResumes
      <4> QED BY <2>3, <3>1, <4>1, <4>2, DrawStep
    <3>2. CASE q # p
      <4>1. att'[p] = att[p] /\ s \in Node
        BY <1>1, <2>3, <3>2, DrawStep
      <4>2. task'[s][p]["I"] = task[s][p]["I"]
        BY <2>3, <3>2, <4>1, DrawStep DEF Role
      <4> QED BY <1>4, <1>5, <4>1, <4>2
    <3> QED BY <3>1, <3>2
  <2> QED BY <1>5, <2>1, <2>2, <2>3 DEF CallStep
<1> HIDE DEF IInv
<1> QED BY <1>2, <1>3, <1>5, NextMoves DEF Tries

-----------------------------------------------------------------------------
(***************************************************************************)
(* The refinement.  Per caller and per ID: what the call and the attempt   *)
(* are for the application (module ConnectCall) before and after a step.   *)
(***************************************************************************)
Owner(p) == IF att[p].kind \in {"none", "getaddr"} THEN {} ELSE {att[p].src}
OtherCalls(n) == \A m \in Callers \ {n} : CallStatus(m)' = CallStatus(m)
OtherIds(p) == \A q \in Pid \ {p} : /\ AttemptStatus(q)' = AttemptStatus(q)
                                    /\ Owner(q)' = Owner(q)
Over(n) == \A p \in Pid : n \in Owner(p) => AttemptStatus(p) = "lost"

\* The steps of ConnectCall, point by point.
LEMMA Stutters ==
  ASSUME \A n \in Callers : CallStatus(n)' = CallStatus(n),
         \A p \in Pid : AttemptStatus(p)' = AttemptStatus(p) /\ Owner(p)' = Owner(p)
  PROVE  UNCHANGED Call!cvars
BY DEF Call!cvars, Owner

LEMMA Begins ==
  ASSUME NEW n \in Callers, CallStatus(n) = "idle", CallStatus(n)' = "running", OtherCalls(n),
         \A p \in Pid : AttemptStatus(p)' = AttemptStatus(p) /\ Owner(p)' = Owner(p)
  PROVE  Call!CallNext
<1>1. Call!Begin(n)
  BY DEF Call!Begin, Owner, OtherCalls
<1> QED BY <1>1 DEF Call!CallNext

LEMMA GivesUp ==
  ASSUME NEW n \in Callers, CallStatus(n) = "running", CallStatus(n)' = "failed", OtherCalls(n),
         Over(n),
         \A p \in Pid : AttemptStatus(p)' = AttemptStatus(p) /\ Owner(p)' = Owner(p)
  PROVE  Call!CallNext
<1>1. Call!GiveUp(n)
  BY DEF Call!GiveUp, Call!Mine, Owner, OtherCalls, Over
<1> QED BY <1>1 DEF Call!CallNext

LEMMA TriesOnce ==
  ASSUME NEW n \in Callers, NEW p \in Pid, CallStatus(n) = "running", Over(n),
         AttemptStatus(p) = "unused", AttemptStatus(p)' \in {"trying", "lost"},
         Owner(p)' = {n}, OtherIds(p), \A m \in Callers : CallStatus(m)' = CallStatus(m)
  PROVE  Call!CallNext
<1>1. Call!Try(n, p)
  BY DEF Call!Try, Call!Mine, Owner, OtherIds, Over
<1> QED BY <1>1 DEF Call!CallNext

LEMMA Loses ==
  ASSUME NEW n \in Callers, NEW p \in Pid, Owner(p) = {n}, Owner(p)' = {n}, OtherIds(p),
         AttemptStatus(p) = "trying", AttemptStatus(p)' = "lost",
         \A m \in Callers : CallStatus(m)' = CallStatus(m)
  PROVE  Call!CallNext
<1>1. Call!Lose(n, p)
  BY DEF Call!Lose, Owner, OtherIds
<1> QED BY <1>1 DEF Call!CallNext

LEMMA Wins ==
  ASSUME NEW n \in Callers, NEW p \in Pid, Owner(p) = {n}, Owner(p)' = {n}, OtherIds(p),
         AttemptStatus(p) = "trying", AttemptStatus(p)' = "won",
         CallStatus(n) = "running", CallStatus(n)' = "connected", OtherCalls(n)
  PROVE  Call!CallNext
<1>1. Call!Win(n, p)
  BY DEF Call!Win, Owner, OtherIds, OtherCalls
<1> QED BY <1>1 DEF Call!CallNext

\* A call whose loop goes on has no pipe, and nothing it tries.
LEMMA LoopOver ==
  ASSUME IInv, OneAttempt, Tries, NEW n \in Callers,
         LoopResumes(n) \/ pc[n] \in {"idle", "name", "addr"}
  PROVE  ~Connected(n) /\ Over(n)
<1> Callers \subseteq Node
  BY NodeAssumption DEF Callers
<1>1. ~Connected(n)
  BY DEF LoopResumes, Connected
<1>2. ASSUME NEW p \in Pid, n \in Owner(p) PROVE AttemptStatus(p) = "lost"
  <2>1. att[p].kind \notin {"none", "getaddr"} /\ att[p].src = n
    BY <1>2 DEF Owner
  <2>2. att[p].kind \in Technique
    BY <2>1 DEF IInv, TypeOK, Attempt, NoAttempt
  <2>3. task[n][p]["I"] = "done"
    BY <2>1, <2>2 DEF Tries, LoopResumes
  <2> QED BY <2>1, <2>3 DEF AttemptStatus
<1> QED BY <1>1, <1>2 DEF Over

\* What a call's status is made of.
LEMMA CallKeeps ==
  ASSUME NEW m, pc'[m] = pc[m], cur'[m] = cur[m],
         \A q \in cur[m] : task'[m][q]["I"] = "ok" <=> task[m][q]["I"] = "ok"
  PROVE  CallStatus(m)' = CallStatus(m)
<1>1. Connected(m)' <=> Connected(m)
  BY DEF Connected
<1> QED BY <1>1 DEF CallStatus

LEMMA StatusKeeps ==
  ASSUME NEW p, att'[p] = att[p],
         att[p].kind \notin {"none", "getaddr"} =>
           task'[att[p].src][p]["I"] = task[att[p].src][p]["I"]
  PROVE  AttemptStatus(p)' = AttemptStatus(p) /\ Owner(p)' = Owner(p)
BY DEF AttemptStatus, Owner

\* The steps of a call.
LEMMA CallAbstract ==
  ASSUME IInv, Relays, OneAttempt, Tries, NEW n \in Callers, CallStep(n)
  PROVE  Call!CallNext \/ UNCHANGED Call!cvars
<1> USE DEF IInv
<1> Callers \subseteq Node
  BY NodeAssumption DEF Callers
<1>0. \A q \in Pid : att[q].kind \notin {"none", "getaddr"} => att[q].src \in Node
  BY DEF TypeOK, Attempt, NoAttempt
<1>1. CASE NameFails(n) \/ ConnectFails(n)
  <2>1. /\ pc[n] \in {"name", "loop"} /\ (LoopResumes(n) \/ pc[n] = "name")
        /\ pc'[n] = "failed" /\ (\A m \in Node : m # n => pc'[m] = pc[m])
        /\ UNCHANGED <<cur, att, task>>
    BY <1>1 DEF NameFails, ConnectFails, LoopResumes, TypeOK
  <2>2. \A p \in Pid : AttemptStatus(p)' = AttemptStatus(p) /\ Owner(p)' = Owner(p)
    BY <2>1, StatusKeeps
  <2>3. OtherCalls(n)
    BY <2>1, CallKeeps DEF OtherCalls
  <2>4. CallStatus(n) = "running" /\ CallStatus(n)' = "failed"
    BY <2>1, LoopOver DEF CallStatus
  <2> QED BY <2>1, <2>2, <2>3, <2>4, LoopOver, GivesUp
<1>2. ASSUME NEW p \in Pid, AddrKnown(n, p) PROVE UNCHANGED Call!cvars
  <2>1. /\ pc[n] = "addr" /\ pc'[n] = "loop" /\ cur'[n] = {} /\ att[p].kind = "getaddr"
        /\ (\A m \in Node : m # n => pc'[m] = pc[m] /\ cur'[m] = cur[m])
        /\ UNCHANGED att
    BY <1>2 DEF AddrKnown, TypeOK, Relays, LookupOnly
  <2>2. \A m \in Node, q \in Pid : m # n \/ q # p => task'[m][q]["I"] = task[m][q]["I"]
    <3>1. PICK st : TaskTo(n, p, "I", st)
      BY <1>2, SetTaskTo DEF AddrKnown, Role
    <3> QED BY <3>1 DEF TaskTo, Role
  <2>3. ASSUME NEW q \in Pid
        PROVE  AttemptStatus(q)' = AttemptStatus(q) /\ Owner(q)' = Owner(q)
    BY <1>0, <2>1, <2>2, StatusKeeps
  <2>4. ASSUME NEW m \in Callers PROVE CallStatus(m)' = CallStatus(m)
    <3>1. CASE m = n
      BY <2>1, <3>1 DEF CallStatus, Connected
    <3>2. CASE m # n
      <4>1. \A q \in cur[m] : task'[m][q]["I"] = task[m][q]["I"]
        BY <2>2, <3>2 DEF TypeOK
      <4> QED BY <2>1, <3>2, <4>1, CallKeeps
    <3> QED BY <3>1, <3>2
  <2> QED BY <2>3, <2>4, Stutters
<1>3. ASSUME NEW p \in Pid, StartAttempt(n, p) \/ NameResolves(n, p)
      PROVE  Call!CallNext \/ UNCHANGED Call!cvars
  <2>1. /\ att[p] = NoAttempt /\ att'[p].src = n /\ (\A q \in Pid : q # p => att'[q] = att[q])
        /\ (\A m \in Node : p \notin cur[m]) /\ cur'[n] = {p}
        /\ (\A m \in Node : m # n => pc'[m] = pc[m] /\ cur'[m] = cur[m])
    BY <1>3, DrawStep
  <2>2. \A m \in Node, q \in Pid : m # n \/ q # p => task'[m][q]["I"] = task[m][q]["I"]
    BY <1>3, DrawStep DEF Role
  <2>3. OtherIds(p)
    BY <1>0, <2>1, <2>2, StatusKeeps DEF OtherIds
  <2>4. OtherCalls(n)
    <3>1. \A m \in Callers \ {n} : \A q \in cur[m] : task'[m][q]["I"] = task[m][q]["I"]
      BY <2>2 DEF TypeOK
    <3> QED BY <2>1, <3>1, CallKeeps DEF OtherCalls
  <2>5. AttemptStatus(p) = "unused" /\ Owner(p) = {}
    BY <2>1 DEF AttemptStatus, Owner, NoAttempt
  <2>6. CASE StartAttempt(n, p)
    <3>1. LoopResumes(n) /\ pc[n] = "loop" /\ pc'[n] = "loop"
      BY <2>6 DEF StartAttempt, LoopResumes
    <3>2. att'[p].kind \in Technique
      <4>1. Strategies[pos[n].s] \in Technique
        BY <2>6, NodeAssumption DEF StartAttempt, TypeOK, Position
      <4> QED BY <2>6, <4>1 DEF StartAttempt, TypeOK
    <3>3. task'[n][p]["I"] \in {"new", "done"}
      BY <2>6 DEF StartAttempt, SetTask, TypeOK, Role
    <3>4. AttemptStatus(p)' \in {"trying", "lost"} /\ Owner(p)' = {n}
      BY <2>1, <3>2, <3>3 DEF AttemptStatus, Owner, Technique
    <3>5. CallStatus(n) = "running" /\ CallStatus(n)' = "running"
      BY <2>1, <3>1, <3>3, LoopOver DEF CallStatus, Connected
    <3>6. \A m \in Callers : CallStatus(m)' = CallStatus(m)
      BY <2>4, <3>5 DEF OtherCalls
    <3> QED BY <2>3, <2>5, <3>1, <3>4, <3>5, <3>6, LoopOver, TriesOnce
  <2>7. CASE NameResolves(n, p)
    <3>1. pc[n] = "name" /\ pc'[n] = "addr" /\ att'[p].kind = "getaddr"
      BY <2>7 DEF NameResolves, TypeOK
    <3>2. AttemptStatus(p)' = "unused" /\ Owner(p)' = {}
      BY <3>1 DEF AttemptStatus, Owner
    <3>3. CallStatus(n)' = CallStatus(n)
      BY <3>1 DEF CallStatus, Connected
    <3> QED BY <2>3, <2>4, <2>5, <3>2, <3>3, Stutters DEF OtherIds, OtherCalls
  <2> QED BY <1>3, <2>6, <2>7
<1> QED BY <1>1, <1>2, <1>3 DEF CallStep

\* The steps of the two nodes.
LEMMA MovesAbstract ==
  ASSUME IInv, OneAttempt, Tries, OneMoves
  PROVE  Call!CallNext \/ UNCHANGED Call!cvars
<1> USE DEF IInv
<1> Callers \subseteq Node
  BY NodeAssumption DEF Callers
<1>0. UNCHANGED <<pc, cur, att>>
  BY DEF OneMoves
<1>1. ASSUME NEW p \in Pid, \A m \in Node, q \in Pid \ {p} : task'[m][q] = task[m][q]
      PROVE  Call!CallNext \/ UNCHANGED Call!cvars
  <2>0. PICK s : s = att[p].src
    OBVIOUS
  <2>1. OtherIds(p)
    <3>1. \A q \in Pid : att[q].kind \notin {"none", "getaddr"} => att[q].src \in Node
      BY DEF TypeOK, Attempt, NoAttempt
    <3> QED BY <1>0, <1>1, <3>1, StatusKeeps DEF OtherIds
  <2>2. ASSUME NEW m \in Callers, p \notin cur[m] PROVE CallStatus(m)' = CallStatus(m)
    BY <1>0, <1>1, <2>2, CallKeeps DEF TypeOK
  <2>3. ASSUME NEW m \in Callers, p \in cur[m] PROVE m = s
    BY <2>0, <2>3 DEF Involved, CallBelongs, TasksBelong, Belongs, Role
  <2>4. CASE att[p].kind \in {"none", "getaddr"}
    <3>1. AttemptStatus(p)' = AttemptStatus(p) /\ Owner(p)' = Owner(p)
      BY <1>0, <2>4 DEF AttemptStatus, Owner
    <3>2. ASSUME NEW m \in Callers PROVE CallStatus(m)' = CallStatus(m)
      <4>1. CASE pc[m] = "loop" /\ p \in cur[m]
        BY <2>4, <4>1 DEF OneAttempt, Involved, CallBelongs, TasksBelong, Belongs, Role,
                          Attempt, Technique
      <4>2. CASE pc[m] # "loop"
        BY <1>0, <4>2 DEF CallStatus, Connected
      <4> QED BY <2>2, <4>1, <4>2
    <3> QED BY <2>1, <3>1, <3>2, Stutters DEF OtherIds
  <2>5. CASE att[p].kind \notin {"none", "getaddr"}
    <3>1. att[p].kind \in Technique
      BY <2>5 DEF TypeOK, Attempt, NoAttempt
    <3>2. /\ s \in Callers
          /\ (p \in cur[s] /\ pc[s] = "loop") \/ task[s][p]["I"] = "done"
      BY <2>0, <3>1 DEF Tries
    <3>3. TaskCause(s, p, "I") /\ Owner(p) = {s} /\ Owner(p)' = {s}
      BY <1>0, <2>0, <2>5, <3>2 DEF OneMoves, Caused, Owner, Role
    <3>4. OtherCalls(s)
      BY <2>2, <2>3 DEF OtherCalls
    <3>5. task[s][p]["I"] \in {"ok", "done"} => task'[s][p]["I"] = task[s][p]["I"]
      BY <2>5, <3>3 DEF TaskCause, Moves, Waiting
    <3>6. ASSUME task'[s][p]["I"] # "ok" \/ task[s][p]["I"] = "ok"
          PROVE  \A m \in Callers : CallStatus(m)' = CallStatus(m)
      <4>1. \A q \in cur[s] : task'[s][q]["I"] = "ok" <=> task[s][q]["I"] = "ok"
        <5> SUFFICES ASSUME NEW q \in cur[s]
            PROVE  task'[s][q]["I"] = "ok" <=> task[s][q]["I"] = "ok"
          OBVIOUS
        <5>1. CASE q = p
          BY <3>5, <3>6, <5>1
        <5>2. CASE q # p
          <6>1. q \in Pid
            BY <3>2 DEF TypeOK
          <6> QED BY <1>1, <3>2, <5>2, <6>1
        <5> QED BY <5>1, <5>2
      <4>2. CallStatus(s)' = CallStatus(s)
        BY <1>0, <4>1, CallKeeps
      <4> QED BY <3>4, <4>2 DEF OtherCalls
    <3>7. CASE AttemptStatus(p)' = AttemptStatus(p)
      <4>1. task'[s][p]["I"] # "ok" \/ task[s][p]["I"] = "ok"
        BY <1>0, <2>0, <2>5, <3>7 DEF AttemptStatus
      <4> QED BY <2>1, <3>3, <3>6, <3>7, <4>1, Stutters DEF OtherIds
    <3>8. CASE AttemptStatus(p)' # AttemptStatus(p)
      <4>1. /\ AttemptStatus(p) = "trying" /\ task[s][p]["I"] \notin {"ok", "done"}
            /\ \/ AttemptStatus(p)' = "lost" /\ task'[s][p]["I"] = "done"
               \/ AttemptStatus(p)' = "won" /\ task'[s][p]["I"] = "ok"
        BY <1>0, <2>0, <2>5, <3>5, <3>8 DEF AttemptStatus
      <4>2. CASE AttemptStatus(p)' = "lost" /\ task'[s][p]["I"] = "done"
        BY <2>1, <3>2, <3>3, <3>6, <4>1, <4>2, Loses
      <4>3. CASE AttemptStatus(p)' = "won" /\ task'[s][p]["I"] = "ok"
        <5>1. p \in cur[s] /\ pc[s] = "loop"
          BY <3>2, <4>1
        <5>2. CallStatus(s) = "running" /\ CallStatus(s)' = "connected"
          <6>1. \A q \in cur[s] : q = p
            BY <3>2, <5>1 DEF OneAttempt
          <6>2. pc'[s] = "loop" /\ cur'[s] = cur[s]
            BY <1>0, <5>1
          <6>3. ~Connected(s) /\ Connected(s)'
            BY <4>1, <4>3, <5>1, <6>1, <6>2 DEF Connected
          <6> QED BY <5>1, <6>2, <6>3 DEF CallStatus
        <5> QED BY <2>1, <3>2, <3>3, <3>4, <4>1, <4>3, <5>2, Wins
      <4> QED BY <4>1, <4>2, <4>3
    <3> QED BY <3>7, <3>8
  <2> QED BY <2>4, <2>5
<1>2. CASE UNCHANGED task
  <2>1. \A p \in Pid : AttemptStatus(p)' = AttemptStatus(p) /\ Owner(p)' = Owner(p)
    BY <1>0, <1>2 DEF AttemptStatus, Owner
  <2>2. \A n \in Callers : CallStatus(n)' = CallStatus(n)
    BY <1>0, <1>2 DEF CallStatus, Connected
  <2> QED BY <2>1, <2>2, Stutters
<1> QED BY <1>1, <1>2 DEF OneMoves

LEMMA NextCalls ==
  IInv /\ Relays /\ OneAttempt /\ Tries /\ [Next]_vars => [Call!CallNext]_(Call!cvars)
<1> SUFFICES ASSUME IInv, Relays, OneAttempt, Tries, [Next]_vars
    PROVE  Call!CallNext \/ UNCHANGED Call!cvars
  OBVIOUS
<1>1. ASSUME NEW n \in Node, NEW d \in Node, Connect(n, d) PROVE Call!CallNext
  <2>1. n \in Callers
    BY <1>1 DEF Connect, Callers
  <2>2. /\ pc[n] = "idle" /\ pc'[n] \in {"name", "loop"} /\ cur[n] = {}
        /\ (\A m \in Node : m # n => pc'[m] = pc[m])
        /\ UNCHANGED <<cur, att, task>>
    BY <1>1 DEF Connect, IInv, TypeOK, OneAttempt
  <2>3. \A p \in Pid : AttemptStatus(p)' = AttemptStatus(p) /\ Owner(p)' = Owner(p)
    BY <2>2, StatusKeeps
  <2>4. OtherCalls(n)
    <3>1. Callers \subseteq Node
      BY NodeAssumption DEF Callers
    <3> QED BY <2>2, <3>1, CallKeeps DEF OtherCalls
  <2>5. CallStatus(n) = "idle" /\ CallStatus(n)' = "running"
    BY <2>2 DEF CallStatus, Connected
  <2> QED BY <2>1, <2>3, <2>4, <2>5, Begins
<1> QED BY <1>1, CallAbstract, MovesAbstract, NextMoves

\* Every behaviour of the nodes is one of ConnectCall: attempts are made one
\* at a time, the first pipe ends the call, and it fails only after the last.
THEOREM CallImplemented == Spec => ImplementsCall
<1>1. Init => Call!CallInit /\ Tries
  <2> SUFFICES ASSUME Init PROVE Call!CallInit /\ Tries
    OBVIOUS
  <2>1. \A p \in Pid : att[p].kind = "none"
    BY DEF Init, NoAttempt
  <2>2. \A n \in Callers : CallStatus(n) = "idle"
    BY NodeAssumption DEF Init, CallStatus, Callers
  <2>3. \A p \in Pid : AttemptStatus(p) = "unused"
    BY <2>1 DEF AttemptStatus
  <2> QED BY <2>1, <2>2, <2>3 DEF Call!CallInit, Tries, Technique
<1> QED BY <1>1, SpecEnds, NextTries, NextCalls, PTL DEF Spec, ImplementsCall, Call!Spec
=============================================================================
