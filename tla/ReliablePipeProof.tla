-------------------------- MODULE ReliablePipeProof --------------------------
(***************************************************************************)
(* Proofs about ReliablePipe, for any pipes and messages, any number of    *)
(* transmissions and any sizes of its tables.                              *)
(*                                                                         *)
(* That an acknowledged message arrived needs to be known of the           *)
(* acknowledgements on their way as well (AcksArrived); that close tells   *)
(* every sender needs that all running workers are listed, also those that *)
(* did not transmit yet (RunningListed), and that close sets the events of *)
(* all it waits for (GroupTold).                                           *)
(***************************************************************************)
EXTENDS ReliablePipe, FiniteSetTheorems, FunctionTheorems, TLAPS

AcksArrived == \A m \in Message : (m \in acks \/ <<"ack", m>> \in net) => m \in arrived
RunningListed ==
  \A m \in Message : Running(m) /\ From[m] \notin reset => m \in seq[From[m]]
GroupTold ==
  \A e \in End : life[e] # "open" /\ e \notin reset => group[e] \subseteq event
\* Of its own messages a pipe waits for acks, and in close.
Own == \A e \in End : \A m \in seq[e] \cup group[e] : From[m] = e

\* What the proofs need of the types; the queues are left out.
Types ==
  /\ worker \in [Message -> {"new", "ready", "wait", "done", "error"}]
  /\ sends \in [Message -> Nat]
  /\ seq \in [End -> SUBSET Message] /\ group \in [End -> SUBSET Message]
  /\ event \subseteq Message
  /\ life \in [End -> {"open", "closing", "closed"}]

IInv == Types /\ Own /\ AckedArrived /\ AcksArrived /\ RunningListed /\ GroupTold

-----------------------------------------------------------------------------
LEMMA InitInv == Init => IInv
BY PipeAssumption
DEF Init, IInv, Types, Own, AckedArrived, AcksArrived, RunningListed, GroupTold, Running

\* What a turn of a worker changes, and what it keeps.
LEMMA TransmitKeeps ==
  ASSUME IInv, NEW m \in Message, Running(m), Transmit(m)
  PROVE  /\ sends' \in [Message -> Nat]
         /\ worker' \in [Message -> {"new", "ready", "wait", "done", "error"}]
         /\ \A k \in Message : k # m => worker'[k] = worker[k]
         /\ seq' \in [End -> SUBSET Message]
         /\ \A e \in End : seq'[e] \subseteq seq[e]
         /\ \A k \in Message : k # m /\ k \in seq[From[k]] => k \in seq'[From[k]]
         /\ worker'[m] \in {"wait", "done", "error"}
         /\ worker'[m] = "wait" => m \in seq'[From[m]]
         /\ \A k \in Message : <<"ack", k>> \in net' => <<"ack", k>> \in net
<1>1. From[m] \in End
  BY PipeAssumption
<1>2. \A k \in Message : From[k] \in End
  BY PipeAssumption
<1>3. Types
  BY DEF IInv
<1>4. sends' \in [Message -> Nat]
  BY <1>3 DEF Types, Transmit
<1>5. \A k \in Message : <<"ack", k>> \in net' => <<"ack", k>> \in net
  BY DEF Transmit, Transmitted
<1>6. CASE Ends(m, "done")
  BY <1>1, <1>2, <1>3, <1>4, <1>5, <1>6 DEF Types, Ends
<1>7. CASE Ends(m, "error")
  BY <1>1, <1>2, <1>3, <1>4, <1>5, <1>7 DEF Types, Ends
<1>8. CASE /\ worker' = [worker EXCEPT ![m] = "wait"]
           /\ m \in seq[From[m]] /\ UNCHANGED seq
  BY <1>1, <1>2, <1>3, <1>4, <1>5, <1>8 DEF Types
<1> QED BY <1>6, <1>7, <1>8 DEF Transmit

LEMMA NextInv == IInv /\ [Next]_vars => IInv'
<1> SUFFICES ASSUME IInv, [Next]_vars PROVE IInv'
  OBVIOUS
<1>0. /\ Types /\ Own /\ AckedArrived /\ AcksArrived /\ RunningListed /\ GroupTold
      /\ \A m \in Message : From[m] \in End /\ To[m] \in End
  BY PipeAssumption DEF IInv
<1>1. ASSUME NEW m \in Message, AckSend(m) PROVE IInv'
  <2>1. Types' /\ Own'
    BY <1>0, <1>1 DEF AckSend, Types, Own
  <2>2. AckedArrived' /\ AcksArrived' /\ GroupTold'
    BY <1>0, <1>1 DEF AckSend, AckedArrived, AcksArrived, GroupTold, inbox
  <2>3. RunningListed'
    BY <1>0, <1>1 DEF AckSend, RunningListed, Running, Types
  <2> QED BY <2>1, <2>2, <2>3 DEF IInv
<1>2. ASSUME NEW m \in Message, Begin(m) \/ WaitTimesOut(m) PROVE IInv'
  <2>1. Running(m) /\ Transmit(m)
        /\ UNCHANGED <<event, acks, inbox, life, group, reset>>
    BY <1>2 DEF Begin, WaitTimesOut, Running
  <2>2. Types' /\ Own'
    BY <1>0, <2>1, TransmitKeeps DEF Types, Own
  <2>3. AckedArrived' /\ AcksArrived' /\ GroupTold'
    BY <1>0, <2>1, TransmitKeeps DEF AckedArrived, AcksArrived, GroupTold, inbox
  <2>4. RunningListed'
    BY <1>0, <2>1, TransmitKeeps DEF RunningListed, Running
  <2> QED BY <2>2, <2>3, <2>4 DEF IInv
<1>3. ASSUME NEW m \in Message, Acknowledged(m) PROVE IInv'
  <2>1. Types' /\ Own'
    BY <1>0, <1>3 DEF Acknowledged, Ends, Types, Own
  <2>2. AckedArrived' /\ AcksArrived' /\ GroupTold'
    BY <1>0, <1>3 DEF Acknowledged, Ends, AckedArrived, AcksArrived, GroupTold, inbox
  <2>3. RunningListed'
    BY <1>0, <1>3 DEF Acknowledged, Ends, RunningListed, Running, Types
  <2> QED BY <2>1, <2>2, <2>3 DEF IInv
<1>4. ASSUME NEW m \in Message, ReceiveAck(m) PROVE IInv'
  <2>1. Types' /\ Own'
    BY <1>0, <1>4 DEF ReceiveAck, Types, Own
  <2>2. AckedArrived' /\ AcksArrived' /\ GroupTold'
    BY <1>0, <1>4 DEF ReceiveAck, AckedArrived, AcksArrived, GroupTold, inbox
  <2>3. RunningListed'
    BY <1>0, <1>4 DEF ReceiveAck, RunningListed, Running
  <2> QED BY <2>1, <2>2, <2>3 DEF IInv
<1>5. ASSUME NEW m \in Message, ReceiveMsg(m) PROVE IInv'
  <2>1. Types' /\ Own'
    BY <1>0, <1>5 DEF ReceiveMsg, Types, Own
  <2>2. AckedArrived' /\ AcksArrived'
    BY <1>0, <1>5 DEF ReceiveMsg, AckedArrived, AcksArrived
  <2>3. GroupTold'
    BY <1>0, <1>5 DEF ReceiveMsg, GroupTold
  <2>4. RunningListed'
    BY <1>0, <1>5 DEF ReceiveMsg, RunningListed, Running, Types
  <2> QED BY <2>1, <2>2, <2>3, <2>4 DEF IInv
<1>6. ASSUME NEW m \in Message, SendAck(m) PROVE IInv'
  <2>1. Types' /\ Own' /\ RunningListed' /\ GroupTold'
    BY <1>0, <1>6 DEF SendAck, tasks, Types, Own, RunningListed, Running, GroupTold
  <2>2. AckedArrived' /\ AcksArrived'
    BY <1>0, <1>6 DEF SendAck, tasks, inbox, AckedArrived, AcksArrived
  <2> QED BY <2>1, <2>2 DEF IInv
<1>7. ASSUME NEW e \in End, Recv(e) PROVE IInv'
  BY <1>0, <1>7
  DEF Recv, tasks, IInv, Types, Own, AckedArrived, AcksArrived, RunningListed,
      Running, GroupTold
<1>8. ASSUME NEW e \in Closable, Close(e) PROVE IInv'
  <2>1. e \in End
    BY PipeAssumption
  <2>2. Types' /\ Own'
    BY <1>0, <1>8, <2>1 DEF Close, Types, Own
  <2>3. RunningListed' /\ AcksArrived'
    BY <1>0, <1>8 DEF Close, inbox, RunningListed, Running, AcksArrived
  <2>4. AckedArrived'
    BY <1>0, <1>8, <2>1 DEF Close, inbox, AckedArrived, Own, Types
  <2>5. GroupTold'
    BY <1>0, <1>8, <2>1 DEF Close, GroupTold, RunningListed, Running, Types
  <2> QED BY <2>2, <2>3, <2>4, <2>5 DEF IInv
<1>9. ASSUME NEW e \in End, Gathered(e) PROVE IInv'
  <2>1. Types' /\ Own' /\ RunningListed' /\ AcksArrived'
    BY <1>0, <1>9
    DEF Gathered, tasks, inbox, Types, Own, RunningListed, Running, AcksArrived
  <2>2. AckedArrived' /\ GroupTold'
    BY <1>0, <1>9 DEF Gathered, tasks, inbox, AckedArrived, GroupTold, Types
  <2> QED BY <2>1, <2>2 DEF IInv
<1>10. ASSUME NEW e \in End, GatherTimesOut(e) PROVE IInv'
  <2>1. Types' /\ Own' /\ AcksArrived'
    BY <1>0, <1>10 DEF GatherTimesOut, inbox, Types, Own, AcksArrived, Running
  <2>2. RunningListed'
    BY <1>0, <1>10 DEF GatherTimesOut, RunningListed, Running, Types
  <2>3. AckedArrived' /\ GroupTold'
    BY <1>0, <1>10 DEF GatherTimesOut, inbox, AckedArrived, GroupTold, Types
  <2> QED BY <2>1, <2>2, <2>3 DEF IInv
<1>11. CASE UNCHANGED vars
  BY <1>0, <1>11
  DEF vars, tasks, inbox, IInv, Types, Own, AckedArrived, AcksArrived,
      RunningListed, Running, GroupTold
<1> QED
  BY <1>1, <1>2, <1>3, <1>4, <1>5, <1>6, <1>7, <1>8, <1>9, <1>10, <1>11
  DEF Next, TaskStep

LEMMA Invariance == Spec => []IInv
<1> QED BY InitInv, NextInv, PTL DEF Spec

\* An acknowledged message reached its pipe, or its sender was closed.
THEOREM AckedDidArrive == Spec => []AckedArrived
<1>1. IInv => AckedArrived
  BY DEF IInv
<1> QED BY <1>1, Invariance, PTL

\* A worker that waits can be told.
THEOREM WaitersAreListed == Spec => []WaitersListed
<1>1. IInv => WaitersListed
  BY DEF IInv, RunningListed, WaitersListed, Running
<1> QED BY <1>1, Invariance, PTL

\* close tells all the senders it waits for.
THEOREM CloseTellsAll == Spec => []ClosedTells
<1>1. IInv => ClosedTells
  BY DEF IInv, GroupTold, ClosedTells
<1> QED BY <1>1, Invariance, PTL

-----------------------------------------------------------------------------
(* Types, and what the reader gets.                                        *)

\* A worker that goes on has not been sent Tries times.
Counted ==
  \A m \in Message : /\ worker[m] = "new" => sends[m] = 0
                     /\ Running(m) => sends[m] < Tries

TInv == TypeOK /\ Counted

\* The data that pipe e is ever sent, and whether its table may hold them all.
IdsTo(e) == {Id(k) : k \in {j \in Message : To[j] = e}}
Fits(e) == Cardinality(IdsTo(e)) <= MaxIds

\* The table of IDs holds only what can be sent to its pipe, and all that was
\* routed, where it is never full.
Known ==
  /\ \A e \in End : ids[e] \subseteq IdsTo(e)
  /\ UniqueMsgs => \A m \in Message :
       Fits(To[m]) /\ routed[m] # 0 => Id(m) \in ids[To[m]]

RInv == TypeOK /\ Known /\ RoutedOnce

LEMMA QueueType ==
  ASSUME NEW q \in Seq(Message), Len(q) <= MaxQueue, NEW m \in Message
  PROVE  Queue(q, m) \in Seq(Message) /\ Len(Queue(q, m)) <= MaxQueue
<1>1. CASE Len(q) >= MaxQueue
  <2>1. q # <<>> /\ Len(q) = MaxQueue /\ Len(q) \in Nat
    BY <1>1, PipeAssumption
  <2>2. Tail(q) \in Seq(Message) /\ Len(Tail(q)) = Len(q) - 1
    BY <2>1
  <2>3. Queue(q, m) = Append(Tail(q), m)
    BY <1>1 DEF Queue
  <2> QED BY <2>1, <2>2, <2>3
<1>2. CASE ~(Len(q) >= MaxQueue)
  <2>1. Queue(q, m) = Append(q, m)
    BY <1>2 DEF Queue
  <2> QED BY <1>2, <2>1, PipeAssumption
<1> QED BY <1>1, <1>2

LEMMA TypeInit == Init => TInv
<1> SUFFICES ASSUME Init PROVE TInv
  OBVIOUS
<1>1. /\ worker \in [Message -> {"new", "ready", "wait", "done", "error"}]
      /\ sends \in [Message -> 0 .. Tries] /\ routed \in [Message -> 0 .. 2]
  BY PipeAssumption DEF Init
<1>2. \A e \in End : queue[e] = <<>> /\ Len(queue[e]) <= MaxQueue
  BY PipeAssumption DEF Init
<1>3. queue \in [End -> Seq(Message)]
  BY DEF Init
<1>4. /\ seq \in [End -> SUBSET Message] /\ group \in [End -> SUBSET Message]
      /\ ids \in [End -> SUBSET {Id(m) : m \in Message}]
      /\ life \in [End -> {"open", "closing", "closed"}]
      /\ event \subseteq Message /\ acks \subseteq Message /\ arrived \subseteq Message
      /\ net \subseteq {"msg", "ack"} \X Message /\ reset \subseteq End
  BY DEF Init
<1>5. Counted
  BY PipeAssumption DEF Init, Counted, Running
<1> QED BY <1>1, <1>2, <1>3, <1>4, <1>5 DEF TInv, TypeOK

LEMMA TransmitTypes ==
  ASSUME TInv, NEW m \in Message, Running(m), Transmit(m),
         UNCHANGED <<event, acks, inbox, life, group, reset>>
  PROVE  TInv'
<1>1. /\ sends' = [sends EXCEPT ![m] = sends[m] + 1] /\ sends[m] + 1 \in 0 .. Tries
      /\ net' = net \cup Transmitted(m)
  BY PipeAssumption DEF Transmit, TInv, TypeOK, Counted
<1>2. PICK w \in {"done", "error", "wait"} :
        /\ worker' = [worker EXCEPT ![m] = w]
        /\ w = "wait" => sends[m] + 1 < Tries
  <2>1. sends'[m] = sends[m] + 1
    BY <1>1 DEF TInv, TypeOK
  <2>2. CASE sends'[m] >= Tries
    BY <2>2 DEF Transmit, Ends
  <2>3. CASE ~(sends'[m] >= Tries)
    BY <1>1, <2>1, <2>3, PipeAssumption DEF Transmit, Ends
  <2> QED BY <2>2, <2>3
<1>3. seq' \in [End -> SUBSET Message]
  BY DEF Transmit, Ends, TInv, TypeOK
<1>4. /\ worker' \in [Message -> {"new", "ready", "wait", "done", "error"}]
      /\ sends' \in [Message -> 0 .. Tries]
      /\ net' \subseteq {"msg", "ack"} \X Message
  BY <1>1, <1>2 DEF TInv, TypeOK, Transmitted
<1>5. Counted'
  <2>1. worker'[m] = w /\ sends'[m] = sends[m] + 1
    BY <1>1, <1>2 DEF TInv, TypeOK
  <2>2. \A k \in Message : k # m => worker'[k] = worker[k] /\ sends'[k] = sends[k]
    BY <1>1, <1>2 DEF TInv, TypeOK
  <2> QED BY <1>2, <2>1, <2>2 DEF TInv, Counted, Running
<1> QED BY <1>3, <1>4, <1>5 DEF TInv, TypeOK, inbox

LEMMA ReceiveTypes ==
  ASSUME TInv, NEW m \in Message, ReceiveMsg(m)
  PROVE  TInv'
<1>1. To[m] \in End
  BY PipeAssumption
<1>2. /\ UNCHANGED <<worker, sends, net, life, group>> /\ Route(To[m], m)
      /\ event' \subseteq Message /\ acks' \subseteq Message /\ arrived' \subseteq Message
      /\ seq' \in [End -> SUBSET Message] /\ reset' \subseteq End
  BY <1>1 DEF ReceiveMsg, TInv, TypeOK
<1>3. ids' \in [End -> SUBSET {Id(k) : k \in Message}]
  <2> DEFINE all == {Id(k) : k \in Message}
  <2>1. Id(m) \in all /\ ids \in [End -> SUBSET all]
    BY DEF TInv, TypeOK
  <2> HIDE DEF all
  <2>2. Remember(To[m]) \in SUBSET all
    BY <1>1, <2>1 DEF Remember
  <2>3. ids' \in [End -> SUBSET all]
    BY <1>1, <1>2, <2>1, <2>2 DEF Route
  <2> QED BY <2>3 DEF all
<1>4. routed' \in [Message -> 0 .. 2]
  <2>1. routed \in [Message -> 0 .. 2]
    BY DEF TInv, TypeOK
  <2>2. (IF routed[m] < 2 THEN routed[m] + 1 ELSE 2) \in 0 .. 2
    BY <2>1
  <2>3. \/ routed' = routed
        \/ routed' = [routed EXCEPT ![m] = IF routed[m] < 2 THEN routed[m] + 1 ELSE 2]
    BY <1>2 DEF Route
  <2> QED BY <2>1, <2>2, <2>3
<1>5. queue' \in [End -> Seq(Message)] /\ \A e \in End : Len(queue'[e]) <= MaxQueue
  <2>1. queue[To[m]] \in Seq(Message) /\ Len(queue[To[m]]) <= MaxQueue
    BY <1>1 DEF TInv, TypeOK
  <2>2. \/ queue' = queue
        \/ queue' = [queue EXCEPT ![To[m]] = Queue(queue[To[m]], m)]
    BY <1>2 DEF Route
  <2>3. /\ Queue(queue[To[m]], m) \in Seq(Message)
        /\ Len(Queue(queue[To[m]], m)) <= MaxQueue
    BY <2>1, QueueType
  <2>4. queue \in [End -> Seq(Message)] /\ \A e \in End : Len(queue[e]) <= MaxQueue
    BY DEF TInv, TypeOK
  <2>5. queue' \in [End -> Seq(Message)]
    BY <1>1, <2>2, <2>3, <2>4
  <2>6. \A e \in End : queue'[e] = queue[e] \/ (e = To[m] /\ queue'[e] = Queue(queue[To[m]], m))
    BY <2>2, <2>4
  <2>7. \A e \in End : Len(queue'[e]) <= MaxQueue
    BY <2>3, <2>4, <2>6
  <2> QED BY <2>5, <2>7
<1>6. Counted'
  BY <1>2 DEF TInv, Counted, Running
<1> QED BY <1>2, <1>3, <1>4, <1>5, <1>6 DEF TInv, TypeOK

LEMMA TypeStep == TInv /\ [Next]_vars => TInv'
<1> SUFFICES ASSUME TInv, [Next]_vars PROVE TInv'
  OBVIOUS
<1> USE DEF TInv
<1>1. ASSUME NEW m \in Message, AckSend(m) PROVE TInv'
  <2>1. /\ worker' = [worker EXCEPT ![m] = "ready"] /\ sends[m] = 0 /\ worker[m] = "new"
        /\ seq' \in [End -> SUBSET Message]
        /\ UNCHANGED <<sends, event, acks, net, inbox, life, group, reset>>
    BY <1>1, PipeAssumption DEF AckSend, TypeOK, Counted
  <2>2. worker' \in [Message -> {"new", "ready", "wait", "done", "error"}]
    BY <2>1 DEF TypeOK
  <2>3. Counted'
    BY <2>1, PipeAssumption DEF TypeOK, Counted, Running
  <2> QED BY <2>1, <2>2, <2>3 DEF TypeOK, inbox
<1>2. ASSUME NEW m \in Message, Begin(m) \/ WaitTimesOut(m) PROVE TInv'
  BY <1>2, TransmitTypes DEF Begin, WaitTimesOut, Running
<1>3. ASSUME NEW m \in Message, Acknowledged(m) PROVE TInv'
  BY <1>3 DEF Acknowledged, Ends, inbox, TypeOK, Counted, Running
<1>4. ASSUME NEW m \in Message, ReceiveAck(m) PROVE TInv'
  BY <1>4 DEF ReceiveAck, inbox, TypeOK, Counted, Running
<1>5. ASSUME NEW m \in Message, ReceiveMsg(m) PROVE TInv'
  BY <1>5, ReceiveTypes
<1>6. ASSUME NEW m \in Message, SendAck(m) PROVE TInv'
  BY <1>6 DEF SendAck, tasks, inbox, TypeOK, Counted, Running
<1>7. ASSUME NEW e \in End, Recv(e) PROVE TInv'
  <2>1. /\ queue[e] \in Seq(Message) /\ queue[e] # <<>> /\ Len(queue[e]) <= MaxQueue
        /\ queue' = [queue EXCEPT ![e] = Tail(queue[e])]
        /\ UNCHANGED <<worker, sends, seq, event, acks, net, ids, arrived, routed,
                       life, group, reset>>
    BY <1>7 DEF Recv, tasks, TypeOK
  <2>2. Tail(queue[e]) \in Seq(Message) /\ Len(Tail(queue[e])) <= MaxQueue
    BY <2>1, PipeAssumption
  <2>3. queue' \in [End -> Seq(Message)] /\ \A f \in End : Len(queue'[f]) <= MaxQueue
    BY <2>1, <2>2 DEF TypeOK
  <2> QED BY <2>1, <2>3 DEF TypeOK, Counted, Running
<1>8. ASSUME NEW e \in Closable, Close(e) PROVE TInv'
  BY <1>8, PipeAssumption DEF Close, inbox, TypeOK, Counted, Running
<1>9. ASSUME NEW e \in End, Gathered(e) PROVE TInv'
  BY <1>9 DEF Gathered, tasks, inbox, TypeOK, Counted, Running
<1>10. ASSUME NEW e \in End, GatherTimesOut(e) PROVE TInv'
  BY <1>10 DEF GatherTimesOut, inbox, TypeOK, Counted, Running
<1>11. CASE UNCHANGED vars
  BY <1>11 DEF vars, tasks, inbox, TypeOK, Counted, Running
<1> QED
  BY <1>1, <1>2, <1>3, <1>4, <1>5, <1>6, <1>7, <1>8, <1>9, <1>10, <1>11
  DEF Next, TaskStep

\* Every variable keeps its type; a worker transmits at most Tries times, and a
\* queue never holds more than it may.
THEOREM TypesHold == Spec => []TypeOK
<1>1. TInv => TypeOK
  BY DEF TInv
<1> QED BY TypeInit, TypeStep, <1>1, PTL DEF Spec

-----------------------------------------------------------------------------
\* A table that may hold all the data of its pipe is never emptied.
LEMMA NeverFull ==
  ASSUME NEW e \in End, Fits(e), ids[e] \subseteq IdsTo(e)
  PROVE  Remember(e) = ids[e]
<1> DEFINE Sent == {j \in Message : To[j] = e}
           f == [j \in Sent |-> Id(j)]
<1>1. IsFiniteSet(Sent)
  BY PipeAssumption, FS_Subset
<1>2. f \in Surjection(Sent, IdsTo(e))
  BY DEF Surjection, IdsTo
<1>3. IsFiniteSet(IdsTo(e))
  BY <1>1, <1>2, FS_Surjection
<1>4. /\ Cardinality(ids[e]) <= Cardinality(IdsTo(e))
      /\ Cardinality(ids[e]) \in Nat /\ Cardinality(IdsTo(e)) \in Nat
  BY <1>3, FS_Subset, FS_CardinalityType
<1> QED BY <1>4, PipeAssumption DEF Remember, Fits

LEMMA RoutedInit == Init => RInv
<1>1. Init => TypeOK
  BY TypeInit DEF TInv
<1> QED BY <1>1 DEF Init, RInv, Known, RoutedOnce

LEMMA ReceiveRouted ==
  ASSUME RInv, TypeOK', NEW m \in Message, ReceiveMsg(m)
  PROVE  RInv'
<1> DEFINE e == To[m]
<1>1. e \in End /\ Id(m) \in IdsTo(e) /\ \A k \in Message : To[k] \in End
  BY PipeAssumption DEF IdsTo
<1>2. Route(e, m) /\ ids[e] \subseteq IdsTo(e) /\ DOMAIN ids = End /\ routed \in [Message -> 0 .. 2]
  BY <1>1 DEF ReceiveMsg, RInv, Known, TypeOK
<1>3. Remember(e) \subseteq IdsTo(e) /\ (Fits(e) => Remember(e) = ids[e])
  BY <1>1, <1>2, NeverFull DEF Remember
<1> HIDE DEF e
<1>4. CASE UniqueMsgs /\ Id(m) \in Remember(e)
  <2>1. ids' = [ids EXCEPT ![e] = Remember(e)] /\ routed' = routed
    BY <1>2, <1>4 DEF Route
  <2>2. Known'
    BY <1>1, <1>2, <1>3, <2>1 DEF RInv, Known
  <2> QED BY <2>1, <2>2 DEF RInv, RoutedOnce
<1>5. CASE UniqueMsgs /\ Id(m) \notin Remember(e)
  <2>1. /\ ids' = [ids EXCEPT ![e] = Remember(e) \cup {Id(m)}]
        /\ routed' = [routed EXCEPT ![m] = IF routed[m] < 2 THEN routed[m] + 1 ELSE 2]
    BY <1>2, <1>5 DEF Route
  <2>2. Known'
    <3>1. \A f \in End : ids'[f] \subseteq IdsTo(f)
      BY <1>1, <1>2, <1>3, <2>1 DEF RInv, Known
    <3>2. ASSUME NEW k \in Message, Fits(To[k]), routed'[k] # 0
          PROVE  Id(k) \in ids'[To[k]]
      <4>1. CASE k = m
        BY <1>1, <1>2, <2>1, <4>1 DEF e
      <4>2. CASE k # m
        <5>1. Id(k) \in ids[To[k]]
          BY <1>2, <1>5, <2>1, <3>2, <4>2 DEF RInv, Known
        <5> QED BY <1>1, <1>2, <1>3, <2>1, <3>2, <5>1
      <4> QED BY <4>1, <4>2
    <3> QED BY <3>1, <3>2 DEF Known
  <2>3. ASSUME Fits(e) PROVE \A k \in Message : To[k] = e /\ Id(k) = Id(m) => routed[k] = 0
    <3>1. Id(m) \notin ids[e]
      BY <1>3, <1>5, <2>3
    <3> QED BY <1>5, <2>3, <3>1 DEF RInv, Known
  <2>4. RoutedOnce'
    <3> SUFFICES ASSUME NEW k \in Message, NEW n \in Message, To[k] = To[n], Id(k) = Id(n),
                        Fits(To[k])
                 PROVE  IF k = n THEN routed'[k] <= 1 ELSE routed'[k] = 0 \/ routed'[n] = 0
      BY DEF RoutedOnce, Fits, IdsTo
    <3>1. IF k = n THEN routed[k] <= 1 ELSE routed[k] = 0 \/ routed[n] = 0
      BY <1>5 DEF RInv, RoutedOnce, Fits, IdsTo
    <3>2. CASE k # m /\ n # m
      BY <1>2, <2>1, <3>1, <3>2
    <3>3. CASE k = m \/ n = m
      <4>1. routed[k] = 0 /\ routed[n] = 0
        BY <2>3, <3>3 DEF e
      <4> QED BY <1>2, <2>1, <3>3, <4>1
    <3> QED BY <3>2, <3>3
  <2> QED BY <2>2, <2>4 DEF RInv
<1>6. CASE ~UniqueMsgs
  <2>1. ids' = ids
    BY <1>2, <1>6 DEF Route
  <2> QED BY <1>6, <2>1 DEF RInv, Known, RoutedOnce
<1> QED BY <1>4, <1>5, <1>6

LEMMA RoutedStep == RInv /\ TypeOK' /\ [Next]_vars => RInv'
<1> SUFFICES ASSUME RInv, TypeOK', [Next]_vars PROVE RInv'
  OBVIOUS
<1>1. ASSUME NEW m \in Message, ReceiveMsg(m) PROVE RInv'
  BY <1>1, ReceiveRouted
<1>2. CASE \A m \in Message : ~ReceiveMsg(m)
  <2>1. UNCHANGED <<ids, routed>>
    BY <1>2 DEF Next, TaskStep, AckSend, Begin, WaitTimesOut, Acknowledged, ReceiveAck,
                SendAck, Recv, Close, Gathered, GatherTimesOut, vars, inbox
  <2> QED BY <2>1 DEF RInv, Known, RoutedOnce
<1> QED BY <1>1, <1>2

\* The reader gets the data of a peer once, however often it arrives and in
\* whatever order, where the table of IDs can hold all that its pipe is sent.
THEOREM ReaderGetsOnce == Spec => []RoutedOnce
<1>1. RInv => RoutedOnce
  BY DEF RInv
<1> QED BY RoutedInit, RoutedStep, TypesHold, <1>1, PTL DEF Spec
=============================================================================
