------------------------------ MODULE Libs_proofs ------------------------------
(***************************************************************************)
(* The two library classes that all daemons are built from.                *)
(*                                                                         *)
(* blocked_queue, for any number of producers, consumers and pushes: values*)
(* leave in the order in which they entered, the mutex excludes, and no    *)
(* thread waits while the queue holds a value.                             *)
(*                                                                         *)
(* unix_socket_client: send() tells its caller the truth, for any number   *)
(* of calls and any number of restarts of the receiver.                    *)
(***************************************************************************)
EXTENDS BlockedQueue, UnixSocketClient, SequenceTheorems, TLAPS

-----------------------------------------------------------------------------
(* blocked_queue *)

\* A producer enters push only while it has something left to push.
PushBounded == \A p \in Producers : pc[p] = "locked" => pushes[p] < MaxPushes

QueueInv == TypeOK /\ PushBounded /\ FirstInFirstOut /\ NoLostWakeup

\* The empty queue of a new blocked_queue, with nobody in a call.
LEMMA QueueInitInv == Init => QueueInv
<1> SUFFICES ASSUME Init PROVE QueueInv
  OBVIOUS
<1>1. TypeOK
  BY ThreadsAssumption, MaxPushesAssumption DEF Init, TypeOK, Threads
<1>2. FirstInFirstOut /\ PushBounded
  BY DEF Init, FirstInFirstOut, PushBounded, Threads
<1>3. NoLostWakeup
  BY ThreadsAssumption DEF Init, NoLostWakeup, Threads
<1> QED
  BY <1>1, <1>2, <1>3 DEF QueueInv

\* Moving the head of the queue to the values taken keeps their concatenation.
LEMMA MoveHead ==
  ASSUME NEW S, NEW s \in Seq(S), NEW t \in Seq(S), t # <<>>
  PROVE  s \o t = Append(s, Head(t)) \o Tail(t)
OBVIOUS

\* Every step of a producer or a consumer preserves the invariant.
LEMMA QueueNextInv == QueueInv /\ [Next]_vars => QueueInv'
<1> SUFFICES ASSUME QueueInv, [Next]_vars PROVE QueueInv'
  OBVIOUS
<1> USE DEF QueueInv, TypeOK, Goto, Threads
<1>1. ASSUME NEW t \in Threads, Lock(t) PROVE QueueInv'
  <2>1. TypeOK'
    BY <1>1 DEF Lock
  <2>2. FirstInFirstOut'
    BY <1>1 DEF Lock, FirstInFirstOut
  <2>3. NoLostWakeup'
    BY <1>1, ThreadsAssumption DEF Lock, NoLostWakeup
  <2>4. PushBounded'
    BY <1>1, ThreadsAssumption DEF Lock, PushBounded
  <2> QED
    BY <2>1, <2>2, <2>3, <2>4
<1>2. ASSUME NEW p \in Producers, Push(p) PROVE QueueInv'
  <2>5. pushes[p] + 1 \in 1..MaxPushes
    <3>1. pushes[p] \in 0..MaxPushes /\ pushes[p] < MaxPushes
      BY <1>2 DEF Push, PushBounded
    <3> QED
      BY <3>1, MaxPushesAssumption
  <2>6. PICK value \in Values : queue' = Append(queue, value) /\ accepted' = Append(accepted, value)
    <3>1. <<p, pushes[p] + 1>> \in Values
      BY <2>5 DEF Values
    <3> QED
      BY <1>2, <3>1 DEF Push
  <2>1. TypeOK'
    <3>1. queue' \in Seq(Values) /\ accepted' \in Seq(Values)
      BY <2>6
    <3>2. pushes' \in [Producers -> 0..MaxPushes]
      BY <1>2, <2>5 DEF Push
    <3> QED
      BY <1>2, <3>1, <3>2 DEF Push
  <2>2. FirstInFirstOut'
    <3>1. accepted = taken \o queue
      BY DEF FirstInFirstOut
    <3>2. Append(taken \o queue, value) = taken \o Append(queue, value)
      <4>1. queue \in Seq(Values) /\ taken \in Seq(Values) /\ <<value>> \in Seq(Values)
        OBVIOUS
      <4>2. taken \o queue \in Seq(Values)
        BY <4>1
      <4>3. Append(taken \o queue, value) = (taken \o queue) \o <<value>>
        BY <4>2, AppendIsConcat
      <4>4. Append(queue, value) = queue \o <<value>>
        BY <4>1, AppendIsConcat
      <4>5. (taken \o queue) \o <<value>> = taken \o (queue \o <<value>>)
        BY <4>1, ConcatAssociative, SMTT(20)
      <4> QED
        BY <4>3, <4>4, <4>5, Zenon
    <3>3. taken' = taken
      BY <1>2 DEF Push
    <3> QED
      BY <2>6, <3>1, <3>2, <3>3 DEF FirstInFirstOut
  <2>3. NoLostWakeup'
    BY <1>2, ThreadsAssumption DEF Push, NoLostWakeup
  <2>4. PushBounded'
    BY <1>2 DEF Push, PushBounded
  <2> QED
    BY <2>1, <2>2, <2>3, <2>4
<1>3. ASSUME NEW c \in Consumers, Wait(c) PROVE QueueInv'
  <2>1. TypeOK'
    BY <1>3 DEF Wait
  <2>2. FirstInFirstOut'
    BY <1>3 DEF Wait, FirstInFirstOut
  <2>3. NoLostWakeup'
    BY <1>3, ThreadsAssumption DEF Wait, NoLostWakeup
  <2>4. PushBounded'
    BY <1>3, ThreadsAssumption DEF Wait, PushBounded
  <2> QED
    BY <2>1, <2>2, <2>3, <2>4
<1>4. ASSUME NEW c \in Consumers, WakeUp(c) PROVE QueueInv'
  BY <1>4 DEF WakeUp, PushBounded, FirstInFirstOut, NoLostWakeup
<1>5. ASSUME NEW c \in Consumers, Relock(c) PROVE QueueInv'
  <2>1. TypeOK'
    BY <1>5 DEF Relock
  <2>2. FirstInFirstOut'
    BY <1>5 DEF Relock, FirstInFirstOut
  <2>3. NoLostWakeup'
    BY <1>5, ThreadsAssumption DEF Relock, NoLostWakeup
  <2>4. PushBounded'
    BY <1>5, ThreadsAssumption DEF Relock, PushBounded
  <2> QED
    BY <2>1, <2>2, <2>3, <2>4
<1>6. ASSUME NEW c \in Consumers, Take(c) PROVE QueueInv'
  <2>1. TypeOK'
    BY <1>6 DEF Take
  <2>2. FirstInFirstOut'
    BY <1>6, MoveHead DEF Take, FirstInFirstOut
  <2>3. NoLostWakeup'
    BY <1>6, ThreadsAssumption DEF Take, NoLostWakeup
  <2>4. PushBounded'
    BY <1>6, ThreadsAssumption DEF Take, PushBounded
  <2> QED
    BY <2>1, <2>2, <2>3, <2>4
<1>7. ASSUME NEW c \in Consumers, GiveUp(c) PROVE QueueInv'
  <2>1. TypeOK'
    BY <1>7 DEF GiveUp
  <2>2. FirstInFirstOut'
    BY <1>7 DEF GiveUp, FirstInFirstOut
  <2>3. NoLostWakeup'
    BY <1>7, ThreadsAssumption DEF GiveUp, NoLostWakeup
  <2>4. PushBounded'
    BY <1>7, ThreadsAssumption DEF GiveUp, PushBounded
  <2> QED
    BY <2>1, <2>2, <2>3, <2>4
<1>8. CASE UNCHANGED vars
  BY <1>8 DEF vars, PushBounded, FirstInFirstOut, NoLostWakeup
<1> QED
  BY <1>1, <1>2, <1>3, <1>4, <1>5, <1>6, <1>7, <1>8 DEF Next

\* The invariant of every behaviour of producers and consumers.
THEOREM QueueInductive == Spec => []QueueInv
<1>1. Init => QueueInv
  BY QueueInitInv
<1>2. QueueInv /\ [Next]_vars => QueueInv'
  BY QueueNextInv
<1> QED
  BY <1>1, <1>2, PTL DEF Spec

\* push and take form a queue: each value is returned once, in order.
THEOREM QueueOrder == Spec => []FirstInFirstOut
<1>1. QueueInv => FirstInFirstOut
  BY DEF QueueInv
<1> QED
  BY <1>1, QueueInductive, PTL

\* notify_all under the mutex leaves no thread waiting beside a value.
THEOREM WakeupsArrive == Spec => []NoLostWakeup
<1>1. QueueInv => NoLostWakeup
  BY DEF QueueInv
<1> QED
  BY <1>1, QueueInductive, PTL

-----------------------------------------------------------------------------
(* unix_socket_client *)

\* A receiver that is gone now was gone during the call.
GoneIsMissed == receiver = "gone" => missed

\* Only a failing socket() leaves INVALID_SOCKET behind, for this call and for
\* the later ones.
BadSocketIsFailure == sock = NoSocket => failed

\* RestartIsNoError by itself is not inductive: whether connect() or sendall()
\* may throw depends on the receiver and on the socket they find.
ClientInv == ClientTypeOK /\ ReturnsIffDelivered /\ RestartIsNoError /\ GoneIsMissed /\ BadSocketIsFailure

\* The constructor has connected.
LEMMA ClientInitInv == ClientInit => ClientInv
<1> SUFFICES ASSUME ClientInit PROVE ClientInv
  OBVIOUS
<1> USE DEF ClientInit, NoSocket
<1>1. ClientTypeOK
  <2>1. incarnation \in 1..MaxIncarnations
    BY ConstantsAssumption DEF ConstantsAssumption
  <2>2. calls \in 0..MaxCalls
    BY ConstantsAssumption DEF ConstantsAssumption
  <2>3. sock \in NoSocket..incarnation
    OBVIOUS
  <2>4. fits \in BOOLEAN /\ missed \in BOOLEAN /\ failed \in BOOLEAN
    BY Zenon
  <2> QED
    BY <2>1, <2>2, <2>3, <2>4 DEF ClientTypeOK
<1>2. ReturnsIffDelivered /\ RestartIsNoError
  BY DEF ReturnsIffDelivered, RestartIsNoError
<1>3. GoneIsMissed /\ BadSocketIsFailure
  BY DEF GoneIsMissed, BadSocketIsFailure
<1> QED
  BY <1>1, <1>2, <1>3 DEF ClientInv

\* Whatever the receiver does between two system calls of the client.
LEMMA ReceiverInv == ClientInv /\ Receiver => ClientInv'
<1> SUFFICES ASSUME ClientInv, Receiver PROVE ClientInv'
  OBVIOUS
<1> USE ConstantsAssumption DEF ClientInv, ClientTypeOK, ReturnsIffDelivered, RestartIsNoError,
        GoneIsMissed, BadSocketIsFailure, NoSocket
<1>1. CASE ReceiverStops
  BY <1>1 DEF ReceiverStops
<1>2. CASE ReceiverStarts
  BY <1>2 DEF ReceiverStarts
<1>3. CASE ReceiverStallsOrReads
  BY <1>3 DEF ReceiverStallsOrReads
<1> HIDE DEF ClientInv, ClientTypeOK, ReturnsIffDelivered, RestartIsNoError,
        GoneIsMissed, BadSocketIsFailure, NoSocket
<1> QED
  BY <1>1, <1>2, <1>3 DEF Receiver

\* The system calls of send().
LEMMA SendInv == ClientInv /\ (Call \/ Send) => ClientInv'
<1> SUFFICES ASSUME ClientInv, Call \/ Send PROVE ClientInv'
  OBVIOUS
<1> USE ConstantsAssumption DEF ClientInv, ClientTypeOK, ReturnsIffDelivered, RestartIsNoError,
        GoneIsMissed, BadSocketIsFailure, NoSocket
<1>1. CASE Call
  <2>1. fits' \in BOOLEAN
    BY <1>1, Zenon DEF Call
  <2>2. missed' \in BOOLEAN /\ (receiver = "gone" => missed')
    BY <1>1 DEF Call
  <2>3. failed' \in BOOLEAN /\ (sock = NoSocket => failed')
    BY <1>1 DEF Call
  <2>4. /\ step' = "sendall" /\ delivered' = 0 /\ calls' \in 0..MaxCalls
        /\ UNCHANGED <<receiver, incarnation, sock>>
    BY <1>1 DEF Call
  <2> QED
    BY <2>1, <2>2, <2>3, <2>4
<1>2. CASE SendallDelivers
  BY <1>2 DEF SendallDelivers
<1>3. CASE SendallRefused
  BY <1>3 DEF SendallRefused
<1>4. CASE SendallBadSocket
  BY <1>4 DEF SendallBadSocket
<1>5. CASE SendallTooLarge
  BY <1>5 DEF SendallTooLarge
<1>6. CASE SocketOk
  BY <1>6 DEF SocketOk, Fresh
<1>7. CASE ConnectOk
  BY <1>7 DEF ConnectOk
<1>8. CASE ConnectThrows
  BY <1>8 DEF ConnectThrows
<1>9. CASE SendallFails \/ SocketThrows \/ ConnectFails
  <2>1. failed'
    BY <1>9, Zenon DEF SendallFails, SocketThrows, ConnectFails
  <2>2. failed' \in BOOLEAN
    BY <1>9, Zenon DEF SendallFails, SocketThrows, ConnectFails
  <2>3. /\ step' = "thrown" /\ delivered' = 0 /\ sock' \in NoSocket..incarnation
        /\ UNCHANGED <<receiver, incarnation, calls, fits, missed>>
    BY <1>9 DEF SendallFails, SocketThrows, ConnectFails
  <2> QED
    BY <2>1, <2>2, <2>3
<1> HIDE DEF ClientInv, ClientTypeOK, ReturnsIffDelivered, RestartIsNoError,
        GoneIsMissed, BadSocketIsFailure, NoSocket
<1> QED
  BY <1>1, <1>2, <1>3, <1>4, <1>5, <1>6, <1>7, <1>8, <1>9 DEF Send

LEMMA ClientNextInv == ClientInv /\ [ClientNext]_clientVars => ClientInv'
<1>1. ClientInv /\ UNCHANGED clientVars => ClientInv'
  BY DEF clientVars, ClientInv, ClientTypeOK, ReturnsIffDelivered, RestartIsNoError, GoneIsMissed, BadSocketIsFailure
<1> QED
  BY <1>1, ReceiverInv, SendInv DEF ClientNext

\* The invariant of every behaviour of client and receiver.
THEOREM ClientInductive == ClientSpec => []ClientInv
<1> QED
  BY ClientInitInv, ClientNextInv, PTL DEF ClientSpec

\* unix_socket_client::send returns exactly if the datagram was delivered, once.
THEOREM SendIsTruthful == ClientSpec => []ReturnsIffDelivered
<1>1. ClientInv => ReturnsIffDelivered
  BY DEF ClientInv
<1> QED
  BY <1>1, ClientInductive, PTL

\* unix_socket_client::send hides restarts of the receiver from its caller: an
\* exception means that the receiver was gone, that the message fits into no
\* datagram or that a system call was refused for another reason.
THEOREM RestartsAreHidden == ClientSpec => []RestartIsNoError
<1>1. ClientInv => RestartIsNoError
  BY DEF ClientInv
<1> QED
  BY <1>1, ClientInductive, PTL
================================================================================
