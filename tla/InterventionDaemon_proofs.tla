----------------------- MODULE InterventionDaemon_proofs -----------------------
(***************************************************************************)
(* Whatever the actions, programs, datagrams and faults are, commands run  *)
(* in order, the output of one is over before the next one is taken, and   *)
(* SIGKILL meets the child it is meant for.                                *)
(***************************************************************************)
EXTENDS InterventionDaemon, TLAPS

\* What the proofs need of the types: EXCEPT keeps the fields of a process.
Typed ==
  /\ "state" \in DOMAIN child /\ "state" \in DOMAIN rest
  /\ pipe \in [Streams -> Nat]

\* A pipe the thread has left has no writer any more, and holds nothing.
ReadToTheEnd ==
  /\ proc = "stderr" => ~Held /\ pipe["stdout"] = 0
  /\ proc \in {"take", "ended"} => ~Held /\ pipe["stdout"] = 0 /\ pipe["stderr"] = 0

\* The pid is known as long as the thread may send a signal to it.
PidIsKept == ~ignored /\ proc \in {"polls", "kills"} => child.state # "free"

IInv == Typed /\ ReadToTheEnd /\ PidIsKept /\ KillsOwnChild

\* At the start there is no child and nobody to send a signal to.
LEMMA InitInv == Init => IInv
  BY DEF Init, IInv, Typed, ReadToTheEnd, PidIsKept, KillsOwnChild, NoProcess, Streams, Held, Alive

\* main and input_task touch neither children nor pipes.
LEMMA OtherThreads ==
  ASSUME IInv, Main \/ MainSignal \/ Arrive \/ Input \/ UNCHANGED vars
  PROVE  IInv'
<1>1. UNCHANGED <<child, rest, pipe, proc, stray, ignored>>
  BY DEF Main, MainPolls, MainStops, MainExits, MainSignal, Arrive, Input, InputBinds, InputThrows, InputCheck, InputTimeout,
         InputReceives, InputKills, others, vars, daemonVars, inputVars, children, procVars
<1> QED
  BY <1>1 DEF IInv, Typed, ReadToTheEnd, PidIsKept, KillsOwnChild, Held, Alive

\* A step of processing_task: only the ends of both pipes lead to the next command.
LEMMA Processing ==
  ASSUME IInv, Proc
  PROVE  IInv'
<1> USE DEF IInv, Typed, ReadToTheEnd, PidIsKept, KillsOwnChild, Held, Alive
<1>1. CASE ProcEnds
  BY <1>1 DEF ProcEnds, ProcTakes
<1>2. CASE ProcRefuses
  BY <1>2 DEF ProcRefuses, ProcTakes
<1>3. CASE ProcForks
  BY <1>3 DEF ProcForks, ProcTakes, NoProcess, Streams
<1>4. CASE ProcThrows
  BY <1>4 DEF ProcThrows, ProcTakes
<1>5. CASE Poll
  BY <1>5 DEF Poll, PollWaits, PollExpires, PollReaps, PollFails, polling, daemonVars
<1>6. CASE ProcKills
  BY <1>6 DEF ProcKills, polling, daemonVars
<1>7. CASE Read
  <2>1. PICK stream \in Streams : Reads(stream) \/ ReadsEnd(stream)
    BY <1>7 DEF Read
  <2>2. CASE Reads(stream)
    BY <2>1, <2>2 DEF Reads, Streams, procVars, daemonVars
  <2>3. CASE ReadsEnd(stream)
    BY <2>1, <2>3 DEF ReadsEnd, Following, Streams, polling, daemonVars
  <2> QED BY <2>1, <2>2, <2>3
<1> QED BY <1>1, <1>2, <1>3, <1>4, <1>5, <1>6, <1>7 DEF Proc

\* A step of a process: nobody who holds the pipes starts it, and no pid becomes
\* free before waitpid has told of it, unless SIGCHLD is ignored.
LEMMA Processes ==
  ASSUME IInv, Child \/ Rest
  PROVE  IInv'
<1> USE DEF IInv, Typed, ReadToTheEnd, PidIsKept, KillsOwnChild, Held, Alive
<1>0. UNCHANGED <<proc, stray, ignored>>
  BY DEF Child, Rest, ChildExecs, ChildFails, ChildPrints, ChildSpawns, ChildDies, RestPrints, RestDies, world, procVars, daemonVars
<1>1. CASE ChildExecs
  BY <1>0, <1>1 DEF ChildExecs
<1>2. CASE ChildFails
  BY <1>0, <1>2 DEF ChildFails, Dead
<1>3. CASE ChildPrints
  BY <1>0, <1>3 DEF ChildPrints, Room, Streams
<1>4. CASE ChildSpawns
  BY <1>0, <1>4 DEF ChildSpawns, NoProcess
<1>5. CASE ChildDies
  BY <1>0, <1>5 DEF ChildDies, Dead
<1>6. CASE RestPrints
  BY <1>0, <1>6 DEF RestPrints, Room, Streams
<1>7. CASE RestDies
  BY <1>0, <1>7 DEF RestDies, NoProcess
<1> QED BY <1>1, <1>2, <1>3, <1>4, <1>5, <1>6, <1>7 DEF Child, Rest

\* The invariant of the daemon.
LEMMA Inductive == Spec => []IInv
<1>1. IInv /\ [Next]_vars => IInv'
  BY OtherThreads, Processing, Processes DEF Next
<1> QED BY InitInv, <1>1, PTL DEF Spec

\* processing_task takes the next command only when no process of an earlier one
\* can print any more, whatever commands do and however they end.  That no process
\* of theirs runs any more is not claimed.
THEOREM OutputsDoNotMix == Spec => []OneCommandAtATime
<1>1. IInv => OneCommandAtATime
  BY DEF IInv, Typed, ReadToTheEnd, OneCommandAtATime, Streams
<1> QED BY Inductive, <1>1, PTL

\* kill() never meets a pid that may be somebody else's, unless the daemon was
\* started with SIGCHLD ignored: the thread stops polling when waitpid returns it.
THEOREM KillsTheRightProcess == Spec => []KillsOwnChild
<1>1. IInv => KillsOwnChild
  BY DEF IInv
<1> QED BY Inductive, <1>1, PTL

-----------------------------------------------------------------------------
(* The commands, from the socket to the child *)

IsSequence(s) == \E S : s \in Seq(S)

\* The first n messages of the queue are the commands that come next.
Waits(n) ==
  /\ n \in 0..Len(queue)
  /\ Len(received) = handled + n
  /\ \A i \in 1..n : queue[i] # KILL /\ queue[i] = received[handled + i]

\* !KILL comes behind all commands, and nothing behind !KILL.
QueueInv ==
  /\ IsSequence(queue) /\ IsSequence(received)
  /\ handled \in Nat
  /\ \/ input # "ended" /\ Waits(Len(queue))
     \/ input = "ended" /\ Len(queue) > 0 /\ queue[Len(queue)] = KILL /\ Waits(Len(queue) - 1)
     \/ input = "ended" /\ proc = "ended" /\ handled = Len(received)
  /\ proc = "ended" => errors \/ (handled = Len(received) /\ input = "ended")
  /\ main = "exited" => proc = "ended"

ForkInv ==
  LET expected == {i \in 1..handled : Runs(received[i])}
      served == {forked[i] : i \in DOMAIN forked}
  IN  /\ forked \in Seq(Nat)
      /\ \A i, j \in DOMAIN forked : i < j => forked[i] < forked[j]
      /\ \/ served = expected
         \/ errors /\ proc = "ended" /\ handled \in expected /\ served = expected \ {handled}

OrderInv == QueueInv /\ ForkInv

\* push_back and the front element of a deque.
LEMMA Pushed ==
  ASSUME NEW s, NEW e, IsSequence(s)
  PROVE  /\ IsSequence(Append(s, e)) /\ Len(s) \in Nat /\ Len(Append(s, e)) = Len(s) + 1
         /\ \A i \in 1..Len(s) : Append(s, e)[i] = s[i]
         /\ Append(s, e)[Len(s) + 1] = e
<1>1. PICK S : s \in Seq(S)
  BY DEF IsSequence
<1>2. s \in Seq(S \cup {e})
  BY <1>1
<1>3. Append(s, e) \in Seq(S \cup {e})
  BY <1>2
<1> QED BY <1>2, <1>3 DEF IsSequence

LEMMA Popped ==
  ASSUME NEW s, IsSequence(s), s # <<>>
  PROVE  /\ IsSequence(Tail(s)) /\ Len(s) \in Nat \ {0} /\ Len(Tail(s)) = Len(s) - 1 /\ Head(s) = s[1]
         /\ \A i \in 1..Len(s) - 1 : Tail(s)[i] = s[i + 1]
<1>1. PICK S : s \in Seq(S)
  BY DEF IsSequence
<1> QED BY <1>1 DEF IsSequence

\* A command that is received is no !KILL message.
LEMMA InputKeepsOrder ==
  ASSUME OrderInv, InputReceives
  PROVE  OrderInv'
<1>1. input = "recv" /\ input' # "ended" /\ UNCHANGED <<handled, forked, proc, errors, main>>
  BY DEF InputReceives, others, procVars, daemonVars
<1>2. CASE UNCHANGED <<queue, received>>
  BY <1>1, <1>2 DEF OrderInv, QueueInv, ForkInv, Waits
<1>3. CASE queue' = Append(queue, Head(socket)) /\ received' = Append(received, Head(socket)) /\ Head(socket).kind = "command"
  <2>0. /\ IsSequence(queue) /\ IsSequence(received) /\ handled \in Nat /\ Waits(Len(queue)) /\ (proc = "ended" => errors)
        /\ main = "exited" => proc = "ended"
    BY <1>1 DEF OrderInv, QueueInv
  <2>1. Head(socket) # KILL
    BY <1>3 DEF KILL
  <2>2. /\ IsSequence(queue') /\ Len(queue) \in Nat /\ Len(queue') = Len(queue) + 1
        /\ \A i \in 1..Len(queue) : queue'[i] = queue[i]
        /\ queue'[Len(queue) + 1] = Head(socket)
    BY <1>3, <2>0, Pushed
  <2>3. /\ IsSequence(received') /\ Len(received) \in Nat /\ Len(received') = Len(received) + 1
        /\ \A i \in 1..Len(received) : received'[i] = received[i]
        /\ received'[Len(received) + 1] = Head(socket)
    BY <1>3, <2>0, Pushed
  <2>4. Len(received) = handled + Len(queue) /\ \A i \in 1..Len(queue) : queue[i] # KILL /\ queue[i] = received[handled + i]
    BY <2>0 DEF Waits
  <2>5. Waits(Len(queue))'
    <3>1. ASSUME NEW i \in 1..Len(queue) + 1 PROVE queue'[i] # KILL /\ queue'[i] = received'[handled + i]
      <4>1. CASE i \in 1..Len(queue)
        <5>1. handled + i \in 1..Len(received)
          BY <2>0, <2>2, <2>4, <4>1
        <5> QED BY <2>2, <2>3, <2>4, <4>1, <5>1
      <4>2. CASE i = Len(queue) + 1
        <5>1. handled + i = Len(received) + 1
          BY <2>0, <2>2, <2>4, <4>2
        <5> QED BY <2>1, <2>2, <2>3, <4>2, <5>1
      <4> QED BY <2>2, <4>1, <4>2
    <3> QED BY <1>1, <2>0, <2>2, <2>3, <2>4, <3>1 DEF Waits
  <2>6. QueueInv'
    <3>1. main' = "exited" => proc' = "ended"
      BY <1>1, <2>0
    <3> QED BY <1>1, <2>0, <2>2, <2>3, <2>5, <3>1 DEF QueueInv
  <2>7. \A i \in 1..handled : received'[i] = received[i]
    BY <2>0, <2>2, <2>3, <2>4
  <2>8. {i \in 1..handled' : Runs(received'[i])} = {i \in 1..handled : Runs(received[i])}
    BY <1>1, <2>7
  <2>9. ForkInv'
    BY <1>1, <2>8 DEF OrderInv, ForkInv
  <2> QED BY <2>6, <2>9 DEF OrderInv
<1> QED BY <1>2, <1>3 DEF InputReceives

\* !KILL is pushed once.
LEMMA InputKillsLast ==
  ASSUME OrderInv, InputKills
  PROVE  OrderInv'
<1>1. /\ input = "kills" /\ input' = "ended" /\ UNCHANGED <<handled, forked, proc, errors, main, received>>
      /\ queue' = Append(queue, KILL)
  BY DEF InputKills, others, procVars, daemonVars
<1>2. IsSequence(queue) /\ IsSequence(received) /\ handled \in Nat /\ Waits(Len(queue)) /\ (proc = "ended" => errors) /\ (main = "exited" => proc = "ended")
  BY <1>1 DEF OrderInv, QueueInv
<1>3. /\ IsSequence(queue') /\ Len(queue) \in Nat /\ Len(queue') = Len(queue) + 1
      /\ \A i \in 1..Len(queue) : queue'[i] = queue[i]
      /\ queue'[Len(queue) + 1] = KILL
  BY <1>1, <1>2, Pushed
<1>4. Waits(Len(queue) - 1)'
  BY <1>1, <1>2, <1>3 DEF Waits
<1>5. QueueInv'
  BY <1>1, <1>2, <1>3, <1>4 DEF QueueInv
<1>6. ForkInv'
  BY <1>1 DEF OrderInv, ForkInv
<1> QED BY <1>5, <1>6 DEF OrderInv

\* The next command is the one received after those that were handled.
LEMMA NextCommand ==
  ASSUME OrderInv, ProcTakes, Head(queue) # KILL, handled' = handled + 1
  PROVE  /\ handled + 1 \in 1..Len(received) /\ Head(queue) = received[handled + 1]
         /\ proc' # "ended" \/ errors' => QueueInv'
<1>0. /\ IsSequence(queue) /\ IsSequence(received) /\ handled \in Nat /\ queue # <<>> /\ queue' = Tail(queue)
      /\ UNCHANGED <<received, input, main>> /\ proc = "take"
      /\ main = "exited" => proc = "ended"
  BY DEF OrderInv, QueueInv, ProcTakes, inputVars
<1>1. /\ IsSequence(queue') /\ Len(queue) \in Nat \ {0} /\ Len(queue') = Len(queue) - 1 /\ Head(queue) = queue[1]
      /\ \A i \in 1..Len(queue) - 1 : queue'[i] = queue[i + 1]
  BY <1>0, Popped
<1>2. PICK n \in 1..Len(queue) :
         /\ Waits(n)
         /\ \/ input # "ended" /\ n = Len(queue)
            \/ input = "ended" /\ n = Len(queue) - 1 /\ queue[Len(queue)] = KILL
  <2>1. CASE input # "ended"
    <3>1. Waits(Len(queue))
      BY <2>1 DEF OrderInv, QueueInv
    <3> QED BY <1>1, <2>1, <3>1
  <2>2. CASE input = "ended"
    <3>1. queue[Len(queue)] = KILL /\ Waits(Len(queue) - 1)
      BY <1>0, <2>2 DEF OrderInv, QueueInv
    <3>2. Len(queue) # 1
      BY <1>1, <3>1, Head(queue) # KILL
    <3> QED BY <1>1, <2>2, <3>1, <3>2
  <2> QED BY <2>1, <2>2
<1>3. Len(received) = handled + n /\ \A i \in 1..n : queue[i] # KILL /\ queue[i] = received[handled + i]
  BY <1>2 DEF Waits
<1>4. Waits(n - 1)'
  <2>1. ASSUME NEW i \in 1..n - 1 PROVE queue'[i] # KILL /\ queue'[i] = received[handled' + i]
    <3>1. i + 1 \in 1..n /\ i \in 1..Len(queue) - 1 /\ handled + (i + 1) = handled' + i
      BY <1>0, <1>1
    <3> QED BY <1>1, <1>3, <3>1
  <2> QED BY <1>0, <1>1, <1>3, <2>1 DEF Waits
<1>5. input = "ended" => Len(queue') > 0 /\ queue'[Len(queue')] = KILL /\ n - 1 = Len(queue') - 1
  BY <1>1, <1>2
<1>6. input # "ended" => n - 1 = Len(queue')
  BY <1>1, <1>2
<1>7. proc' # "ended" \/ errors' => QueueInv'
  <2>1. input # "ended" => Waits(Len(queue))'
    BY <1>0, <1>4, <1>6 DEF Waits
  <2>2. input = "ended" => Waits(Len(queue) - 1)'
    BY <1>0, <1>4, <1>5 DEF Waits
  <2>3. \/ input' # "ended" /\ Waits(Len(queue))'
        \/ input' = "ended" /\ Len(queue') > 0 /\ queue'[Len(queue')] = KILL /\ Waits(Len(queue) - 1)'
    BY <1>0, <1>5, <2>1, <2>2
  <2>4. IsSequence(queue') /\ IsSequence(received') /\ handled' \in Nat /\ main' # "exited"
    BY <1>0, <1>1
  <2> QED BY <2>3, <2>4 DEF QueueInv
<1> QED BY <1>0, <1>1, <1>3, <1>7

\* The commands handled are those handled before, and this one.
LEMMA Handling ==
  ASSUME OrderInv, ProcTakes, Head(queue) # KILL, handled' = handled + 1
  PROVE  /\ handled \in Nat /\ {forked[i] : i \in DOMAIN forked} = {i \in 1..handled : Runs(received[i])}
         /\ {i \in 1..handled' : Runs(received'[i])} =
              {i \in 1..handled : Runs(received[i])} \cup (IF Runs(Head(queue)) THEN {handled + 1} ELSE {})
<1>1. handled \in Nat /\ UNCHANGED received /\ Head(queue) = received[handled + 1] /\ proc # "ended"
  BY NextCommand DEF OrderInv, QueueInv, ProcTakes, inputVars
<1>2. {forked[i] : i \in DOMAIN forked} = {i \in 1..handled : Runs(received[i])}
  BY <1>1 DEF OrderInv, ForkInv
<1>3. 1..handled' = 1..handled \cup {handled + 1}
  BY <1>1
<1> QED BY <1>1, <1>2, <1>3

\* Only processing_task takes commands from the queue, and handles them in turn.
LEMMA ProcessingKeepsOrder ==
  ASSUME OrderInv, Proc
  PROVE  OrderInv'
<1>1. CASE ProcEnds
  <2>0. /\ IsSequence(queue) /\ IsSequence(received) /\ handled \in Nat /\ queue # <<>> /\ queue' = Tail(queue) /\ proc = "take" /\ proc' = "ended"
        /\ Head(queue) = KILL /\ UNCHANGED <<received, input, main, handled, forked, errors>>
    BY <1>1 DEF OrderInv, QueueInv, ProcEnds, ProcTakes, inputVars
  <2>1. IsSequence(queue') /\ Len(queue) \in Nat \ {0} /\ Head(queue) = queue[1]
    BY <2>0, Popped
  <2>2. input = "ended" /\ Waits(Len(queue) - 1)
    BY <2>0, <2>1 DEF OrderInv, QueueInv, Waits
  <2>3. Len(queue) - 1 = 0
    <3>1. 1 \notin 1..Len(queue) - 1
      BY <2>0, <2>1, <2>2 DEF Waits
    <3>2. Len(queue) \in Nat \ {0}
      BY <2>1
    <3> DEFINE n == Len(queue)
    <3> HIDE DEF n
    <3>3. n \in Nat \ {0} /\ 1 \notin 1..n - 1
      BY <3>1, <3>2 DEF n
    <3>4. n - 1 = 0
      BY <3>3
    <3> QED BY <3>4 DEF n
  <2>4. handled = Len(received)
    BY <2>0, <2>2, <2>3 DEF Waits
  <2>5. QueueInv'
    BY <2>0, <2>1, <2>2, <2>4 DEF QueueInv
  <2>6. ForkInv'
    BY <2>0 DEF OrderInv, ForkInv
  <2> QED BY <2>5, <2>6 DEF OrderInv
<1>2. CASE ProcRefuses
  <2>1. ProcTakes /\ Head(queue) # KILL /\ handled' = handled + 1 /\ ~Runs(Head(queue)) /\ UNCHANGED <<proc, forked>> /\ proc = "take"
    BY <1>2 DEF ProcRefuses, ProcTakes
  <2>2. ForkInv'
    BY <2>1, Handling DEF OrderInv, ForkInv
  <2> QED BY <2>1, <2>2, NextCommand DEF OrderInv
<1>3. CASE ProcForks
  <2>1. ProcTakes /\ Head(queue) # KILL /\ handled' = handled + 1 /\ Runs(Head(queue)) /\ proc' = "polls" /\ forked' = Append(forked, handled + 1)
    BY <1>3 DEF ProcForks
  <2>2. forked \in Seq(Nat) /\ handled \in Nat
    BY DEF OrderInv, ForkInv, QueueInv
  <2>3. /\ forked' \in Seq(Nat) /\ DOMAIN forked = 1..Len(forked) /\ Len(forked) \in Nat /\ DOMAIN forked' = 1..Len(forked) + 1
        /\ \A i \in 1..Len(forked) : forked'[i] = forked[i]
        /\ forked'[Len(forked) + 1] = handled + 1
    BY <2>1, <2>2
  <2>4. {forked'[i] : i \in DOMAIN forked'} = {forked[i] : i \in DOMAIN forked} \cup {handled + 1}
    BY <2>3
  <2>5. \A i \in DOMAIN forked : forked[i] <= handled
    BY <2>1, Handling
  <2>6. \A i, j \in DOMAIN forked' : i < j => forked'[i] < forked'[j]
    <3>1. \A i \in DOMAIN forked : forked[i] \in Nat
      BY <2>2
    <3>2. \A i, j \in DOMAIN forked : i < j => forked[i] < forked[j]
      BY DEF OrderInv, ForkInv
    <3>3. \A i \in DOMAIN forked' : i \in DOMAIN forked \/ i = Len(forked) + 1
      BY <2>3
    <3>4. \A i \in DOMAIN forked : forked'[i] = forked[i] /\ forked[i] < handled + 1 /\ i < Len(forked) + 1
      BY <2>2, <2>3, <2>5, <3>1
    <3> QED BY <2>3, <3>2, <3>3, <3>4
  <2>7. {forked'[i] : i \in DOMAIN forked'} = {i \in 1..handled' : Runs(received'[i])}
    BY <2>1, <2>4, Handling
  <2>8. ForkInv'
    BY <2>3, <2>6, <2>7 DEF ForkInv
  <2> QED BY <2>1, <2>8, NextCommand DEF OrderInv
<1>4. CASE ProcThrows
  <2>1. ProcTakes /\ Head(queue) # KILL /\ handled' = handled + 1 /\ Runs(Head(queue)) /\ errors' /\ proc' = "ended" /\ UNCHANGED forked
    BY <1>4 DEF ProcThrows
  <2>2. handled' \in {i \in 1..handled' : Runs(received'[i])} /\ handled' \notin 1..handled
    BY <2>1, Handling
  <2>3. {forked[i] : i \in DOMAIN forked} = {i \in 1..handled' : Runs(received'[i])} \ {handled'}
    BY <2>1, <2>2, Handling
  <2>4. ForkInv'
    BY <2>1, <2>2, <2>3 DEF OrderInv, ForkInv
  <2> QED BY <2>1, <2>4, NextCommand DEF OrderInv
<1>5. CASE Poll \/ ProcKills \/ Read
  <2>1. UNCHANGED <<queue, received, handled, forked, input, errors, main>> /\ proc # "ended" /\ proc' # "ended"
    BY <1>5 DEF Poll, PollWaits, PollExpires, PollReaps, PollFails, ProcKills, Read, Reads, ReadsEnd, Following, Streams,
                polling, daemonVars, inputVars, procVars
  <2>2. QueueInv'
    BY <2>1 DEF OrderInv, QueueInv, Waits
  <2>3. ForkInv'
    BY <2>1 DEF OrderInv, ForkInv
  <2> QED BY <2>2, <2>3 DEF OrderInv
<1> QED BY <1>1, <1>2, <1>3, <1>4, <1>5 DEF Proc

\* No other step touches the queue.
LEMMA OthersKeepOrder ==
  ASSUME OrderInv, Main \/ MainSignal \/ Arrive \/ InputBinds \/ InputThrows \/ InputCheck \/ InputTimeout \/ Child \/ Rest \/ UNCHANGED vars
  PROVE  OrderInv'
<1>1. CASE Main \/ MainSignal
  <2>1. /\ UNCHANGED <<queue, received, handled, forked, input, proc, errors>>
        /\ main' = "exited" => proc = "ended"
    BY <1>1 DEF Main, MainPolls, MainStops, MainExits, MainSignal, inputVars, procVars
  <2>2. QueueInv'
    BY <2>1 DEF OrderInv, QueueInv, Waits
  <2>3. ForkInv'
    BY <2>1 DEF OrderInv, ForkInv
  <2> QED BY <2>2, <2>3 DEF OrderInv
<1>2. CASE InputBinds \/ InputThrows \/ InputCheck \/ InputTimeout
  <2>1. /\ UNCHANGED <<queue, received, handled, forked, proc, main>> /\ (errors => errors')
        /\ input # "ended" /\ input' # "ended"
    BY <1>2 DEF InputBinds, InputThrows, InputCheck, InputTimeout, others, procVars, daemonVars
  <2>2. QueueInv'
    BY <2>1 DEF OrderInv, QueueInv, Waits
  <2>3. ForkInv'
    BY <2>1 DEF OrderInv, ForkInv
  <2> QED BY <2>2, <2>3 DEF OrderInv
<1>3. CASE Arrive \/ Child \/ Rest \/ UNCHANGED vars
  <2>1. UNCHANGED <<queue, received, handled, forked, proc, main, errors, input>>
    BY <1>3 DEF Arrive, Child, Rest, ChildExecs, ChildFails, ChildPrints, ChildSpawns, ChildDies, RestPrints, RestDies, vars, world,
                others, inputVars, procVars, daemonVars
  <2>2. QueueInv'
    BY <2>1 DEF OrderInv, QueueInv, Waits
  <2>3. ForkInv'
    BY <2>1 DEF OrderInv, ForkInv
  <2> QED BY <2>2, <2>3 DEF OrderInv
<1> QED BY <1>1, <1>2, <1>3

\* A child is forked for each command the configuration lets run, in the order of
\* their arrival, and an orderly shutdown leaves no command behind: ForkedInOrder
\* (input_task and processing_task).
THEOREM CommandsRunInOrder == Spec => []ForkedInOrder
<1>1. Init => OrderInv
  <2>1. ASSUME Init PROVE QueueInv
    <3>1. IsSequence(<<>>)
      <4>1. <<>> \in Seq({})
        OBVIOUS
      <4> QED BY <4>1 DEF IsSequence
    <3> QED BY <2>1, <3>1 DEF Init, QueueInv, Waits
  <2>2. ASSUME Init PROVE ForkInv
    BY <2>2 DEF Init, ForkInv
  <2> QED BY <2>1, <2>2 DEF OrderInv
<1>2. OrderInv /\ [Next]_vars => OrderInv'
  BY InputKeepsOrder, InputKillsLast, ProcessingKeepsOrder, OthersKeepOrder DEF Next, Input
<1>3. OrderInv => ForkedInOrder
  BY DEF OrderInv, QueueInv, ForkInv, ForkedInOrder
<1> QED BY <1>1, <1>2, <1>3, PTL DEF Spec
================================================================================
