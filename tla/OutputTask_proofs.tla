--------------------------- MODULE OutputTask_proofs ---------------------------
(***************************************************************************)
(* Proofs about OutputTask: no event is lost, none is delivered twice, the *)
(* delivery order, what a shutdown may discard, and that the thread        *)
(* implements EventChannel.  All of them follow from one inductive         *)
(* invariant, IInv.                                                        *)
(***************************************************************************)
EXTENDS OutputTask, TLAPS

\* The events in the shared queue: in push order, none of them newer than
\* the last push, none of them seen by the thread before.
QueueInOrder ==
  /\ \A i, j \in DOMAIN queue :
       i < j /\ queue[i] # KILL /\ queue[j] # KILL => queue[i] < queue[j]
  /\ \A i \in DOMAIN queue : queue[i] <= pushed
  /\ \A i \in DOMAIN queue :
       queue[i] # KILL => /\ current < queue[i]
                          /\ \A k \in DOMAIN localQueue : localQueue[k] < queue[i]
                          /\ \A k \in DOMAIN sent : sent[k] < queue[i]

\* The event in the hands of the thread: there is one exactly while it is
\* being sent, and it is newer than everything taken before it.
CurrentIsNewest ==
  /\ pc = "send" <=> current # None
  /\ current # None =>
       /\ current <= pushed
       /\ \A k \in DOMAIN localQueue : localQueue[k] < current
       /\ \A k \in DOMAIN sent : sent[k] < current

\* local_queue and the deliveries are disjoint; deferred events are in
\* local_queue, in order, or delivered before all that are still there.
LocalInOrder ==
  /\ Increasing(localQueue)
  /\ \A k \in DOMAIN localQueue : localQueue[k] \in deferred /\ localQueue[k] <= pushed
  /\ deferred \subseteq Range(localQueue) \cup Range(sent)
  /\ \A i \in DOMAIN sent, k \in DOMAIN localQueue :
       /\ sent[i] # localQueue[k]
       /\ sent[i] \in deferred => sent[i] < localQueue[k]

SentOnce ==
  /\ \A i \in DOMAIN sent : sent[i] <= pushed
  /\ \A i, j \in DOMAIN sent : sent[i] = sent[j] => i = j

\* Where the !KILL message is: behind the events pushed before it and ahead of
\* the others; once it is gone from the queue the thread takes nothing more.
KillInOrder ==
  /\ killMark = NoKill => \A i \in DOMAIN queue : queue[i] # KILL
  /\ killMark = NoKill => pc \notin {"drain", "stopped"}
  /\ killMark # NoKill => killMark <= pushed
  /\ \A i, j \in DOMAIN queue :
       queue[i] = KILL => /\ queue[j] = KILL => i = j
                          /\ j < i => queue[j] <= killMark
                          /\ i < j => killMark < queue[j]
                          /\ pc \notin {"drain", "stopped"}
  /\ pc \in {"drain", "stopped"} =>
       \A i \in DOMAIN queue : queue[i] # KILL /\ killMark < queue[i]
  /\ killMark # NoKill /\ pc \notin {"drain", "stopped"} =>
       \E i \in DOMAIN queue : queue[i] = KILL
  /\ pc = "stopped" /\ localQueue # <<>> => sinkFailed

IInv ==
  /\ TypeOK
  /\ QueueInOrder
  /\ CurrentIsNewest
  /\ LocalInOrder
  /\ SentOnce
  /\ OvertakenOnlyIfDeferred
  /\ KillInOrder
  /\ NothingLost

-----------------------------------------------------------------------------
(* Facts about numbers, and about pushing to and popping from a queue.     *)

\* The types of single elements, which is all that most steps need of TypeOK.
Numbers ==
  /\ pushed \in Nat /\ current \in Nat /\ killMark \in Nat /\ NoKill \in Nat
  /\ pushed < NoKill
  /\ \A i \in DOMAIN queue : i \in Nat /\ queue[i] \in Nat
  /\ \A i \in DOMAIN localQueue : i \in Nat /\ localQueue[i] \in Nat \ {0}
  /\ \A i \in DOMAIN sent : i \in Nat /\ sent[i] \in Nat \ {0}
  /\ deferred \subseteq Nat \ {0}

\* t is s with e pushed to its end.
PushedTo(s, e, t) ==
  /\ Len(s) \in Nat
  /\ DOMAIN s = 1..Len(s)
  /\ DOMAIN t = 1..(Len(s) + 1)
  /\ \A i \in 1..Len(s) : t[i] = s[i]
  /\ t[Len(s) + 1] = e
  /\ Range(t) = Range(s) \cup {e}

\* t is s without its front element.
PoppedFrom(s, t) ==
  /\ 1 \in DOMAIN s
  /\ s[1] = Head(s)
  /\ DOMAIN s \subseteq Nat \ {0}
  /\ \A i \in DOMAIN t : i \in Nat /\ 1 < i + 1 /\ i + 1 \in DOMAIN s /\ t[i] = s[i + 1]
  /\ \A i \in DOMAIN s : i # 1 => i - 1 \in DOMAIN t /\ t[i - 1] = s[i]
  /\ Range(s) = {Head(s)} \cup Range(t)

\* TypeOK gives the types of the elements.
LEMMA TypesOfElements == TypeOK => Numbers
  BY MaxEventsAssumption DEF TypeOK, Numbers, Events, NoKill

\* What blocked_queue::emplace and std::queue::emplace do to a queue.
LEMMA Pushing ==
  ASSUME NEW S, NEW s \in Seq(S), NEW e \in S
  PROVE  Append(s, e) \in Seq(S) /\ PushedTo(s, e, Append(s, e))
<1>1. /\ Append(s, e) \in Seq(S)
      /\ DOMAIN s = 1..Len(s)
      /\ DOMAIN Append(s, e) = 1..(Len(s) + 1)
      /\ Len(s) \in Nat
      /\ \A i \in 1..Len(s) : Append(s, e)[i] = s[i]
      /\ Append(s, e)[Len(s) + 1] = e
  OBVIOUS
<1>2. Range(Append(s, e)) = Range(s) \cup {e}
  BY <1>1 DEF Range
<1>3. QED
  BY <1>1, <1>2 DEF PushedTo

\* What taking the front element does to a queue.
LEMMA Popping ==
  ASSUME NEW S, NEW s \in Seq(S), s # <<>>
  PROVE  Tail(s) \in Seq(S) /\ Head(s) \in S /\ PoppedFrom(s, Tail(s))
<1>1. /\ DOMAIN s = 1..Len(s)
      /\ Len(s) \in Nat \ {0}
      /\ DOMAIN Tail(s) = 1..(Len(s) - 1)
      /\ \A i \in 1..(Len(s) - 1) : Tail(s)[i] = s[i + 1]
  OBVIOUS
<1>2. /\ Tail(s) \in Seq(S)
      /\ s[1] = Head(s)
      /\ Head(s) \in S
  OBVIOUS
<1>3. /\ 1 \in DOMAIN s
      /\ DOMAIN s \subseteq Nat \ {0}
      /\ \A i \in DOMAIN Tail(s) :
           i \in Nat /\ 1 < i + 1 /\ i + 1 \in DOMAIN s /\ Tail(s)[i] = s[i + 1]
  BY <1>1
<1>4. ASSUME NEW i \in DOMAIN s, i # 1
      PROVE  i - 1 \in DOMAIN Tail(s) /\ Tail(s)[i - 1] = s[i]
  <2>1. i - 1 \in 1..(Len(s) - 1) /\ i = (i - 1) + 1
    BY <1>1, <1>4
  <2>2. QED
    BY <1>1, <2>1
<1>5. Range(s) = {Head(s)} \cup Range(Tail(s))
  <2>1. ASSUME NEW x \in Range(s), x # Head(s)
        PROVE  x \in Range(Tail(s))
    <3>1. PICK i \in DOMAIN s : x = s[i]
      BY DEF Range
    <3>2. i # 1
      BY <1>2, <2>1, <3>1
    <3>3. QED
      BY <1>4, <3>1, <3>2 DEF Range
  <2>2. ASSUME NEW x \in Range(Tail(s))
        PROVE  x \in Range(s)
    BY <1>3 DEF Range
  <2>3. Head(s) \in Range(s)
    BY <1>2, <1>3 DEF Range
  <2>4. QED
    BY <2>1, <2>2, <2>3
<1>6. QED
  BY <1>2, <1>3, <1>4, <1>5 DEF PoppedFrom

-----------------------------------------------------------------------------
(* The inductive invariant: one lemma per action, one step per conjunct.   *)

\* The thread starts with nothing taken, kept or sent.
LEMMA InitEstablishes == Init => IInv
<1> SUFFICES ASSUME Init PROVE IInv
  OBVIOUS
<1>1. /\ queue = <<>> /\ localQueue = <<>> /\ sent = <<>>
      /\ DOMAIN queue = {} /\ DOMAIN localQueue = {} /\ DOMAIN sent = {}
      /\ Range(queue) = {} /\ Range(localQueue) = {} /\ Range(sent) = {}
  BY DEF Init, Range
<1>2. TypeOK
  <2>1. queue \in Seq(Nat) /\ localQueue \in Seq(Events) /\ sent \in Seq(Events)
    BY <1>1
  <2>2. pushed \in 0..MaxEvents /\ killMark \in 0..NoKill
    BY MaxEventsAssumption DEF Init, NoKill
  <2>3. current \in Nat /\ deferred \subseteq Events /\ sinkFailed \in BOOLEAN
    BY DEF Init, None
  <2>4. QED
    BY <2>1, <2>2, <2>3 DEF Init, TypeOK
<1>3. QueueInOrder /\ CurrentIsNewest /\ LocalInOrder /\ SentOnce
  BY <1>1 DEF Init, QueueInOrder, CurrentIsNewest, LocalInOrder, SentOnce, Increasing
<1>4. OvertakenOnlyIfDeferred /\ KillInOrder
  BY <1>1 DEF Init, OvertakenOnlyIfDeferred, KillInOrder
<1>5. NothingLost
  BY DEF Init, NothingLost
<1>6. QED
  BY <1>2, <1>3, <1>4, <1>5 DEF IInv

\* A producer's emplace: the new event is the newest of all.
LEMMA PushPreserves == IInv /\ Push => IInv'
<1> SUFFICES ASSUME IInv, Push PROVE IInv'
  OBVIOUS
<1> USE DEF IInv, KILL, None
<1>1. Numbers
  BY TypesOfElements
<1>2. queue' \in Seq(Nat) /\ PushedTo(queue, pushed + 1, queue')
  <2>1. queue \in Seq(Nat) /\ pushed + 1 \in Nat /\ queue' = Append(queue, pushed + 1)
    BY <1>1 DEF TypeOK, Push, Events, CurrentIsNewest, Numbers
  <2>2. QED
    BY <2>1, Pushing
<1>3. TypeOK'
  BY MaxEventsAssumption, <1>1, <1>2 DEF Push, Numbers, PushedTo, TypeOK, Events, NoKill
<1>4. QueueInOrder'
  BY <1>1, <1>2 DEF Push, Numbers, PushedTo, QueueInOrder, CurrentIsNewest, LocalInOrder, SentOnce
<1>5. CurrentIsNewest'
  BY <1>1, <1>2 DEF Push, Numbers, PushedTo, CurrentIsNewest
<1>6. LocalInOrder'
  BY <1>1, <1>2 DEF Push, Numbers, PushedTo, LocalInOrder, Increasing
<1>7. SentOnce'
  BY <1>1, <1>2 DEF Push, Numbers, PushedTo, SentOnce
<1>8. OvertakenOnlyIfDeferred'
  BY <1>1, <1>2 DEF Push, Numbers, PushedTo, OvertakenOnlyIfDeferred
<1>9. KillInOrder'
  BY <1>1, <1>2 DEF Push, Numbers, PushedTo, KillInOrder
<1>10. NothingLost'
  BY <1>1, <1>2 DEF Push, Numbers, PushedTo, NothingLost
<1>11. QED
  BY <1>3, <1>4, <1>5, <1>6, <1>7, <1>8, <1>9, <1>10

\* The shutdown's emplace of !KILL: everything pushed so far is ahead of it.
LEMMA PushKillPreserves == IInv /\ PushKill => IInv'
<1> SUFFICES ASSUME IInv, PushKill PROVE IInv'
  OBVIOUS
<1> USE DEF IInv, KILL, None
<1>1. Numbers
  BY TypesOfElements
<1>2. queue' \in Seq(Nat) /\ PushedTo(queue, KILL, queue')
  <2>1. queue \in Seq(Nat) /\ KILL \in Nat /\ queue' = Append(queue, KILL)
    BY <1>1 DEF TypeOK, PushKill, Events, CurrentIsNewest, Numbers
  <2>2. QED
    BY <2>1, Pushing
<1>3. TypeOK'
  BY MaxEventsAssumption, <1>1, <1>2 DEF PushKill, Numbers, PushedTo, TypeOK, Events, NoKill
<1>4. QueueInOrder'
  BY <1>1, <1>2 DEF PushKill, Numbers, PushedTo, QueueInOrder
<1>5. CurrentIsNewest'
  BY <1>1, <1>2 DEF PushKill, Numbers, PushedTo, CurrentIsNewest
<1>6. LocalInOrder'
  BY <1>1, <1>2 DEF PushKill, Numbers, PushedTo, LocalInOrder, Increasing
<1>7. SentOnce'
  BY <1>1, <1>2 DEF PushKill, Numbers, PushedTo, SentOnce
<1>8. OvertakenOnlyIfDeferred'
  BY <1>1, <1>2 DEF PushKill, Numbers, PushedTo, OvertakenOnlyIfDeferred
<1>9. KillInOrder'
  BY <1>1, <1>2 DEF PushKill, Numbers, PushedTo, KillInOrder, QueueInOrder
<1>10. NothingLost'
  BY <1>1, <1>2 DEF PushKill, Numbers, PushedTo, NothingLost
<1>11. QED
  BY <1>3, <1>4, <1>5, <1>6, <1>7, <1>8, <1>9, <1>10

\* queue.take returns an event: it is newer than all the thread has seen.
LEMMA TakeEventPreserves == IInv /\ TakeEvent => IInv'
<1> SUFFICES ASSUME IInv, TakeEvent PROVE IInv'
  OBVIOUS
<1> USE DEF IInv, KILL, None
<1>1. Numbers
  BY TypesOfElements
<1>2. queue' \in Seq(Nat) /\ Head(queue) \in Nat /\ PoppedFrom(queue, queue')
  <2>1. queue \in Seq(Nat) /\ queue # <<>> /\ queue' = Tail(queue)
    BY DEF TypeOK, TakeEvent
  <2>2. QED
    BY <2>1, Popping
<1>3. TypeOK'
  BY MaxEventsAssumption, <1>1, <1>2 DEF TakeEvent, Numbers, PoppedFrom, TypeOK, Events, NoKill
<1>4. QueueInOrder'
  BY <1>1, <1>2 DEF TakeEvent, Numbers, PoppedFrom, QueueInOrder
<1>5. CurrentIsNewest'
  BY <1>1, <1>2 DEF TakeEvent, Numbers, PoppedFrom, CurrentIsNewest, QueueInOrder
<1>6. LocalInOrder'
  BY <1>1, <1>2 DEF TakeEvent, Numbers, PoppedFrom, LocalInOrder, Increasing
<1>7. SentOnce'
  BY <1>1, <1>2 DEF TakeEvent, Numbers, PoppedFrom, SentOnce
<1>8. OvertakenOnlyIfDeferred'
  BY <1>1, <1>2 DEF TakeEvent, Numbers, PoppedFrom, OvertakenOnlyIfDeferred
<1>9. KillInOrder'
  <2>1. killMark' = killMark /\ pushed' = pushed /\ pc = "take" /\ pc' = "send"
    BY DEF TakeEvent
  <2>2. \A i \in DOMAIN queue' : queue'[i] = queue[i + 1] /\ i + 1 \in DOMAIN queue
    BY <1>2 DEF PoppedFrom
  <2>3. ASSUME NEW i \in DOMAIN queue', NEW j \in DOMAIN queue', queue'[i] = KILL
        PROVE  /\ queue'[j] = KILL => i = j
               /\ j < i => queue'[j] <= killMark
               /\ i < j => killMark < queue'[j]
    <3>1. i \in Nat /\ j \in Nat /\ i + 1 \in DOMAIN queue /\ j + 1 \in DOMAIN queue
      BY <1>2 DEF PoppedFrom
    <3>2. QED
      BY <2>2, <2>3, <3>1 DEF KillInOrder
  <2>4. killMark # NoKill => \E i \in DOMAIN queue' : queue'[i] = KILL
    <3>1. SUFFICES ASSUME killMark # NoKill PROVE \E i \in DOMAIN queue' : queue'[i] = KILL
      OBVIOUS
    <3>2. PICK k \in DOMAIN queue : queue[k] = KILL
      BY <2>1, <3>1 DEF KillInOrder
    <3>3. k # 1
      BY <1>2, <3>2 DEF PoppedFrom, TakeEvent
    <3>4. QED
      BY <1>2, <3>2, <3>3 DEF PoppedFrom
  <2>5. QED
    BY <2>1, <2>2, <2>3, <2>4 DEF KillInOrder, NoKill
<1>10. NothingLost'
  BY <1>1, <1>2 DEF TakeEvent, Numbers, NothingLost, CurrentIsNewest, PoppedFrom
<1>11. QED
  BY <1>3, <1>4, <1>5, <1>6, <1>7, <1>8, <1>9, <1>10

\* queue.take returns !KILL: only events pushed after it are left.
LEMMA TakeKillPreserves == IInv /\ TakeKill => IInv'
<1> SUFFICES ASSUME IInv, TakeKill PROVE IInv'
  OBVIOUS
<1> USE DEF IInv, KILL, None
<1>1. Numbers
  BY TypesOfElements
<1>2. queue' \in Seq(Nat) /\ Head(queue) \in Nat /\ PoppedFrom(queue, queue')
  <2>1. queue \in Seq(Nat) /\ queue # <<>> /\ queue' = Tail(queue)
    BY DEF TypeOK, TakeKill
  <2>2. QED
    BY <2>1, Popping
<1>3. TypeOK'
  BY MaxEventsAssumption, <1>1, <1>2 DEF TakeKill, Numbers, PoppedFrom, TypeOK, Events, NoKill
<1>4. QueueInOrder'
  BY <1>1, <1>2 DEF TakeKill, Numbers, PoppedFrom, QueueInOrder
<1>5. CurrentIsNewest'
  BY <1>1, <1>2 DEF TakeKill, Numbers, PoppedFrom, CurrentIsNewest
<1>6. LocalInOrder'
  BY <1>1, <1>2 DEF TakeKill, Numbers, PoppedFrom, LocalInOrder, Increasing
<1>7. SentOnce'
  BY <1>1, <1>2 DEF TakeKill, Numbers, PoppedFrom, SentOnce
<1>8. OvertakenOnlyIfDeferred'
  BY <1>1, <1>2 DEF TakeKill, Numbers, PoppedFrom, OvertakenOnlyIfDeferred
<1>9. KillInOrder'
  BY <1>1, <1>2 DEF TakeKill, Numbers, PoppedFrom, KillInOrder
<1>10. NothingLost'
  BY <1>1, <1>2 DEF TakeKill, Numbers, PoppedFrom, NothingLost
<1>11. QED
  BY <1>3, <1>4, <1>5, <1>6, <1>7, <1>8, <1>9, <1>10

\* queue.take times out: the queue is empty.
LEMMA TakeTimeoutPreserves == IInv /\ TakeTimeout => IInv'
<1> SUFFICES ASSUME IInv, TakeTimeout PROVE IInv'
  OBVIOUS
<1> USE DEF IInv, KILL, None
<1>1. Numbers
  BY TypesOfElements
<1>2. TypeOK'
  BY MaxEventsAssumption, <1>1 DEF TakeTimeout, Numbers, TypeOK, Events, NoKill
<1>3. QueueInOrder'
  BY <1>1 DEF TakeTimeout, Numbers, QueueInOrder
<1>4. CurrentIsNewest'
  BY <1>1 DEF TakeTimeout, Numbers, CurrentIsNewest
<1>5. LocalInOrder'
  BY <1>1 DEF TakeTimeout, Numbers, LocalInOrder, Increasing
<1>6. SentOnce'
  BY <1>1 DEF TakeTimeout, Numbers, SentOnce
<1>7. OvertakenOnlyIfDeferred'
  BY <1>1 DEF TakeTimeout, Numbers, OvertakenOnlyIfDeferred
<1>8. KillInOrder'
  BY <1>1 DEF TakeTimeout, Numbers, KillInOrder
<1>9. NothingLost'
  BY <1>1 DEF TakeTimeout, Numbers, NothingLost
<1>10. QED
  BY <1>2, <1>3, <1>4, <1>5, <1>6, <1>7, <1>8, <1>9

\* The first attempt succeeds: the event is newer than all delivered ones.
LEMMA SendOkPreserves == IInv /\ SendOk => IInv'
<1> SUFFICES ASSUME IInv, SendOk PROVE IInv'
  OBVIOUS
<1> USE DEF IInv, KILL, None
<1>1. Numbers
  BY TypesOfElements
<1>2. sent' \in Seq(Events) /\ PushedTo(sent, current, sent')
  <2>1. sent \in Seq(Events) /\ current \in Events /\ sent' = Append(sent, current)
    BY <1>1 DEF TypeOK, SendOk, Events, CurrentIsNewest, Numbers
  <2>2. QED
    BY <2>1, Pushing
<1>3. TypeOK'
  BY MaxEventsAssumption, <1>1, <1>2 DEF SendOk, Numbers, PushedTo, TypeOK, Events, NoKill
<1>4. QueueInOrder'
  BY <1>1, <1>2 DEF SendOk, Numbers, PushedTo, QueueInOrder
<1>5. CurrentIsNewest'
  BY <1>1, <1>2 DEF SendOk, Numbers, PushedTo, CurrentIsNewest
<1>6. LocalInOrder'
  BY <1>1, <1>2 DEF SendOk, Numbers, PushedTo, LocalInOrder, Increasing, CurrentIsNewest, Range
<1>7. SentOnce'
  BY <1>1, <1>2 DEF SendOk, Numbers, PushedTo, SentOnce, CurrentIsNewest
<1>8. OvertakenOnlyIfDeferred'
  BY <1>1, <1>2 DEF SendOk, Numbers, PushedTo, OvertakenOnlyIfDeferred, CurrentIsNewest
<1>9. KillInOrder'
  BY <1>1, <1>2 DEF SendOk, Numbers, PushedTo, KillInOrder
<1>10. NothingLost'
  BY <1>1, <1>2 DEF SendOk, Numbers, PushedTo, NothingLost
<1>11. QED
  BY <1>3, <1>4, <1>5, <1>6, <1>7, <1>8, <1>9, <1>10

\* The first attempt fails: the event is newer than all of local_queue.
LEMMA SendFailPreserves == IInv /\ SendFail => IInv'
<1> SUFFICES ASSUME IInv, SendFail PROVE IInv'
  OBVIOUS
<1> USE DEF IInv, KILL, None
<1>1. Numbers
  BY TypesOfElements
<1>2. localQueue' \in Seq(Events) /\ PushedTo(localQueue, current, localQueue')
  <2>1. localQueue \in Seq(Events) /\ current \in Events /\ localQueue' = Append(localQueue, current)
    BY <1>1 DEF TypeOK, SendFail, Events, CurrentIsNewest, Numbers
  <2>2. QED
    BY <2>1, Pushing
<1>3. TypeOK'
  BY MaxEventsAssumption, <1>1, <1>2 DEF SendFail, Numbers, PushedTo, TypeOK, Events, NoKill
<1>4. QueueInOrder'
  BY <1>1, <1>2 DEF SendFail, Numbers, PushedTo, QueueInOrder
<1>5. CurrentIsNewest'
  BY <1>1, <1>2 DEF SendFail, Numbers, PushedTo, CurrentIsNewest
<1>6. LocalInOrder'
  <2>1. Increasing(localQueue')
    BY <1>1, <1>2 DEF SendFail, Numbers, PushedTo, LocalInOrder, Increasing, CurrentIsNewest
  <2>2. \A k \in DOMAIN localQueue' : localQueue'[k] \in deferred' /\ localQueue'[k] <= pushed'
    BY <1>1, <1>2 DEF SendFail, Numbers, PushedTo, LocalInOrder, CurrentIsNewest
  <2>3. deferred' \subseteq Range(localQueue') \cup Range(sent')
    BY <1>2 DEF SendFail, PushedTo, LocalInOrder
  <2>4. ASSUME NEW i \in DOMAIN sent', NEW k \in DOMAIN localQueue'
        PROVE  /\ sent'[i] # localQueue'[k]
               /\ sent'[i] \in deferred' => sent'[i] < localQueue'[k]
    BY <1>1, <1>2, <2>4 DEF SendFail, Numbers, PushedTo, LocalInOrder, CurrentIsNewest
  <2>5. QED
    BY <2>1, <2>2, <2>3, <2>4 DEF LocalInOrder
<1>7. SentOnce'
  BY <1>1, <1>2 DEF SendFail, Numbers, PushedTo, SentOnce
<1>8. OvertakenOnlyIfDeferred'
  BY <1>1, <1>2 DEF SendFail, Numbers, PushedTo, OvertakenOnlyIfDeferred, CurrentIsNewest
<1>9. KillInOrder'
  BY <1>1, <1>2 DEF SendFail, Numbers, PushedTo, KillInOrder
<1>10. NothingLost'
  BY <1>1, <1>2 DEF SendFail, Numbers, PushedTo, NothingLost
<1>11. QED
  BY <1>3, <1>4, <1>5, <1>6, <1>7, <1>8, <1>9, <1>10

\* A resend succeeds: the front of local_queue moves to the deliveries.
LEMMA ResendOkPreserves == IInv /\ ResendOk => IInv'
<1> SUFFICES ASSUME IInv, ResendOk PROVE IInv'
  OBVIOUS
<1> USE DEF IInv, KILL, None, AfterResend
<1>1. Numbers
  BY TypesOfElements
<1>2. localQueue' \in Seq(Events) /\ Head(localQueue) \in Events /\ PoppedFrom(localQueue, localQueue')
  <2>1. localQueue \in Seq(Events) /\ localQueue # <<>> /\ localQueue' = Tail(localQueue)
    BY DEF TypeOK, ResendOk
  <2>2. QED
    BY <2>1, Popping
<1>3. sent' \in Seq(Events) /\ PushedTo(sent, Head(localQueue), sent')
  <2>1. sent \in Seq(Events) /\ sent' = Append(sent, Head(localQueue))
    BY DEF TypeOK, ResendOk
  <2>2. QED
    BY <1>2, <2>1, Pushing
<1>4. TypeOK'
  <2>1. sent' \in Seq(Events)
    BY <1>3
  <2>2. QED
    BY <1>2, <2>1 DEF TypeOK, ResendOk
<1>5. QueueInOrder'
  BY <1>1, <1>2, <1>3 DEF ResendOk, Numbers, PoppedFrom, PushedTo, QueueInOrder
<1>6. CurrentIsNewest'
  BY <1>1, <1>2, <1>3 DEF ResendOk, Numbers, PoppedFrom, PushedTo, CurrentIsNewest
<1>7. LocalInOrder'
  <2>1. Increasing(localQueue')
    BY <1>2 DEF PoppedFrom, LocalInOrder, Increasing
  <2>2. \A k \in DOMAIN localQueue' : localQueue'[k] \in deferred' /\ localQueue'[k] <= pushed'
    BY <1>2 DEF ResendOk, PoppedFrom, LocalInOrder
  <2>3. deferred' \subseteq Range(localQueue') \cup Range(sent')
    BY <1>2, <1>3 DEF ResendOk, PoppedFrom, PushedTo, LocalInOrder
  <2>4. \A k \in DOMAIN localQueue' : Head(localQueue) < localQueue'[k]
    BY <1>2 DEF PoppedFrom, LocalInOrder, Increasing
  <2>5. ASSUME NEW i \in DOMAIN sent', NEW k \in DOMAIN localQueue'
        PROVE  /\ sent'[i] # localQueue'[k]
               /\ sent'[i] \in deferred' => sent'[i] < localQueue'[k]
    <3>1. CASE i \in DOMAIN sent
      BY <1>2, <1>3, <3>1 DEF ResendOk, PoppedFrom, PushedTo, LocalInOrder
    <3>2. CASE i \notin DOMAIN sent
      <4>1. sent'[i] = Head(localQueue)
        BY <1>3, <3>2 DEF PushedTo
      <4>2. sent'[i] < localQueue'[k]
        BY <2>4, <4>1
      <4>3. sent'[i] \in Nat /\ localQueue'[k] \in Nat
        BY <1>1, <1>2, <4>1 DEF Numbers, PoppedFrom
      <4>4. QED
        BY <4>2, <4>3
    <3>3. QED
      BY <3>1, <3>2
  <2>6. QED
    BY <2>1, <2>2, <2>3, <2>5 DEF LocalInOrder
<1>8. SentOnce'
  BY <1>1, <1>2, <1>3 DEF ResendOk, Numbers, PoppedFrom, PushedTo, SentOnce, LocalInOrder
<1>9. OvertakenOnlyIfDeferred'
  BY <1>1, <1>2, <1>3 DEF ResendOk, Numbers, PoppedFrom, PushedTo, OvertakenOnlyIfDeferred, LocalInOrder
<1>10. KillInOrder'
  BY <1>1, <1>2 DEF ResendOk, Numbers, PoppedFrom, KillInOrder
<1>11. NothingLost'
  BY <1>2, <1>3 DEF ResendOk, PoppedFrom, PushedTo, NothingLost
<1>12. QED
  BY <1>4, <1>5, <1>6, <1>7, <1>8, <1>9, <1>10, <1>11

\* A resend fails: the loop ends and local_queue stays as it is.
LEMMA ResendFailPreserves == IInv /\ ResendFail => IInv'
<1> SUFFICES ASSUME IInv, ResendFail PROVE IInv'
  OBVIOUS
<1> USE DEF IInv, KILL, None, AfterResend
<1>1. Numbers
  BY TypesOfElements
<1>2. TypeOK'
  BY MaxEventsAssumption, <1>1 DEF ResendFail, Numbers, TypeOK, Events, NoKill
<1>3. QueueInOrder'
  BY <1>1 DEF ResendFail, Numbers, QueueInOrder
<1>4. CurrentIsNewest'
  BY <1>1 DEF ResendFail, Numbers, CurrentIsNewest
<1>5. LocalInOrder'
  BY <1>1 DEF ResendFail, Numbers, LocalInOrder, Increasing
<1>6. SentOnce'
  BY <1>1 DEF ResendFail, Numbers, SentOnce
<1>7. OvertakenOnlyIfDeferred'
  BY <1>1 DEF ResendFail, Numbers, OvertakenOnlyIfDeferred
<1>8. KillInOrder'
  BY <1>1 DEF ResendFail, Numbers, KillInOrder
<1>9. NothingLost'
  BY <1>1 DEF ResendFail, Numbers, NothingLost
<1>10. QED
  BY <1>2, <1>3, <1>4, <1>5, <1>6, <1>7, <1>8, <1>9

\* local_queue is empty: the loop ends.
LEMMA ResendDonePreserves == IInv /\ ResendDone => IInv'
<1> SUFFICES ASSUME IInv, ResendDone PROVE IInv'
  OBVIOUS
<1> USE DEF IInv, KILL, None, AfterResend
<1>1. Numbers
  BY TypesOfElements
<1>2. TypeOK'
  BY MaxEventsAssumption, <1>1 DEF ResendDone, Numbers, TypeOK, Events, NoKill
<1>3. QueueInOrder'
  BY <1>1 DEF ResendDone, Numbers, QueueInOrder
<1>4. CurrentIsNewest'
  BY <1>1 DEF ResendDone, Numbers, CurrentIsNewest
<1>5. LocalInOrder'
  BY <1>1 DEF ResendDone, Numbers, LocalInOrder, Increasing
<1>6. SentOnce'
  BY <1>1 DEF ResendDone, Numbers, SentOnce
<1>7. OvertakenOnlyIfDeferred'
  BY <1>1 DEF ResendDone, Numbers, OvertakenOnlyIfDeferred
<1>8. KillInOrder'
  BY <1>1 DEF ResendDone, Numbers, KillInOrder
<1>9. NothingLost'
  BY <1>1 DEF ResendDone, Numbers, NothingLost
<1>10. QED
  BY <1>2, <1>3, <1>4, <1>5, <1>6, <1>7, <1>8, <1>9

\* The receiver changes: the thread's own state does not.
LEMMA PeerChangesPreserves == IInv /\ PeerChanges => IInv'
<1> SUFFICES ASSUME IInv, PeerChanges PROVE IInv'
  OBVIOUS
<1> USE DEF IInv, KILL, None
<1>1. Numbers
  BY TypesOfElements
<1>2. TypeOK'
  BY MaxEventsAssumption, <1>1 DEF PeerChanges, Numbers, TypeOK, Events, NoKill
<1>3. QueueInOrder'
  BY <1>1 DEF PeerChanges, Numbers, QueueInOrder
<1>4. CurrentIsNewest'
  BY <1>1 DEF PeerChanges, Numbers, CurrentIsNewest
<1>5. LocalInOrder'
  BY <1>1 DEF PeerChanges, Numbers, LocalInOrder, Increasing
<1>6. SentOnce'
  BY <1>1 DEF PeerChanges, Numbers, SentOnce
<1>7. OvertakenOnlyIfDeferred'
  BY <1>1 DEF PeerChanges, Numbers, OvertakenOnlyIfDeferred
<1>8. KillInOrder'
  BY <1>1 DEF PeerChanges, Numbers, KillInOrder
<1>9. NothingLost'
  BY <1>1 DEF PeerChanges, Numbers, NothingLost
<1>10. QED
  BY <1>2, <1>3, <1>4, <1>5, <1>6, <1>7, <1>8, <1>9

\* Whatever producers, thread and receiver do, in any order, the invariant is
\* preserved.
THEOREM Inductive == Spec => []IInv
<1>1. IInv /\ [Next]_vars => IInv'
  <2>1. SUFFICES ASSUME IInv, [Next]_vars PROVE IInv'
    OBVIOUS
  <2>2. CASE Task
    BY <2>1, <2>2, TakeEventPreserves, TakeKillPreserves, SendOkPreserves, SendFailPreserves,
       ResendOkPreserves, ResendFailPreserves, ResendDonePreserves DEF Task
  <2>3. CASE UNCHANGED vars
    BY <2>1, <2>3 DEF vars, IInv, TypeOK, QueueInOrder, CurrentIsNewest, LocalInOrder, SentOnce,
       OvertakenOnlyIfDeferred, KillInOrder, NothingLost, Increasing
  <2>4. QED
    BY <2>1, <2>2, <2>3, PushPreserves, PushKillPreserves, TakeTimeoutPreserves,
       PeerChangesPreserves DEF Next
<1>2. QED
  BY InitEstablishes, <1>1, PTL DEF Spec

-----------------------------------------------------------------------------
(* The properties the runs check, for every number of events.              *)

\* All variables keep their types.
THEOREM TypeCorrect == Spec => []TypeOK
<1>1. IInv => TypeOK
  BY DEF IInv
<1>2. QED
  BY Inductive, <1>1, PTL

\* No event is lost by a failing send, a timeout or a shutdown.
THEOREM NoEventIsLost == Spec => []NothingLost
<1>1. IInv => NothingLost
  BY DEF IInv
<1>2. QED
  BY Inductive, <1>1, PTL

\* No retry delivers an event a second time.
THEOREM NoEventIsDuplicated == Spec => []DeliveredOnce
<1>1. IInv => DeliveredOnce
  <2>1. SUFFICES ASSUME IInv PROVE DeliveredOnce
    OBVIOUS
  <2>2. Numbers
    BY <2>1, TypesOfElements DEF IInv
  <2>3. ASSUME NEW i \in DOMAIN sent
        PROVE  /\ sent[i] # current
               /\ sent[i] \notin Range(localQueue)
               /\ sent[i] \notin Range(queue)
    BY <2>1, <2>2 DEF IInv, Numbers, CurrentIsNewest, LocalInOrder, QueueInOrder, Range, KILL, None
  <2>4. QED
    BY <2>1, <2>3 DEF IInv, SentOnce, DeliveredOnce
<1>2. QED
  BY Inductive, <1>1, PTL

\* Only deferred events are overtaken, and only by events sent at once.
THEOREM DeliveryOrder == Spec => []OvertakenOnlyIfDeferred
<1>1. IInv => OvertakenOnlyIfDeferred
  BY DEF IInv
<1>2. QED
  BY Inductive, <1>1, PTL

\* A shutdown discards only events the receiver did not take at the last try.
THEOREM ShutdownIsOrderly == Spec => []ShutdownDrains
<1>1. IInv => ShutdownDrains
  <2>1. SUFFICES ASSUME IInv, pc = "stopped" PROVE ShutdownDrains
    BY DEF ShutdownDrains
  <2>2. Numbers
    BY <2>1, TypesOfElements DEF IInv
  <2>3. ASSUME NEW e \in 1..killMark
        PROVE  e \in Range(sent) \cup Range(localQueue)
    <3>1. killMark # NoKill /\ killMark <= pushed
      BY <2>1 DEF IInv, KillInOrder
    <3>2. e \in 1..pushed
      BY <2>2, <3>1 DEF Numbers
    <3>3. e # current
      BY <2>1 DEF IInv, CurrentIsNewest, None
    <3>4. e \notin Range(queue)
      BY <2>1, <2>2 DEF IInv, KillInOrder, Range, Numbers
    <3>5. QED
      BY <2>1, <3>2, <3>3, <3>4 DEF IInv, NothingLost
  <2>4. QED
    BY <2>1, <2>3 DEF IInv, KillInOrder, ShutdownDrains
<1>2. QED
  BY Inductive, <1>1, PTL

-----------------------------------------------------------------------------
(* The thread implements EventChannel.                                     *)

Waiting == (Range(queue) \cup {current}) \ {KILL, None}
Late    == Range(localQueue)
Closed  == pc = "stopped"

\* Steps that change nothing the channel sees.
LEMMA HiddenSteps ==
  ASSUME IInv, PushKill \/ TakeEvent \/ TakeKill \/ TakeTimeout \/ PeerChanges
  PROVE  UNCHANGED <<pushed, Waiting, Late, sent, Closed>>
<1> USE DEF IInv, KILL, None
<1>1. CASE PushKill
  <2>1. PushedTo(queue, KILL, queue')
    BY <1>1, Pushing DEF TypeOK, PushKill
  <2>2. QED
    BY <1>1, <2>1 DEF PushKill, PushedTo, Waiting, Late, Closed
<1>2. CASE TakeEvent
  <2>1. PoppedFrom(queue, queue') /\ current' = Head(queue) /\ current = None
    BY <1>2, Popping DEF TypeOK, TakeEvent, CurrentIsNewest
  <2>2. QED
    BY <1>2, <2>1 DEF TakeEvent, PoppedFrom, Waiting, Late, Closed
<1>3. CASE TakeKill
  <2>1. PoppedFrom(queue, queue') /\ Head(queue) = KILL
    BY <1>3, Popping DEF TypeOK, TakeKill
  <2>2. QED
    BY <1>3, <2>1 DEF TakeKill, PoppedFrom, Waiting, Late, Closed
<1>4. CASE TakeTimeout
  BY <1>4 DEF TakeTimeout, Waiting, Late, Closed
<1>5. CASE PeerChanges
  BY <1>5 DEF PeerChanges, Waiting, Late, Closed
<1>6. QED
  BY <1>1, <1>2, <1>3, <1>4, <1>5

\* A push is accepted by the channel.
LEMMA PushIsAccept ==
  ASSUME IInv, Push
  PROVE  /\ pushed' = pushed + 1
         /\ Waiting' = Waiting \cup {pushed + 1}
         /\ UNCHANGED <<Late, sent, Closed>>
<1>1. Numbers
  BY TypesOfElements DEF IInv
<1>2. PushedTo(queue, pushed + 1, queue')
  BY <1>1, Pushing DEF IInv, TypeOK, Push, Numbers
<1>3. pushed + 1 \notin {KILL, None}
  BY <1>1 DEF Numbers, KILL, None
<1>4. QED
  BY <1>2, <1>3 DEF Push, PushedTo, Waiting, Late, Closed

\* The event being sent is the oldest waiting one, and it waits only once.
LEMMA CurrentIsOldest ==
  ASSUME IInv, pc = "send"
  PROVE  /\ current \in Waiting
         /\ \A f \in Waiting : current <= f
         /\ Waiting \ {current} = Range(queue) \ {KILL, None}
<1>1. Numbers
  BY TypesOfElements DEF IInv
<1>2. current # None /\ current # KILL
  BY DEF IInv, CurrentIsNewest, KILL, None
<1>3. \A f \in Range(queue) \ {KILL, None} : current < f /\ f \in Nat
  BY <1>1 DEF IInv, QueueInOrder, Range, Numbers
<1>4. current \in Nat
  BY <1>1 DEF Numbers
<1>5. QED
  BY <1>2, <1>3, <1>4 DEF Waiting

\* The front of local_queue is the oldest late event, and is there only once.
LEMMA FrontIsOldest ==
  ASSUME IInv, ResendOk
  PROVE  /\ Head(localQueue) \in Late
         /\ \A f \in Late : Head(localQueue) <= f
         /\ Late' = Late \ {Head(localQueue)}
<1>1. Numbers
  BY TypesOfElements DEF IInv
<1>2. PoppedFrom(localQueue, localQueue')
  BY Popping DEF IInv, TypeOK, ResendOk
<1>3. \A f \in Range(localQueue') : Head(localQueue) < f /\ f \in Nat
  <2>1. SUFFICES ASSUME NEW k \in DOMAIN localQueue'
                 PROVE  Head(localQueue) < localQueue'[k] /\ localQueue'[k] \in Nat
    BY DEF Range
  <2>2. QED
    BY <1>1, <1>2 DEF PoppedFrom, IInv, LocalInOrder, Increasing, Numbers
<1>4. Head(localQueue) \in Nat
  BY <1>1, <1>2 DEF PoppedFrom, Numbers
<1>5. QED
  BY <1>2, <1>3, <1>4 DEF PoppedFrom, Late

\* Every step of the thread and its surroundings is a step of the channel.
THEOREM Refinement == Spec => ImplementsChannel
<1>1. Init => Channel!ChanInit
  <2>1. SUFFICES ASSUME Init PROVE Channel!ChanInit
    OBVIOUS
  <2>2. Range(queue) = {} /\ Range(localQueue) = {}
    BY <2>1 DEF Init, Range
  <2>3. QED
    BY <2>1, <2>2 DEF Init, Channel!ChanInit, KILL, None
<1>2. IInv /\ [Next]_vars => [Channel!ChanNext]_(Channel!chanVars)
  <2> SUFFICES ASSUME IInv, [Next]_vars
               PROVE  [Channel!ChanNext]_(Channel!chanVars)
    OBVIOUS
  <2> USE DEF Channel!ChanNext, Channel!chanVars, Waiting, Late, Closed
  <2>1. CASE PushKill \/ TakeEvent \/ TakeKill \/ TakeTimeout \/ PeerChanges
    BY <2>1, HiddenSteps
  <2>2. CASE Push
    BY <2>2, PushIsAccept DEF Channel!Accept
  <2>3. CASE SendOk
    BY <2>3, CurrentIsOldest DEF SendOk, Channel!Deliver, Channel!Oldest, KILL, None
  <2>4. CASE SendFail
    <3>1. PushedTo(localQueue, current, localQueue')
      <4>1. current \in Events
        BY <2>4 DEF SendFail, IInv, TypeOK, CurrentIsNewest, Events, None
      <4>2. QED
        BY <2>4, <4>1, Pushing DEF IInv, TypeOK, SendFail
    <3>2. QED
      BY <2>4, <3>1, CurrentIsOldest DEF SendFail, PushedTo, Channel!Delay, Channel!Oldest, KILL, None
  <2>5. CASE ResendOk
    BY <2>5, FrontIsOldest DEF ResendOk, Channel!DeliverLate, Channel!Oldest
  <2>6. CASE ResendFail \/ ResendDone
    BY <2>6 DEF ResendFail, ResendDone, AfterResend, Channel!Close
  <2>7. CASE UNCHANGED vars
    BY <2>7 DEF vars
  <2>8. QED
    BY <2>1, <2>2, <2>3, <2>4, <2>5, <2>6, <2>7 DEF Next, Task
<1>3. QED
  BY <1>1, <1>2, Inductive, PTL DEF Spec, Channel!ChanSpec, ImplementsChannel
=============================================================================
