------------------------------ MODULE OutputTask ------------------------------
(***************************************************************************)
(* The store-and-forward thread that stands between a daemon and the next  *)
(* one: output_task of ctguard-logscan and ctguard-diskscan (events to     *)
(* ctguard-research) and intervention_task of ctguard-research (commands   *)
(* to ctguard-intervention).  All three run the same loop: take an event   *)
(* from a blocked_queue with a timeout of one second, try to send it,      *)
(* keep it in a private local_queue if the sink throws, and resend the     *)
(* local_queue when the take times out or the !KILL message arrives.       *)
(*                                                                         *)
(* Events are numbered 1, 2, ... in the order in which they are pushed;    *)
(* the !KILL control message is the number KILL, which no event has.       *)
(***************************************************************************)
EXTENDS Naturals, Sequences, Functions

CONSTANTS
  MaxEvents,   \* bound: number of events that are ever pushed
  Unsendable   \* the events no socket takes: their datagram is too large

ASSUME MaxEventsAssumption == MaxEvents \in Nat
ASSUME UnsendableAssumption == Unsendable \subseteq Nat

VARIABLES
  queue,        \* content of the blocked_queue, oldest first
  pushed,       \* number of events pushed so far
  killMark,     \* events pushed before the !KILL message (NoKill: not pushed yet)
  pc,           \* where the thread is in its loop
  current,      \* the event taken and not yet sent or kept (None: no event)
  localQueue,   \* local_queue: the events whose sending failed
  peer,         \* the receiving side: reading, stalled, or gone (nobody is
                \* bound to the socket, or the system refuses the datagram)
  sent,         \* history: the events delivered, in delivery order
  deferred,     \* history: the events that ever were in local_queue
  sinkFailed    \* history: whether the latest esink.send threw

vars == <<queue, pushed, killMark, pc, current, localQueue, peer, sent, deferred, sinkFailed>>

KILL == 0
None == 0
Events == Nat \ {0}
\* killMark before the kill: one more than any number of events.
NoKill == MaxEvents + 1

\* A blocking datagram send of e: delivered at once while the receiver reads,
\* an exception when nobody is bound to the socket or e is too large for any
\* datagram, no return while the buffer of a receiver that does not read is
\* full.
SinkDelivers(e) == peer = "reading" /\ e \notin Unsendable
SinkThrows(e)   == peer = "gone" \/ e \in Unsendable

Init ==
  /\ queue = <<>>
  /\ pushed = 0
  /\ killMark = NoKill
  /\ pc = "take"
  /\ current = None
  /\ localQueue = <<>>
  /\ peer \in {"reading", "gone"}
  /\ sent = <<>>
  /\ deferred = {}
  /\ sinkFailed = FALSE

-----------------------------------------------------------------------------
(* The producers: queue.emplace(event) of the scanning threads, and the    *)
(* !KILL message of the thread that shuts the daemon down.  Scanning       *)
(* threads are joined only after !KILL was pushed, so they may still push. *)

Push ==
  /\ pushed < MaxEvents
  /\ pushed' = pushed + 1
  /\ queue' = Append(queue, pushed + 1)
  /\ UNCHANGED <<killMark, pc, current, localQueue, peer, sent, deferred, sinkFailed>>

PushKill ==
  /\ killMark = NoKill
  /\ killMark' = pushed
  /\ queue' = Append(queue, KILL)
  /\ UNCHANGED <<pushed, pc, current, localQueue, peer, sent, deferred, sinkFailed>>

-----------------------------------------------------------------------------
(* queue.take(1s)                                                          *)

TakeEvent ==
  /\ pc = "take"
  /\ queue # <<>>
  /\ Head(queue) # KILL
  /\ current' = Head(queue)
  /\ queue' = Tail(queue)
  /\ pc' = "send"
  /\ UNCHANGED <<pushed, killMark, localQueue, peer, sent, deferred, sinkFailed>>

TakeKill ==
  /\ pc = "take"
  /\ queue # <<>>
  /\ Head(queue) = KILL
  /\ queue' = Tail(queue)
  /\ pc' = "drain"
  /\ UNCHANGED <<pushed, killMark, current, localQueue, peer, sent, deferred, sinkFailed>>

\* The wait ends with an empty queue: by its timeout or by a spurious wakeup.
TakeTimeout ==
  /\ pc = "take"
  /\ queue = <<>>
  /\ pc' = "flush"
  /\ UNCHANGED <<queue, pushed, killMark, current, localQueue, peer, sent, deferred, sinkFailed>>

-----------------------------------------------------------------------------
(* esink.send, the first attempt for an event                              *)

SendOk ==
  /\ pc = "send"
  /\ SinkDelivers(current)
  /\ sent' = Append(sent, current)
  /\ current' = None
  /\ pc' = "take"
  /\ sinkFailed' = FALSE
  /\ UNCHANGED <<queue, pushed, killMark, localQueue, peer, deferred>>

\* Faulty: the event is dropped when the sink throws.
SendFailDrops ==
  /\ pc = "send"
  /\ SinkThrows(current)
  /\ current' = None
  /\ pc' = "take"
  /\ sinkFailed' = TRUE
  /\ UNCHANGED <<queue, pushed, killMark, localQueue, peer, sent, deferred>>

\* Faulty: the event is put back into the shared queue instead of local_queue.
SendFailRequeues ==
  /\ pc = "send"
  /\ SinkThrows(current)
  /\ queue' = Append(queue, current)
  /\ current' = None
  /\ pc' = "take"
  /\ sinkFailed' = TRUE
  /\ UNCHANGED <<pushed, killMark, localQueue, peer, sent, deferred>>

SendFail ==
  /\ pc = "send"
  /\ SinkThrows(current)
  /\ localQueue' = Append(localQueue, current)
  /\ deferred' = deferred \cup {current}
  /\ current' = None
  /\ pc' = "take"
  /\ sinkFailed' = TRUE
  /\ UNCHANGED <<queue, pushed, killMark, peer, sent>>

-----------------------------------------------------------------------------
(* The resend loops: on a timeout ("flush") the thread goes back to        *)
(* queue.take when it is through or a send fails, on !KILL ("drain") it    *)
(* returns and what is left in local_queue is discarded.                   *)

AfterResend == IF pc = "flush" THEN "take" ELSE "stopped"

\* Faulty: the newest deferred event is resent first.
ResendOkNewestFirst ==
  /\ pc \in {"flush", "drain"}
  /\ localQueue # <<>>
  /\ SinkDelivers(localQueue[Len(localQueue)])
  /\ sent' = Append(sent, localQueue[Len(localQueue)])
  /\ localQueue' = SubSeq(localQueue, 1, Len(localQueue) - 1)
  /\ sinkFailed' = FALSE
  /\ UNCHANGED <<queue, pushed, killMark, pc, current, peer, deferred>>

ResendOk ==
  /\ pc \in {"flush", "drain"}
  /\ localQueue # <<>>
  /\ SinkDelivers(Head(localQueue))
  /\ sent' = Append(sent, Head(localQueue))
  /\ localQueue' = Tail(localQueue)
  /\ sinkFailed' = FALSE
  /\ UNCHANGED <<queue, pushed, killMark, pc, current, peer, deferred>>

\* Faulty: the resend loop is not left when a send fails.
ResendFailRetries ==
  /\ pc \in {"flush", "drain"}
  /\ localQueue # <<>>
  /\ SinkThrows(Head(localQueue))
  /\ sinkFailed' = TRUE
  /\ UNCHANGED <<queue, pushed, killMark, pc, current, localQueue, peer, sent, deferred>>

ResendFail ==
  /\ pc \in {"flush", "drain"}
  /\ localQueue # <<>>
  /\ SinkThrows(Head(localQueue))
  /\ pc' = AfterResend
  /\ sinkFailed' = TRUE
  /\ UNCHANGED <<queue, pushed, killMark, current, localQueue, peer, sent, deferred>>

\* Faulty: the thread returns on !KILL without resending local_queue.
ResendDoneAtOnce ==
  /\ pc \in {"flush", "drain"}
  /\ localQueue = <<>> \/ pc = "drain"
  /\ pc' = AfterResend
  /\ UNCHANGED <<queue, pushed, killMark, current, localQueue, peer, sent, deferred, sinkFailed>>

\* Faulty: only the shutdown resends what is in local_queue.
ResendDoneUnlessKilled ==
  /\ pc \in {"flush", "drain"}
  /\ localQueue = <<>> \/ pc = "flush"
  /\ pc' = AfterResend
  /\ UNCHANGED <<queue, pushed, killMark, current, localQueue, peer, sent, deferred, sinkFailed>>

ResendDone ==
  /\ pc \in {"flush", "drain"}
  /\ localQueue = <<>>
  /\ pc' = AfterResend
  /\ UNCHANGED <<queue, pushed, killMark, current, localQueue, peer, sent, deferred, sinkFailed>>

-----------------------------------------------------------------------------
(* The receiving daemon stops, restarts, stops reading, reads again.       *)

PeerChanges ==
  /\ peer' \in {"reading", "stalled", "gone"} \ {peer}
  /\ UNCHANGED <<queue, pushed, killMark, pc, current, localQueue, sent, deferred, sinkFailed>>

Task == TakeEvent \/ TakeKill \/ SendOk \/ SendFail \/ ResendOk \/ ResendFail \/ ResendDone

Next == Push \/ PushKill \/ Task \/ TakeTimeout \/ PeerChanges

Spec == Init /\ [][Next]_vars

\* The thread keeps running.  Nothing is assumed of producers and receiver,
\* and no fairness of the timeout: producers that push at least once a second
\* keep the wait from ever timing out.
FairSpec == Spec /\ WF_vars(Task)

-----------------------------------------------------------------------------
TypeOK ==
  /\ queue \in Seq(Nat)
  /\ pushed \in 0..MaxEvents
  /\ killMark \in 0..NoKill
  /\ pc \in {"take", "send", "flush", "drain", "stopped"}
  /\ current \in Nat
  /\ localQueue \in Seq(Events)
  /\ peer \in {"reading", "stalled", "gone"}
  /\ sent \in Seq(Events)
  /\ deferred \subseteq Events
  /\ sinkFailed \in BOOLEAN

Increasing(s) == \A i, j \in DOMAIN s : i < j => s[i] < s[j]

\* Every event that was pushed is in the queue, in the hands of the thread, in
\* local_queue or delivered: no failing send, timeout or shutdown loses one
\* (what the thread discards at shutdown is what local_queue still holds).
NothingLost ==
  \A e \in 1..pushed : \/ e \in Range(queue)
                       \/ e = current
                       \/ e \in Range(localQueue)
                       \/ e \in Range(sent)

\* No event is delivered twice, and none that is delivered is still waiting to
\* be sent or resent: retries after a failing send never duplicate an event.
DeliveredOnce ==
  /\ \A i, j \in DOMAIN sent : sent[i] = sent[j] => i = j
  /\ \A i \in DOMAIN sent : /\ sent[i] # current
                            /\ sent[i] \notin Range(localQueue)
                            /\ sent[i] \notin Range(queue)

\* Delivery order: a later event overtakes an earlier one only if sending the
\* earlier one had failed, and never by being resent itself.  So events sent at
\* once keep their order, and so do the resent ones.
OvertakenOnlyIfDeferred ==
  \A i, j \in DOMAIN sent :
    i < j /\ sent[j] < sent[i] => sent[j] \in deferred /\ sent[i] \notin deferred

\* The thread implements the connection EventChannel describes: an event waits
\* from its push until its first send, and is late while it is in local_queue.
Channel == INSTANCE EventChannel WITH
             accepted  <- pushed,
             waiting   <- (Range(queue) \cup {current}) \ {KILL, None},
             late      <- Range(localQueue),
             delivered <- sent,
             closed    <- pc = "stopped"

\* No resend, timeout or shutdown does anything a connection must not do: what
\* is delivered is always the oldest waiting or the oldest late event.
ImplementsChannel == Channel!ChanSpec

\* When the thread has returned, an event pushed before !KILL is either
\* delivered or discarded from local_queue, and something is discarded only
\* if the last send failed.
ShutdownDrains ==
  pc = "stopped" =>
    /\ \A e \in 1..killMark : e \in Range(sent) \cup Range(localQueue)
    /\ localQueue # <<>> => sinkFailed

\* With a receiver that stays up, no shutdown, and producers that are silent for
\* a second again and again (only then does the take time out and local_queue is
\* looked at), every event gets delivered, the deferred ones included.  The
\* exceptions are an event that no socket takes, which stays at the head of
\* local_queue, and the deferred events behind it.
EventuallyDelivered ==
  <>[](peer = "reading" /\ killMark = NoKill) /\ []<>(pc = "flush") =>
    <>[](\A e \in 1..pushed :
           \/ e \in Range(sent)
           \/ \E u \in Unsendable : u <= e /\ {u, e} \subseteq Range(localQueue))

\* The thread answers !KILL unless the receiver blocks it: a receiver that is
\* gone never keeps it from returning.
ShutdownTerminates ==
  <>[](peer # "stalled") => (killMark # NoKill ~> pc = "stopped")
=============================================================================
