----------------------------- MODULE BlockedQueue -----------------------------
(***************************************************************************)
(* libs::blocked_queue: the queue between any two threads of a daemon, at  *)
(* the level of its mutex and its condition variable.  Producers call push *)
(* or emplace; consumers call take(), which waits as long as it takes, or  *)
(* take(d), which waits once and returns nullopt if there is still         *)
(* nothing.                                                                *)
(***************************************************************************)
EXTENDS Naturals, Sequences, SequencesExt

CONSTANTS
  Producers,   \* threads that push
  Consumers,   \* threads that call take() or take(d)
  Timed,       \* the consumers that call take(d)
  Nobody,      \* no thread: the mutex is free
  MaxPushes    \* bound: number of pushes of each producer

ASSUME ThreadsAssumption ==
  /\ Producers \cap Consumers = {}
  /\ Timed \subseteq Consumers
  /\ Nobody \notin Producers \cup Consumers
ASSUME MaxPushesAssumption == MaxPushes \in Nat

VARIABLES
  mutex,     \* the thread that holds m_mutex
  waiting,   \* threads blocked in m_cv.wait or m_cv.wait_for
  queue,     \* m_queue
  pc,        \* where each thread is in its call
  pushes,    \* number of pushes of each producer so far
  accepted,  \* history: the values in the order in which they were pushed
  taken      \* history: the values in the order in which they were returned

vars == <<mutex, waiting, queue, pc, pushes, accepted, taken>>

Threads == Producers \cup Consumers
Values  == Producers \X (1..MaxPushes)

Goto(t, label) == pc' = [pc EXCEPT ![t] = label]

Init ==
  /\ mutex = Nobody
  /\ waiting = {}
  /\ queue = <<>>
  /\ pc = [t \in Threads |-> "call"]
  /\ pushes = [p \in Producers |-> 0]
  /\ accepted = <<>>
  /\ taken = <<>>

\* A lock_guard or unique_lock is constructed; a call begins.
Lock(t) ==
  /\ pc[t] = "call"
  /\ mutex = Nobody
  /\ t \in Producers => pushes[t] < MaxPushes
  /\ mutex' = t
  /\ Goto(t, "locked")
  /\ UNCHANGED <<waiting, queue, pushes, accepted, taken>>

-----------------------------------------------------------------------------
(* push and emplace                                                        *)

\* Faulty: notify_all is left out.
PushSilently(p) ==
  /\ pc[p] = "locked"
  /\ LET value == <<p, pushes[p] + 1>>
     IN  queue' = Append(queue, value) /\ accepted' = Append(accepted, value)
  /\ pushes' = [pushes EXCEPT ![p] = @ + 1]
  /\ mutex' = Nobody
  /\ Goto(p, "call")
  /\ UNCHANGED <<waiting, taken>>

\* The value is queued, every waiting thread is woken up, the mutex released.
Push(p) ==
  /\ pc[p] = "locked"
  /\ LET value == <<p, pushes[p] + 1>>
     IN  queue' = Append(queue, value) /\ accepted' = Append(accepted, value)
  /\ pushes' = [pushes EXCEPT ![p] = @ + 1]
  /\ waiting' = {}
  /\ mutex' = Nobody
  /\ Goto(p, "call")
  /\ UNCHANGED taken

-----------------------------------------------------------------------------
(* take() and take(d)                                                      *)

\* The queue is empty: the mutex is released while the thread waits.
Wait(c) ==
  /\ pc[c] = "locked"
  /\ queue = <<>>
  /\ waiting' = waiting \cup {c}
  /\ mutex' = Nobody
  /\ Goto(c, "waiting")
  /\ UNCHANGED <<queue, pushes, accepted, taken>>

\* A spurious wakeup, or the end of the time to wait.
WakeUp(c) ==
  /\ c \in waiting
  /\ waiting' = waiting \ {c}
  /\ UNCHANGED <<mutex, queue, pc, pushes, accepted, taken>>

\* A thread that was woken up gets the mutex back: take() tests the queue
\* again, take(d) has done its waiting.
Relock(c) ==
  /\ pc[c] = "waiting"
  /\ c \notin waiting
  /\ mutex = Nobody
  /\ mutex' = c
  /\ Goto(c, IF c \in Timed THEN "woken" ELSE "locked")
  /\ UNCHANGED <<waiting, queue, pushes, accepted, taken>>

\* Faulty: the value is returned, but pop is forgotten.
TakeNoPop(c) ==
  /\ pc[c] \in {"locked", "woken"}
  /\ queue # <<>>
  /\ taken' = Append(taken, Head(queue))
  /\ mutex' = Nobody
  /\ Goto(c, "call")
  /\ UNCHANGED <<waiting, queue, pushes, accepted>>

Take(c) ==
  /\ pc[c] \in {"locked", "woken"}
  /\ queue # <<>>
  /\ taken' = Append(taken, Head(queue))
  /\ queue' = Tail(queue)
  /\ mutex' = Nobody
  /\ Goto(c, "call")
  /\ UNCHANGED <<waiting, pushes, accepted>>

\* take(d) returns nullopt.
GiveUp(c) ==
  /\ pc[c] = "woken"
  /\ queue = <<>>
  /\ mutex' = Nobody
  /\ Goto(c, "call")
  /\ UNCHANGED <<waiting, queue, pushes, accepted, taken>>

-----------------------------------------------------------------------------
Next == \/ \E t \in Threads : Lock(t)
        \/ \E p \in Producers : Push(p)
        \/ \E c \in Consumers : Wait(c) \/ WakeUp(c) \/ Relock(c) \/ Take(c) \/ GiveUp(c)

Spec == Init /\ [][Next]_vars

\* A thread that holds the mutex goes on, a thread that keeps wanting the mutex
\* gets it some time (no more than that is promised of std::mutex), and the wait
\* of take(d) has an end.  No wait of take() ends by itself.  Who calls take()
\* does so again and again; the others may stop calling.
FairSpec ==
  /\ Spec
  /\ \A p \in Producers : WF_vars(Push(p))
  /\ \A c \in Consumers : WF_vars(Wait(c)) /\ WF_vars(Take(c)) /\ WF_vars(GiveUp(c)) /\ SF_vars(Relock(c))
  /\ \A c \in Timed : WF_vars(WakeUp(c))
  /\ \A c \in Consumers \ Timed : SF_vars(Lock(c))

-----------------------------------------------------------------------------
TypeOK ==
  /\ mutex \in Threads \cup {Nobody}
  /\ waiting \subseteq Consumers
  /\ queue \in Seq(Values)
  /\ pc \in [Threads -> {"call", "locked", "waiting", "woken"}]
  /\ pushes \in [Producers -> 0..MaxPushes]
  /\ accepted \in Seq(Values)
  /\ taken \in Seq(Values)

\* Values leave in the order in which they entered, each once.
FirstInFirstOut == accepted = taken \o queue

\* Whoever is between lock and unlock is the holder of the mutex, and nobody
\* who waits was left behind with a value in the queue: every push has woken up
\* all of them.
NoLostWakeup ==
  /\ \A t \in Threads : pc[t] \in {"locked", "woken"} <=> mutex = t
  /\ waiting # {} => queue = <<>>

\* As long as somebody calls take(), no value stays in the queue, whatever the
\* consumers that wait for a limited time do.
EverythingIsTaken == \A v \in Values : v \in ToSet(accepted) ~> v \in ToSet(taken)
=============================================================================
