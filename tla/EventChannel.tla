----------------------------- MODULE EventChannel -----------------------------
(***************************************************************************)
(* What a daemon may expect of its connection to the next daemon, with no  *)
(* threads, queues, sockets or timeouts: events are accepted one by one,   *)
(* each is either delivered when its turn comes or becomes late, and late  *)
(* events are delivered in their own order at any later time.  A closed    *)
(* connection delivers nothing any more.                                   *)
(***************************************************************************)
EXTENDS Naturals, Sequences

VARIABLES
  accepted,   \* number of events accepted: they are 1..accepted
  waiting,    \* events whose turn has not come
  late,       \* events that missed their turn
  delivered,  \* events delivered, in order
  closed

chanVars == <<accepted, waiting, late, delivered, closed>>

ChanInit ==
  /\ accepted = 0
  /\ waiting = {}
  /\ late = {}
  /\ delivered = <<>>
  /\ closed = FALSE

Oldest(e, S) == e \in S /\ \A f \in S : e <= f

Accept ==
  /\ accepted' = accepted + 1
  /\ waiting' = waiting \cup {accepted + 1}
  /\ UNCHANGED <<late, delivered, closed>>

Deliver(e) ==
  /\ ~closed
  /\ Oldest(e, waiting)
  /\ waiting' = waiting \ {e}
  /\ delivered' = Append(delivered, e)
  /\ UNCHANGED <<accepted, late, closed>>

Delay(e) ==
  /\ ~closed
  /\ Oldest(e, waiting)
  /\ waiting' = waiting \ {e}
  /\ late' = late \cup {e}
  /\ UNCHANGED <<accepted, delivered, closed>>

DeliverLate(e) ==
  /\ ~closed
  /\ Oldest(e, late)
  /\ late' = late \ {e}
  /\ delivered' = Append(delivered, e)
  /\ UNCHANGED <<accepted, waiting, closed>>

Close ==
  /\ ~closed
  /\ closed' = TRUE
  /\ UNCHANGED <<accepted, waiting, late, delivered>>

ChanNext ==
  \/ Accept
  \/ \E e \in waiting : Deliver(e) \/ Delay(e)
  \/ \E e \in late : DeliverLate(e)
  \/ Close

ChanSpec == ChanInit /\ [][ChanNext]_chanVars
=============================================================================
