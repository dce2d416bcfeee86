------------------------- MODULE ResearchDaemon_proofs -------------------------
(***************************************************************************)
(* For any number of events and whatever threads fail: alerts are written  *)
(* once and in the order of their events, nothing from the outside stops a *)
(* thread, and an orderly shutdown leaves nothing of an event behind.      *)
(***************************************************************************)
EXTENDS ResearchDaemon, SequenceTheorems, TLAPS

-----------------------------------------------------------------------------
(* The parts of the invariant *)

\* The number of the newest event, when it has passed the socket.
Newest == IF pc["main"] = "start" THEN arrived ELSE arrived + 1

\* The events in the socket can be given the numbers they will get.
Numbering(number) ==
  \A i \in DOMAIN inbox : inbox[i] = "event" =>
    /\ accepted < number[i] /\ number[i] <= Newest
    /\ \A j \in DOMAIN inbox : i < j /\ inbox[j] = "event" => number[i] < number[j]

ArrivalsInv ==
  /\ accepted <= Newest
  /\ \E number \in [DOMAIN inbox -> Nat] : Numbering(number)

\* AlertsInOrder, its second part, taken apart.
Precede(s, t) == \A i \in DOMAIN s, j \in DOMAIN t : {s[i], t[j]} \subseteq EventIds => s[i] < t[j]

EventsInv ==
  /\ EventsAscend(alerted) /\ EventsAscend(inputQ) /\ Precede(alerted, inputQ)
  /\ \A i \in DOMAIN alerted : alerted[i] \in EventIds =>
       alerted[i] <= accepted /\ (inProc # None => alerted[i] < inProc)
  /\ \A i \in DOMAIN inputQ : inputQ[i] <= accepted /\ (inputQ[i] # KILL => inProc < inputQ[i])
  /\ inProc <= accepted
  /\ pc["processing"] \in {"process", "alert"} => inProc # None

\* Behind !KILL there are only alerts of the state thread.
UnlessIds == {Unless(e) : e \in EventIds}
Handed == written \o Hand(inOut)
Items == AlertIds \cup {KILL}

BehindKill ==
  \E a \in Seq(AlertIds), b \in Seq(UnlessIds) :
    /\ outputQ = (a \o <<KILL>>) \o b
    /\ alerted = Handed \o (a \o b)

AlertsInv ==
  /\ inOut # None <=> pc["output"] = "write"
  /\ \/ outputQ \in Seq(AlertIds) /\ alerted = Handed \o outputQ
     \/ BehindKill /\ pc["processing"] \in {"killIntervention", "done"} /\ pc["output"] # "done"
  /\ pc["output"] = "done" => outputQ \in Seq(UnlessIds) /\ pc["processing"] \in {"killIntervention", "done"}

\* Where !KILL is, or has been, main has cleared RUNNING or a thread has failed.
Stopped == ~running \/ faulted # {}

StopInv ==
  /\ pc["input"] \in {"kill", "done"} => Stopped
  /\ KILL \in ToSet(inputQ) => pc["input"] = "done"
  /\ pc["processing"] \in {"killOutput", "killIntervention", "done"} => Stopped
  /\ KILL \in ToSet(intervQ) => pc["processing"] = "done"
  /\ pc["intervention"] = "done" => Stopped

\* If no thread has failed, nothing is pushed behind !KILL, and who has taken it
\* has taken everything.
KillIsLast(q) == \A i \in DOMAIN q : q[i] = KILL => i = Len(q)
Killing == pc["processing"] \in {"killOutput", "killIntervention", "done"}

DrainInv ==
  /\ ~running <=> pc["main"] \in {"join", "exited"}
  /\ faulted = {} =>
       /\ pc["input"] \in {"kill", "done"} => ~running
       /\ KillIsLast(inputQ)
       /\ Killing => pc["input"] = "done" /\ inputQ = <<>>
       /\ pc["input"] = "done" /\ ~Killing => KILL \in ToSet(inputQ)
       /\ KillIsLast(intervQ)
       /\ pc["intervention"] = "done" => pc["processing"] = "done" /\ intervQ = <<>>

\* Main leaves behind no thread but those it does not wait for.
Joined == {"input", "processing", "output", "intervention"}

JoinInv == pc["main"] = "exited" => \A t \in Joined : pc[t] = "done"

IInv == TypeOK /\ ArrivalsInv /\ EventsInv /\ AlertsInv /\ StopInv /\ DrainInv /\ JoinInv

-----------------------------------------------------------------------------
(* Sequences *)

\* emplace pushes to the end.
LEMMA Pushing ==
  ASSUME NEW S, NEW s \in Seq(S), NEW e \in S
  PROVE  /\ Append(s, e) \in Seq(S) /\ DOMAIN s = 1..Len(s) /\ Len(s) \in Nat
         /\ DOMAIN Append(s, e) = 1..Len(s) + 1 /\ Len(Append(s, e)) = Len(s) + 1
         /\ \A i \in 1..Len(s) : Append(s, e)[i] = s[i]
         /\ Append(s, e)[Len(s) + 1] = e
         /\ ToSet(Append(s, e)) = ToSet(s) \cup {e}
<1>1. /\ Append(s, e) \in Seq(S) /\ DOMAIN s = 1..Len(s) /\ Len(s) \in Nat
      /\ DOMAIN Append(s, e) = 1..Len(s) + 1 /\ Len(Append(s, e)) = Len(s) + 1
      /\ \A i \in 1..Len(s) : Append(s, e)[i] = s[i]
      /\ Append(s, e)[Len(s) + 1] = e
  OBVIOUS
<1>2. ToSet(Append(s, e)) = ToSet(s) \cup {e}
  BY <1>1 DEF ToSet
<1> QED BY <1>1, <1>2

\* take pops the front element.
LEMMA Popping ==
  ASSUME NEW S, NEW s \in Seq(S), s # <<>>
  PROVE  /\ Tail(s) \in Seq(S) /\ Head(s) \in S /\ Head(s) = s[1] /\ 1 \in DOMAIN s
         /\ DOMAIN s = 1..Len(s) /\ Len(s) \in Nat \ {0}
         /\ DOMAIN Tail(s) = 1..Len(s) - 1 /\ Len(Tail(s)) = Len(s) - 1
         /\ \A i \in 1..Len(s) - 1 : Tail(s)[i] = s[i + 1]
         /\ ToSet(s) = {Head(s)} \cup ToSet(Tail(s))
<1>1. /\ Tail(s) \in Seq(S) /\ Head(s) \in S /\ Head(s) = s[1] /\ 1 \in DOMAIN s
      /\ DOMAIN s = 1..Len(s) /\ Len(s) \in Nat \ {0}
      /\ DOMAIN Tail(s) = 1..Len(s) - 1 /\ Len(Tail(s)) = Len(s) - 1
      /\ \A i \in 1..Len(s) - 1 : Tail(s)[i] = s[i + 1]
  OBVIOUS
<1>2. ASSUME NEW i \in DOMAIN s, i # 1 PROVE s[i] \in ToSet(Tail(s))
  <2>1. i - 1 \in 1..Len(s) - 1 /\ (i - 1) + 1 = i
    BY <1>1, <1>2
  <2>2. Tail(s)[i - 1] = s[i]
    BY <1>1, <2>1
  <2> QED BY <1>1, <2>1, <2>2 DEF ToSet
<1>3. ToSet(Tail(s)) \subseteq ToSet(s)
  BY <1>1 DEF ToSet
<1>4. ToSet(s) = {Head(s)} \cup ToSet(Tail(s))
  BY <1>1, <1>2, <1>3 DEF ToSet
<1> QED BY <1>1, <1>4

LEMMA Joining ==
  ASSUME NEW s \in Seq(Items), NEW t \in Seq(Items), NEW u \in Seq(Items)
  PROVE  s \o t \in Seq(Items) /\ (s \o t) \o u = s \o (t \o u) /\ s \o <<>> = s /\ <<>> \o s = s
  BY ConcatProperties, ConcatAssociative, ConcatSimplifications

\* Pushing to and popping from a part of a concatenation.
LEMMA PushingToPart ==
  ASSUME NEW s \in Seq(Items), NEW t \in Seq(Items), NEW e \in Items
  PROVE  Append(s \o t, e) = s \o Append(t, e)
<1>1. <<e>> \in Seq(Items) /\ s \o t \in Seq(Items)
  BY ConcatProperties
<1>2. Append(s \o t, e) = (s \o t) \o <<e>> /\ Append(t, e) = t \o <<e>>
  BY <1>1, AppendIsConcat
<1> QED BY <1>1, <1>2, ConcatAssociative

LEMMA HeadAndTail ==
  ASSUME NEW s \in Seq(Items), s # <<>>
  PROVE  s = <<Head(s)>> \o Tail(s)
<1>1. /\ Head(s) \in Items /\ Tail(s) \in Seq(Items) /\ Head(s) = s[1] /\ Len(s) \in Nat \ {0}
      /\ Len(Tail(s)) = Len(s) - 1 /\ \A i \in 1..Len(s) - 1 : Tail(s)[i] = s[i + 1]
  BY Popping
<1>2. <<Head(s)>> \in Seq(Items) /\ Len(<<Head(s)>>) = 1 /\ <<Head(s)>>[1] = Head(s)
  BY <1>1
<1>3. /\ <<Head(s)>> \o Tail(s) \in Seq(Items) /\ Len(<<Head(s)>> \o Tail(s)) = Len(s)
      /\ \A i \in 1..Len(s) : (<<Head(s)>> \o Tail(s))[i] = IF i <= 1 THEN <<Head(s)>>[i] ELSE Tail(s)[i - 1]
  BY <1>1, <1>2, ConcatProperties
<1>4. ASSUME NEW i \in 1..Len(s) PROVE s[i] = (<<Head(s)>> \o Tail(s))[i]
  <2>1. CASE i = 1
    BY <1>1, <1>2, <1>3, <2>1
  <2>2. CASE i # 1
    <3>1. i - 1 \in 1..Len(s) - 1 /\ (i - 1) + 1 = i /\ ~(i <= 1)
      BY <1>1, <2>2
    <3> QED BY <1>1, <1>3, <3>1
  <2> QED BY <2>1, <2>2
<1> QED BY <1>1, <1>3, <1>4, SeqEqual

LEMMA PoppingFromPart ==
  ASSUME NEW s \in Seq(Items), NEW t \in Seq(Items), s # <<>>
  PROVE  s \o t # <<>> /\ Head(s \o t) = Head(s) /\ Tail(s \o t) = Tail(s) \o t
<1>1. Head(s) \in Items /\ Tail(s) \in Seq(Items) /\ s = <<Head(s)>> \o Tail(s) /\ Len(s) \in Nat \ {0} /\ Head(s) = s[1]
  BY Popping, HeadAndTail
<1>2. /\ s \o t \in Seq(Items) /\ Tail(s) \o t \in Seq(Items)
      /\ Len(s \o t) = Len(s) + Len(t) /\ Len(t) \in Nat
      /\ \A i \in 1..Len(s) + Len(t) : (s \o t)[i] = IF i <= Len(s) THEN s[i] ELSE t[i - Len(s)]
  BY <1>1, ConcatProperties
<1>3. s \o t # <<>> /\ (s \o t)[1] = s[1]
  BY <1>1, <1>2
<1>4. Head(s \o t) = Head(s)
  BY <1>1, <1>2, <1>3, Popping
<1>5. s \o t = <<Head(s)>> \o (Tail(s) \o t) /\ s \o t = <<Head(s)>> \o Tail(s \o t) /\ Tail(s \o t) \in Seq(Items) /\ <<Head(s)>> \in Seq(Items)
  BY <1>1, <1>2, <1>3, <1>4, ConcatAssociative, HeadAndTail, Popping
<1>6. Tail(s \o t) = Tail(s) \o t
  BY <1>2, <1>5, ConcatSimplifications
<1> QED BY <1>3, <1>4, <1>6

LEMMA PushingBehind ==
  ASSUME NEW a \in Seq(Items), NEW b \in Seq(Items), NEW k \in Items, NEW e \in Items
  PROVE  Append((a \o <<k>>) \o b, e) = (a \o <<k>>) \o Append(b, e)
<1>1. a \o <<k>> \in Seq(Items)
  BY ConcatProperties
<1> QED BY <1>1, PushingToPart, Zenon

LEMMA PushingDeeper ==
  ASSUME NEW h \in Seq(Items), NEW a \in Seq(Items), NEW b \in Seq(Items), NEW e \in Items
  PROVE  Append(h \o (a \o b), e) = h \o (a \o Append(b, e))
<1>1. a \o b \in Seq(Items)
  BY ConcatProperties
<1>2. Append(h \o (a \o b), e) = h \o Append(a \o b, e)
  BY <1>1, PushingToPart, Zenon
<1>3. Append(a \o b, e) = a \o Append(b, e)
  BY PushingToPart, Zenon
<1> QED BY <1>2, <1>3

LEMMA Regrouping ==
  ASSUME NEW h \in Seq(Items), NEW x \in Items, NEW t \in Seq(Items), NEW b \in Seq(Items)
  PROVE  h \o ((<<x>> \o t) \o b) = (h \o <<x>>) \o (t \o b)
<1>1. <<x>> \in Seq(Items) /\ t \o b \in Seq(Items)
  BY Joining
<1>2. (<<x>> \o t) \o b = <<x>> \o (t \o b)
  BY <1>1, Joining
<1>3. (h \o <<x>>) \o (t \o b) = h \o (<<x>> \o (t \o b))
  BY <1>1, Joining
<1> QED BY <1>2, <1>3

LEMMA PoppingBefore ==
  ASSUME NEW h \in Seq(Items), NEW a \in Seq(Items), NEW b \in Seq(Items), a # <<>>
  PROVE  h \o (a \o b) = (h \o <<Head(a)>>) \o (Tail(a) \o b)
<1>1. Head(a) \in Items /\ Tail(a) \in Seq(Items) /\ a = <<Head(a)>> \o Tail(a)
  BY Popping, HeadAndTail
<1>2. h \o ((<<Head(a)>> \o Tail(a)) \o b) = (h \o <<Head(a)>>) \o (Tail(a) \o b)
  BY <1>1, Regrouping, ZenonT(30)
<1> QED BY <1>1, <1>2, Zenon

-----------------------------------------------------------------------------
(* Every conjunct of the invariant is kept by every step *)

\* The numbers of events, alerts and !KILL.
LEMMA Numbers ==
  /\ EventIds = 1..MaxEvents + 1 /\ KILL \notin AlertIds /\ None \notin AlertIds /\ KILL \notin EventIds
  /\ EventIds \subseteq AlertIds /\ UnlessIds \subseteq AlertIds /\ UnlessIds \cap EventIds = {}
  /\ AlertIds \subseteq Nat /\ AlertIds \subseteq Items /\ KILL \in Items /\ \A e \in EventIds : Unless(e) \in UnlessIds
  /\ None = 0 /\ KILL = 0
BY MaxEventsAssumption DEF EventIds, AlertIds, UnlessIds, Unless, KILL, None, Items

LEMMA Sequences ==
  /\ Seq(AlertIds) \subseteq Seq(Items) /\ Seq(UnlessIds) \subseteq Seq(AlertIds) /\ Seq(UnlessIds) \subseteq Seq(Items)
  /\ <<KILL>> \in Seq(Items) /\ <<>> \in Seq(UnlessIds)
<1>1. AlertIds \subseteq Items /\ UnlessIds \subseteq AlertIds /\ KILL \in Items
  BY Numbers
<1>2. ASSUME NEW s \in Seq(AlertIds) PROVE s \in Seq(Items)
  BY <1>1
<1>3. ASSUME NEW s \in Seq(UnlessIds) PROVE s \in Seq(AlertIds)
  BY <1>1
<1>4. <<KILL>> \in Seq(Items) /\ <<>> \in Seq(UnlessIds)
  BY <1>1
<1> QED BY <1>2, <1>3, <1>4

\* Every variable keeps its type, if events are numbered up to MaxEvents + 1 only
\* and the threads hold something in their hands when they push it.
LEMMA Typing ==
  ASSUME TypeOK, [Next]_vars, accepted' \in 0..MaxEvents + 1,
         pc["processing"] = "alert" => inProc # None, pc["output"] = "write" => inOut # None
  PROVE  TypeOK'
<1> USE DEF TypeOK
<1>0. CASE UNCHANGED vars
  BY <1>0 DEF vars, mainVars, sockVars, queues, histories
<1>1. CASE Main \/ MainSignal
  <2>1. pc' \in Labels
    BY <1>1 DEF Main, MainStart, MainPolls, MainStops, MainExits, MainSignal, Labels, Goto
  <2>2. running' \in BOOLEAN /\ errors' \in BOOLEAN
    BY <1>1 DEF Main, MainStart, MainPolls, MainStops, MainExits, MainSignal, mainVars
  <2>3. inputQ' \in Seq(EventIds \cup {KILL})
    <3>1. CASE MainStart
      <4>1. accepted + 1 \in EventIds \cup {KILL} /\ inputQ' = Append(inputQ, accepted + 1)
        BY <3>1, MaxEventsAssumption, Numbers DEF MainStart
      <4> QED BY <4>1, Pushing
    <3> QED BY <1>1, <3>1 DEF Main, MainPolls, MainStops, MainExits, MainSignal, queues
  <2>4. UNCHANGED <<faulted, inbox, arrived, outputQ, mailQ, intervQ, inProc, inOut, armed, localMail, histories>>
    BY <1>1 DEF Main, MainStart, MainPolls, MainStops, MainExits, MainSignal, mainVars, sockVars, queues
  <2> QED BY <2>1, <2>2, <2>3, <2>4 DEF histories
<1>2. CASE Input
  <2>1. pc' \in Labels
    BY <1>2 DEF Input, InputInit, InputThrows, InputCheck, InputIgnores, InputReceives, InputTimeout, InputKills, Labels, Goto
  <2>2. errors' \in BOOLEAN /\ faulted' \subseteq Faults
    BY <1>2 DEF Input, InputInit, InputThrows, InputCheck, InputIgnores, InputReceives, InputTimeout, InputKills, Throw
  <2>3. inbox' \in Seq(Datagrams) /\ Len(inbox') <= MaxInbox
    <3>1. inbox # <<>> => Tail(inbox) \in Seq(Datagrams) /\ Len(Tail(inbox)) <= MaxInbox
      BY Popping, MaxInboxAssumption
    <3> QED BY <1>2, <3>1 DEF Input, InputInit, InputThrows, InputCheck, InputIgnores, InputReceives, InputTimeout, InputKills, sockVars
  <2>4. inputQ' \in Seq(EventIds \cup {KILL})
    <3>1. CASE InputReceives
      <4>1. accepted + 1 \in EventIds \cup {KILL} /\ inputQ' = Append(inputQ, accepted + 1)
        BY <3>1, MaxEventsAssumption, Numbers DEF InputReceives
      <4> QED BY <4>1, Pushing
    <3>2. CASE InputKills
      BY <3>2, Pushing DEF InputKills
    <3> QED BY <1>2, <3>1, <3>2 DEF Input, InputInit, InputThrows, InputCheck, InputIgnores, InputTimeout
  <2>5. UNCHANGED <<arrived, inputUnchanged>>
    BY <1>2 DEF Input, InputInit, InputThrows, InputCheck, InputIgnores, InputReceives, InputTimeout, InputKills, sockVars
  <2> QED BY <2>1, <2>2, <2>3, <2>4, <2>5 DEF inputUnchanged, histories
<1>3. CASE Processing
  <2>3. /\ inputQ # <<>> => Tail(inputQ) \in Seq(EventIds \cup {KILL}) /\ Head(inputQ) \in EventIds \cup {KILL}
        /\ UNCHANGED inputQ \/ (inputQ # <<>> /\ inputQ' = Tail(inputQ))
    <3>1. inputQ # <<>> => Tail(inputQ) \in Seq(EventIds \cup {KILL}) /\ Head(inputQ) \in EventIds \cup {KILL}
      BY Popping
    <3>2. ProcTakes \/ UNCHANGED inputQ
      BY <1>3 DEF Processing, ProcKillsOutput, ProcKillsIntervention, ProcIgnores, ProcMatches, ProcAlerts, ProcThrows
    <3> QED BY <3>1, <3>2 DEF ProcTakes
  <2> USE DEF Processing, ProcTakes, ProcKillsOutput, ProcKillsIntervention, ProcIgnores, ProcMatches, ProcAlerts, ProcThrows
  <2>1. pc' \in Labels
    <3>1. \/ UNCHANGED pc \/ Goto("processing", "take") \/ Goto("processing", "process") \/ Goto("processing", "alert")
          \/ Goto("processing", "killOutput") \/ Goto("processing", "killIntervention") \/ Goto("processing", "done")
      BY <1>3
    <3> QED BY <3>1 DEF Labels, Goto
  <2>2. errors' \in BOOLEAN /\ faulted' \subseteq Faults
    BY <1>3 DEF Throw
  <2>4. inProc' \in EventIds \cup {None} /\ armed' \in EventIds \cup {None}
    BY <1>3, <2>3 DEF Rearmed, None, KILL
  <2>5. outputQ' \in Seq(AlertIds \cup {KILL}) /\ alerted' \in Seq(AlertIds)
    <3>1. CASE ProcKillsOutput
      BY <3>1, Pushing
    <3>2. CASE ProcAlerts
      <4>1. inProc \in AlertIds
        BY <3>2, Numbers
      <4> QED BY <3>2, <4>1, Pushing
    <3> QED BY <1>3, <3>1, <3>2
  <2>6. intervQ' \in Seq(EventIds \cup {KILL})
    <3>1. inProc \in EventIds \cup {KILL}
      BY DEF None, KILL
    <3>2. Append(intervQ, KILL) \in Seq(EventIds \cup {KILL}) /\ Append(intervQ, inProc) \in Seq(EventIds \cup {KILL})
      BY <3>1, Pushing
    <3> QED BY <1>3, <3>2
  <2>7. UNCHANGED procUnchanged
    BY <1>3
  <2> QED BY <2>1, <2>2, <2>3, <2>4, <2>5, <2>6, <2>7 DEF procUnchanged, sockVars
<1>4. CASE State
  <2>1. pc' \in Labels /\ UNCHANGED stateUnchanged
    BY <1>4 DEF State, StateCheck, StateIdles, StateFires, Labels, Goto
  <2>2. armed' \in EventIds \cup {None} /\ outputQ' \in Seq(AlertIds \cup {KILL}) /\ alerted' \in Seq(AlertIds)
    <3>1. armed # None => Append(outputQ, Unless(armed)) \in Seq(AlertIds \cup {KILL}) /\ Append(alerted, Unless(armed)) \in Seq(AlertIds)
      <4>1. armed # None => Unless(armed) \in AlertIds
        BY Numbers
      <4> QED BY <4>1, Pushing
    <3> QED BY <1>4, <3>1 DEF State, StateCheck, StateIdles, StateFires
  <2> QED BY <2>1, <2>2 DEF stateUnchanged, mainVars, sockVars
<1>5. CASE Output
  <2>1. pc' \in Labels /\ UNCHANGED outUnchanged
    BY <1>5 DEF Output, OutputTakes, OutputWrites, Labels, Goto
  <2>2. CASE OutputTakes
    <3>1. Tail(outputQ) \in Seq(AlertIds \cup {KILL}) /\ Head(outputQ) \in AlertIds \cup {KILL}
      BY <2>2, Popping DEF OutputTakes
    <3> QED BY <2>1, <2>2, <3>1 DEF OutputTakes, outUnchanged, mainVars, sockVars
  <2>3. CASE OutputWrites
    <3>1. inOut \in AlertIds
      BY <2>3 DEF OutputWrites
    <3>2. Append(written, inOut) \in Seq(AlertIds) /\ Append(mailQ, inOut) \in Seq(AlertIds)
      BY <3>1, Pushing
    <3> QED BY <2>1, <2>3, <3>2 DEF OutputWrites, outUnchanged, mainVars, sockVars
  <2> QED BY <1>5, <2>2, <2>3 DEF Output
<1>6. CASE Intervention
  <2>1. pc' \in Labels /\ UNCHANGED intervUnchanged
    BY <1>6 DEF Intervention, IntervInit, IntervThrows, IntervTakes, Labels, Goto
  <2>2. intervQ' \in Seq(EventIds \cup {KILL})
    <3>1. intervQ # <<>> => Tail(intervQ) \in Seq(EventIds \cup {KILL})
      BY Popping
    <3> QED BY <1>6, <3>1 DEF Intervention, IntervInit, IntervThrows, IntervTakes
  <2>3. errors' \in BOOLEAN /\ faulted' \subseteq Faults
    BY <1>6 DEF Intervention, IntervInit, IntervThrows, IntervTakes, Throw
  <2> QED BY <2>1, <2>2, <2>3 DEF intervUnchanged, sockVars, histories
<1>7. CASE MailTask
  <2>1. pc' \in Labels /\ UNCHANGED mailUnchanged
    BY <1>7 DEF MailTask, MailCheck, MailTakes, MailTimeout, MailKeeps, MailSends, MailFlushes, Labels, Goto
  <2>2. mailQ' \in Seq(AlertIds) /\ localMail' \in Seq(AlertIds)
    <3>1. mailQ # <<>> => Tail(mailQ) \in Seq(AlertIds) /\ Append(localMail, Head(mailQ)) \in Seq(AlertIds)
      BY Popping, Pushing
    <3>2. <<>> \in Seq(AlertIds)
      OBVIOUS
    <3> QED BY <1>7, <3>1, <3>2 DEF MailTask, MailCheck, MailTakes, MailTimeout, MailKeeps, MailSends, MailFlushes
  <2> QED BY <2>1, <2>2 DEF mailUnchanged, mainVars, sockVars, histories
<1>8. ASSUME NEW d \in Datagrams, Arrive(d) PROVE TypeOK'
  <2>1. inbox' \in Seq(Datagrams) /\ Len(inbox') <= MaxInbox
    BY <1>8, Pushing, MaxInboxAssumption DEF Arrive
  <2>2. arrived' \in 0..MaxEvents
    BY <1>8, MaxEventsAssumption DEF Arrive
  <2> QED BY <1>8, <2>1, <2>2 DEF Arrive, mainVars, queues, histories
<1> QED BY <1>0, <1>1, <1>2, <1>3, <1>4, <1>5, <1>6, <1>7, <1>8 DEF Next, Environment

\* What the steps of each thread leave alone, of what the invariant is about.
LEMMA MainFrame ==
  ASSUME TypeOK, Main \/ MainSignal
  PROVE  UNCHANGED <<faulted, inbox, arrived, outputQ, intervQ, inProc, inOut, alerted, written,
                     pc["input"], pc["processing"], pc["output"], pc["intervention"]>>
  BY DEF Main, MainStart, MainPolls, MainStops, MainExits, MainSignal,
         TypeOK, Labels, Goto, sockVars, mainVars, queues, histories

LEMMA InputFrame ==
  ASSUME TypeOK, Input
  PROVE  UNCHANGED <<running, arrived, outputQ, intervQ, inProc, inOut, alerted, written,
                     pc["main"], pc["processing"], pc["output"], pc["intervention"]>>
  BY DEF Input, InputInit, InputThrows, InputCheck, InputIgnores, InputReceives, InputTimeout, InputKills, inputUnchanged,
         TypeOK, Labels, Goto, sockVars, mainVars, queues, histories

LEMMA ProcessingFrame ==
  ASSUME TypeOK, Processing
  PROVE  UNCHANGED <<running, inbox, arrived, accepted, inOut, written,
                     pc["main"], pc["input"], pc["output"], pc["intervention"]>>
  BY DEF Processing, ProcTakes, ProcKillsOutput, ProcKillsIntervention, ProcIgnores, ProcMatches, ProcAlerts, ProcThrows, procUnchanged,
         TypeOK, Labels, Goto, sockVars, mainVars, queues, histories

LEMMA StateFrame ==
  ASSUME TypeOK, State
  PROVE  UNCHANGED <<running, faulted, inbox, arrived, accepted, inputQ, intervQ, inProc, inOut, written,
                     pc["main"], pc["input"], pc["processing"], pc["output"], pc["intervention"]>>
  BY DEF State, StateCheck, StateIdles, StateFires, stateUnchanged,
         TypeOK, Labels, Goto, sockVars, mainVars, queues, histories

LEMMA OutputFrame ==
  ASSUME TypeOK, Output
  PROVE  UNCHANGED <<running, faulted, inbox, arrived, accepted, inputQ, intervQ, inProc, alerted,
                     pc["main"], pc["input"], pc["processing"], pc["intervention"]>>
  BY DEF Output, OutputTakes, OutputWrites, outUnchanged,
         TypeOK, Labels, Goto, sockVars, mainVars, queues, histories

LEMMA InterventionFrame ==
  ASSUME TypeOK, Intervention
  PROVE  UNCHANGED <<running, inbox, arrived, accepted, inputQ, outputQ, inProc, inOut, alerted, written,
                     pc["main"], pc["input"], pc["processing"], pc["output"]>>
  BY DEF Intervention, IntervInit, IntervThrows, IntervTakes, intervUnchanged,
         TypeOK, Labels, Goto, sockVars, mainVars, queues, histories

LEMMA MailFrame ==
  ASSUME TypeOK, MailTask \/ UNCHANGED vars
  PROVE  UNCHANGED <<running, faulted, inbox, arrived, accepted, inputQ, outputQ, intervQ, inProc, inOut, alerted, written,
                     pc["main"], pc["input"], pc["processing"], pc["output"], pc["intervention"]>>
  BY DEF MailTask, MailCheck, MailTakes, MailTimeout, MailKeeps, MailSends, MailFlushes, mailUnchanged, vars,
         TypeOK, Labels, Goto, sockVars, mainVars, queues, histories


\* Every event that arrives keeps its number until it is accepted.
LEMMA ArrivalsKept ==
  ASSUME IInv, [Next]_vars
  PROVE  ArrivalsInv'
<1>0. /\ inbox \in Seq(Datagrams) /\ accepted \in Nat /\ arrived \in Nat /\ pc \in Labels
      /\ Newest \in Nat /\ accepted <= Newest /\ TypeOK
  BY MaxEventsAssumption DEF IInv, TypeOK, ArrivalsInv, Newest
<1>1. PICK number \in [DOMAIN inbox -> Nat] : Numbering(number)
  BY DEF IInv, ArrivalsInv
<1> DEFINE Numbered(box, from, to, f) ==
      \A i \in DOMAIN box : box[i] = "event" =>
        /\ from < f[i] /\ f[i] <= to
        /\ \A j \in DOMAIN box : i < j /\ box[j] = "event" => f[i] < f[j]
<1>2. Numbered(inbox, accepted, Newest, number)
  BY <1>1 DEF Numbering
<1>3. ASSUME NEW f \in [DOMAIN inbox' -> Nat], Numbered(inbox', accepted', Newest', f), accepted' <= Newest'
      PROVE  ArrivalsInv'
  BY <1>3 DEF ArrivalsInv, Numbering
<1> HIDE DEF Numbered
<1>4. CASE UNCHANGED <<inbox, accepted, Newest>>
  <2>1. number \in [DOMAIN inbox' -> Nat] /\ Numbered(inbox', accepted', Newest', number) /\ accepted' <= Newest'
    BY <1>0, <1>1, <1>2, <1>4
  <2> QED BY <2>1, <1>3
<1>5. CASE MainStart
  <2> DEFINE next == [i \in DOMAIN inbox |-> number[i] + 1]
  <2>1. /\ Newest' = Newest + 1 /\ accepted' = accepted + 1 /\ UNCHANGED inbox
    BY <1>0, <1>5 DEF MainStart, Goto, sockVars, Labels, Newest
  <2>2. next \in [DOMAIN inbox' -> Nat]
    BY <1>1, <2>1
  <2>3. Numbered(inbox, accepted + 1, Newest + 1, next)
    BY <1>0, <1>1, <1>2 DEF Numbered
  <2> HIDE DEF next
  <2>4. Numbered(inbox', accepted', Newest', next) /\ accepted' <= Newest'
    BY <1>0, <2>1, <2>3
  <2> QED BY <1>3, <2>2, <2>4
<1>6. CASE InputIgnores \/ InputReceives
  <2> DEFINE next == [i \in 1..Len(inbox) - 1 |-> number[i + 1]]
  <2>1. /\ inbox # <<>> /\ inbox' = Tail(inbox) /\ UNCHANGED Newest
        /\ \/ UNCHANGED accepted
           \/ accepted' = accepted + 1 /\ Head(inbox) = "event"
    BY <1>0, <1>6 DEF InputIgnores, InputReceives, Goto, sockVars, inputUnchanged, Labels, Newest
  <2>2. /\ 1 \in DOMAIN inbox /\ Head(inbox) = inbox[1]
        /\ DOMAIN inbox' = 1..Len(inbox) - 1 /\ DOMAIN inbox = 1..Len(inbox) /\ Len(inbox) \in Nat \ {0}
        /\ \A i \in 1..Len(inbox) - 1 : inbox'[i] = inbox[i + 1]
    BY <1>0, <2>1, Popping
  <2>3. \A i \in 1..Len(inbox) - 1 : i + 1 \in DOMAIN inbox /\ 1 < i + 1
    BY <2>2
  <2>4. next \in [DOMAIN inbox' -> Nat]
    BY <1>1, <2>2, <2>3
  <2>5. /\ accepted' <= Newest
        /\ \A i \in 1..Len(inbox) - 1 : inbox[i + 1] = "event" => accepted' < number[i + 1]
    <3>1. CASE UNCHANGED accepted
      BY <1>0, <1>2, <2>2, <2>3, <3>1 DEF Numbered
    <3>2. CASE accepted' = accepted + 1 /\ inbox[1] = "event"
      <4>1. accepted + 1 <= number[1] /\ number[1] <= Newest /\ number[1] \in Nat
        BY <1>0, <1>1, <1>2, <2>2, <3>2 DEF Numbered
      <4>2. \A i \in 1..Len(inbox) - 1 : inbox[i + 1] = "event" => number[1] < number[i + 1] /\ number[i + 1] \in Nat
        BY <1>1, <1>2, <2>2, <2>3, <3>2 DEF Numbered
      <4> QED BY <1>0, <3>2, <4>1, <4>2
    <3> QED BY <2>1, <2>2, <3>1, <3>2
  <2>6. ASSUME NEW i \in 1..Len(inbox) - 1, inbox'[i] = "event"
        PROVE  /\ accepted' < next[i] /\ next[i] <= Newest
               /\ \A j \in 1..Len(inbox) - 1 : i < j /\ inbox'[j] = "event" => next[i] < next[j]
    <3>1. i + 1 \in DOMAIN inbox /\ inbox[i + 1] = "event" /\ next[i] = number[i + 1]
      BY <2>2, <2>3, <2>6
    <3>2. \A j \in 1..Len(inbox) - 1 : i < j => i + 1 < j + 1
      BY <2>2
    <3> QED BY <1>2, <2>2, <2>3, <2>5, <3>1, <3>2 DEF Numbered
  <2>7. Numbered(inbox', accepted', Newest', next)
    BY <2>1, <2>2, <2>6 DEF Numbered
  <2> QED BY <1>3, <2>1, <2>4, <2>5, <2>7
<1>7. ASSUME NEW d \in Datagrams, Arrive(d)
      PROVE  ArrivalsInv'
  <2> DEFINE next == [i \in 1..Len(inbox) + 1 |-> IF i = Len(inbox) + 1 THEN Newest' ELSE number[i]]
  <2>1. inbox' = Append(inbox, d) /\ UNCHANGED accepted
    BY <1>7 DEF Arrive
  <2>2. Newest' = (IF d = "event" THEN Newest + 1 ELSE Newest)
    BY <1>0, <1>7 DEF Arrive, Newest
  <2>3. /\ DOMAIN inbox = 1..Len(inbox) /\ Len(inbox) \in Nat /\ DOMAIN inbox' = 1..Len(inbox) + 1
        /\ \A i \in 1..Len(inbox) : inbox'[i] = inbox[i]
        /\ inbox'[Len(inbox) + 1] = d
    BY <1>0, <2>1, Pushing
  <2>4. next \in [DOMAIN inbox' -> Nat]
    BY <1>0, <1>1, <2>2, <2>3
  <2>5. ASSUME NEW i \in 1..Len(inbox) + 1, inbox'[i] = "event"
        PROVE  /\ accepted < next[i] /\ next[i] <= Newest'
               /\ \A j \in 1..Len(inbox) + 1 : i < j /\ inbox'[j] = "event" => next[i] < next[j]
    <3>1. CASE i = Len(inbox) + 1
      <4>1. d = "event" /\ next[i] = Newest + 1 /\ Newest' = Newest + 1
        BY <2>2, <2>3, <2>5, <3>1
      <4>2. \A j \in 1..Len(inbox) + 1 : ~(i < j)
        BY <2>3, <3>1
      <4> QED BY <1>0, <4>1, <4>2
    <3>2. CASE i # Len(inbox) + 1
      <4>1. i \in 1..Len(inbox) /\ inbox[i] = "event" /\ next[i] = number[i]
        BY <2>3, <2>5, <3>2
      <4>2. accepted < number[i] /\ number[i] <= Newest /\ number[i] \in Nat
        BY <1>1, <1>2, <2>3, <4>1 DEF Numbered
      <4>3. ASSUME NEW j \in 1..Len(inbox) + 1, i < j, inbox'[j] = "event"
            PROVE  number[i] < next[j]
        <5>1. CASE j = Len(inbox) + 1
          <6>1. next[j] = Newest + 1
            BY <2>2, <2>3, <4>3, <5>1
          <6> QED BY <1>0, <4>2, <6>1
        <5>2. CASE j # Len(inbox) + 1
          <6>1. j \in 1..Len(inbox) /\ inbox[j] = "event" /\ next[j] = number[j]
            BY <2>3, <4>3, <5>2
          <6> QED BY <1>2, <2>3, <4>1, <4>3, <6>1 DEF Numbered
        <5> QED BY <5>1, <5>2
      <4>4. Newest <= Newest'
        BY <1>0, <2>2
      <4> QED BY <1>0, <2>2, <4>1, <4>2, <4>3, <4>4
    <3> QED BY <3>1, <3>2
  <2>6. Numbered(inbox', accepted', Newest', next)
    BY <2>1, <2>3, <2>5 DEF Numbered
  <2>7. accepted' <= Newest'
    BY <1>0, <2>1, <2>2
  <2> QED BY <1>3, <2>4, <2>6, <2>7
<1>8. CASE Main \/ MainSignal
  <2>1. CASE ~MainStart
    <3>1. UNCHANGED <<inbox, accepted, Newest>>
      BY <1>0, <1>8, <2>1 DEF Main, MainPolls, MainStops, MainExits, MainSignal, Goto, Labels, sockVars, Newest
    <3> QED BY <1>4, <3>1
  <2> QED BY <1>5, <2>1
<1>9. CASE Input
  <2>1. CASE ~(InputIgnores \/ InputReceives)
    <3>1. UNCHANGED <<inbox, accepted, Newest>>
      BY <1>0, <1>9, <2>1, InputFrame DEF Input, InputInit, InputThrows, InputCheck, InputTimeout, InputKills, sockVars, Newest
    <3> QED BY <1>4, <3>1
  <2> QED BY <1>6, <2>1
<1>10. CASE Processing \/ State \/ Output \/ Intervention \/ MailTask \/ UNCHANGED vars
  <2>1. UNCHANGED <<inbox, accepted, arrived, pc["main"]>>
    BY <1>0, <1>10, ProcessingFrame, StateFrame, OutputFrame, InterventionFrame, MailFrame
  <2> QED BY <1>4, <2>1 DEF Newest
<1> QED
  BY <1>7, <1>8, <1>9, <1>10 DEF Next, Environment

\* The bound of accepted.
LEMMA AcceptedBounded ==
  ASSUME IInv, [Next]_vars
  PROVE  accepted' \in 0..MaxEvents + 1
<1>0. TypeOK /\ accepted \in Nat /\ arrived \in 0..MaxEvents
  BY DEF IInv, TypeOK
<1>1. accepted' \in {accepted, accepted + 1} /\ arrived' \in 0..MaxEvents
  <2>1. CASE Main \/ MainSignal
    BY <1>0, <2>1, MainFrame DEF Main, MainStart, MainPolls, MainStops, MainExits, MainSignal
  <2>2. CASE Input
    BY <1>0, <2>2, InputFrame DEF Input, InputInit, InputThrows, InputCheck, InputIgnores, InputReceives, InputTimeout, InputKills
  <2>3. ASSUME NEW d \in Datagrams, Arrive(d)
        PROVE  UNCHANGED accepted /\ arrived' \in 0..MaxEvents
    BY <1>0, <2>3, MaxEventsAssumption DEF Arrive
  <2>4. CASE Processing \/ State \/ Output \/ Intervention \/ MailTask \/ UNCHANGED vars
    BY <1>0, <2>4, ProcessingFrame, StateFrame, OutputFrame, InterventionFrame, MailFrame
  <2> QED
    BY <1>0, <2>1, <2>2, <2>3, <2>4 DEF Next, Environment
<1>2. accepted' <= Newest'
  <2>1. ArrivalsInv'
    BY ArrivalsKept
  <2> QED BY <2>1 DEF ArrivalsInv
<1>3. Newest' = arrived' \/ Newest' = arrived' + 1
  BY DEF Newest
<1>4. Newest' \in 0..MaxEvents + 1
  BY <1>1, <1>3, MaxEventsAssumption
<1>5. accepted' \in Nat
  BY <1>0, <1>1
<1> QED BY <1>2, <1>4, <1>5, MaxEventsAssumption

\* What is pushed behind all events of a line, or is no event, keeps their order.
LEMMA AscendPushed ==
  ASSUME NEW S, NEW s \in Seq(S), NEW e \in S, EventsAscend(s),
         e \in EventIds => \A i \in DOMAIN s : s[i] \in EventIds => s[i] < e
  PROVE  EventsAscend(Append(s, e))
<1>1. /\ DOMAIN s = 1..Len(s) /\ Len(s) \in Nat /\ DOMAIN Append(s, e) = 1..Len(s) + 1
      /\ \A i \in 1..Len(s) : Append(s, e)[i] = s[i]
      /\ Append(s, e)[Len(s) + 1] = e
  BY Pushing
<1>2. ASSUME NEW i \in DOMAIN Append(s, e), NEW j \in DOMAIN Append(s, e), i < j,
             {Append(s, e)[i], Append(s, e)[j]} \subseteq EventIds
      PROVE  Append(s, e)[i] < Append(s, e)[j]
  <2>1. i \in 1..Len(s) /\ Append(s, e)[i] = s[i]
    BY <1>1, <1>2
  <2>2. CASE j = Len(s) + 1
    BY <1>1, <1>2, <2>1, <2>2
  <2>3. CASE j # Len(s) + 1
    <3>1. j \in 1..Len(s) /\ Append(s, e)[j] = s[j]
      BY <1>1, <1>2, <2>3
    <3> QED BY <1>1, <1>2, <2>1, <3>1 DEF EventsAscend
  <2> QED BY <2>2, <2>3
<1> QED BY <1>2 DEF EventsAscend

\* Events keep their order.
LEMMA EventsKept ==
  ASSUME IInv, [Next]_vars
  PROVE  EventsInv'
<1> DEFINE Behind(as, acc, hand) ==
             \A i \in DOMAIN as : as[i] \in EventIds => as[i] <= acc /\ (hand # None => as[i] < hand)
           Before(hand, q, acc) == \A i \in DOMAIN q : q[i] <= acc /\ (q[i] # KILL => hand < q[i])
<1>0. /\ TypeOK /\ pc \in Labels /\ accepted \in Nat /\ inProc \in EventIds \cup {None}
      /\ inputQ \in Seq(EventIds \cup {KILL}) /\ alerted \in Seq(AlertIds)
      /\ EventsAscend(alerted) /\ EventsAscend(inputQ) /\ Precede(alerted, inputQ)
      /\ Behind(alerted, accepted, inProc) /\ Before(inProc, inputQ, accepted)
      /\ inProc <= accepted
      /\ pc["processing"] \in {"process", "alert"} => inProc # None
  BY DEF IInv, TypeOK, EventsInv
<1>1. ASSUME EventsAscend(alerted'), EventsAscend(inputQ'), Precede(alerted', inputQ'),
             Behind(alerted', accepted', inProc'), Before(inProc', inputQ', accepted'),
             inProc' <= accepted', pc'["processing"] \in {"process", "alert"} => inProc' # None
      PROVE  EventsInv'
  BY <1>1 DEF EventsInv
<1> HIDE DEF Behind, Before
<1>2. ASSUME NEW e \in {accepted + 1, KILL}, inputQ' = Append(inputQ, e),
             accepted' = (IF e = KILL THEN accepted ELSE e), UNCHANGED <<alerted, inProc, pc["processing"]>>
      PROVE  EventsInv'
  <2>0. accepted' \in Nat /\ accepted <= accepted' /\ e \in Nat /\ e <= accepted' /\ (e # KILL => accepted < e) /\ inputQ \in Seq(Nat)
    BY <1>0, <1>2, Numbers DEF KILL
  <2>1. /\ DOMAIN inputQ = 1..Len(inputQ) /\ DOMAIN inputQ' = 1..Len(inputQ) + 1 /\ Len(inputQ) \in Nat
        /\ \A i \in 1..Len(inputQ) : inputQ'[i] = inputQ[i] /\ inputQ[i] \in Nat
        /\ inputQ'[Len(inputQ) + 1] = e
    BY <1>2, <2>0, Pushing
  <2>2. \A i \in DOMAIN inputQ' : i \in DOMAIN inputQ \/ i = Len(inputQ) + 1
    BY <2>1
  <2>3. EventsAscend(inputQ')
    <3>1. e \in EventIds => \A i \in DOMAIN inputQ : inputQ[i] \in EventIds => inputQ[i] < e
      BY <1>0, <2>0, <2>1, Numbers DEF Before
    <3> QED BY <1>0, <1>2, <2>0, <3>1, AscendPushed
  <2>4. Precede(alerted', inputQ')
    <3>1. ASSUME NEW i \in DOMAIN alerted, NEW j \in DOMAIN inputQ', {alerted[i], inputQ'[j]} \subseteq EventIds
          PROVE  alerted[i] < inputQ'[j]
      <4>1. CASE j \in DOMAIN inputQ
        BY <1>0, <2>1, <3>1, <4>1 DEF Precede
      <4>2. CASE j = Len(inputQ) + 1
        <5>1. inputQ'[j] = e /\ e # KILL /\ alerted[i] <= accepted /\ alerted[i] \in Nat
          BY <1>0, <2>1, <3>1, <4>2, Numbers DEF Behind
        <5> QED BY <1>0, <2>0, <5>1
      <4> QED BY <2>2, <4>1, <4>2
    <3> QED BY <1>2, <3>1 DEF Precede
  <2>5. Behind(alerted', accepted', inProc')
    <3>1. \A i \in DOMAIN alerted : alerted[i] \in EventIds => alerted[i] \in Nat
      BY Numbers
    <3> QED BY <1>0, <1>2, <2>0, <3>1 DEF Behind
  <2>6. Before(inProc', inputQ', accepted')
    <3>1. \A i \in DOMAIN inputQ : inputQ'[i] <= accepted' /\ (inputQ'[i] # KILL => inProc' < inputQ'[i])
      BY <1>0, <1>2, <2>0, <2>1 DEF Before
    <3>2. inProc \in Nat
      BY <1>0, Numbers
    <3>3. inputQ'[Len(inputQ) + 1] <= accepted' /\ (inputQ'[Len(inputQ) + 1] # KILL => inProc' < inputQ'[Len(inputQ) + 1])
      BY <1>0, <1>2, <2>0, <2>1, <3>2
    <3> QED BY <2>2, <3>1, <3>3 DEF Before
  <2>7. inProc' <= accepted' /\ (pc'["processing"] \in {"process", "alert"} => inProc' # None)
    BY <1>0, <1>2, <2>0, Numbers
  <2> QED BY <1>0, <1>1, <1>2, <2>3, <2>4, <2>5, <2>6, <2>7
<1>3. CASE ProcTakes
  <2>1. /\ inputQ # <<>> /\ inputQ' = Tail(inputQ) /\ inProc' = Head(inputQ) /\ UNCHANGED <<alerted, accepted>>
        /\ pc'["processing"] = IF Head(inputQ) = KILL THEN "killOutput" ELSE "process"
    BY <1>0, <1>3 DEF ProcTakes, procUnchanged, Labels, Goto
  <2>2. /\ Head(inputQ) = inputQ[1] /\ 1 \in DOMAIN inputQ /\ inputQ[1] \in EventIds \cup {KILL}
        /\ DOMAIN inputQ = 1..Len(inputQ) /\ Len(inputQ) \in Nat \ {0} /\ DOMAIN inputQ' = 1..Len(inputQ) - 1
        /\ \A i \in 1..Len(inputQ) - 1 : inputQ'[i] = inputQ[i + 1]
    BY <1>0, <2>1, Popping
  <2>3. \A i \in DOMAIN inputQ' : i + 1 \in DOMAIN inputQ /\ 1 < i + 1 /\ inputQ'[i] = inputQ[i + 1] /\ inputQ[i + 1] \in EventIds \cup {KILL}
    BY <1>0, <2>2
  <2>4. EventsAscend(inputQ')
    <3>1. \A i, j \in DOMAIN inputQ' : i < j => i + 1 < j + 1
      BY <2>2
    <3> QED BY <1>0, <2>3, <3>1 DEF EventsAscend
  <2>5. Precede(alerted', inputQ')
    BY <1>0, <2>1, <2>3 DEF Precede
  <2>6. Behind(alerted', accepted', inProc')
    <3>1. ASSUME NEW i \in DOMAIN alerted, alerted[i] \in EventIds, inProc' # None PROVE alerted[i] < inProc'
      <4>1. inputQ[1] \in EventIds
        BY <2>1, <2>2, <3>1, Numbers
      <4> QED BY <1>0, <2>1, <2>2, <3>1, <4>1 DEF Precede
    <3> QED BY <1>0, <2>1, <3>1 DEF Behind
  <2>7. Before(inProc', inputQ', accepted')
    <3>1. ASSUME NEW i \in DOMAIN inputQ', inputQ'[i] # KILL PROVE inProc' < inputQ'[i]
      <4>1. inputQ'[i] = inputQ[i + 1] /\ inputQ[i + 1] \in EventIds /\ inputQ[i + 1] > 0
        BY <2>3, <3>1, Numbers
      <4>2. CASE inputQ[1] = KILL
        BY <2>1, <2>2, <4>1, <4>2, Numbers
      <4>3. CASE inputQ[1] \in EventIds
        BY <1>0, <2>1, <2>2, <2>3, <4>1, <4>3 DEF EventsAscend
      <4> QED BY <2>2, <4>2, <4>3
    <3> QED BY <1>0, <2>1, <2>3, <3>1 DEF Before
  <2>8. inProc' <= accepted' /\ (pc'["processing"] \in {"process", "alert"} => inProc' # None)
    BY <1>0, <2>1, <2>2, Numbers DEF Before
  <2> QED BY <1>1, <1>0, <2>1, <2>4, <2>5, <2>6, <2>7, <2>8
<1>4. ASSUME NEW e \in AlertIds, alerted' = Append(alerted, e), UNCHANGED <<inputQ, accepted>>,
             \/ e = inProc /\ inProc' = None /\ pc'["processing"] = "take"
             \/ e \in UnlessIds /\ UNCHANGED <<inProc, pc["processing"]>>
      PROVE  EventsInv'
  <2>1. /\ DOMAIN alerted = 1..Len(alerted) /\ DOMAIN alerted' = 1..Len(alerted) + 1 /\ Len(alerted) \in Nat
        /\ \A i \in 1..Len(alerted) : alerted'[i] = alerted[i]
        /\ alerted'[Len(alerted) + 1] = e
    BY <1>0, <1>4, Pushing
  <2>2. \A i \in DOMAIN alerted' : i \in DOMAIN alerted \/ i = Len(alerted) + 1
    BY <2>1
  <2>3. e \in EventIds => e = inProc /\ inProc # None /\ inProc' = None
    BY <1>4, Numbers
  <2>4. EventsAscend(alerted')
    <3>1. e \in EventIds => \A i \in DOMAIN alerted : alerted[i] \in EventIds => alerted[i] < e
      BY <1>0, <2>3 DEF Behind
    <3> QED BY <1>0, <1>4, <3>1, AscendPushed
  <2>5. Precede(alerted', inputQ')
    <3>1. ASSUME NEW i \in DOMAIN alerted', NEW j \in DOMAIN inputQ, {alerted'[i], inputQ[j]} \subseteq EventIds
          PROVE  alerted'[i] < inputQ[j]
      <4>1. CASE i \in DOMAIN alerted
        BY <1>0, <2>1, <3>1, <4>1 DEF Precede
      <4>2. CASE i = Len(alerted) + 1
        <5>1. alerted'[i] = e /\ e = inProc /\ inputQ[j] # KILL
          BY <2>1, <2>3, <3>1, <4>2, Numbers
        <5> QED BY <1>0, <5>1 DEF Before
      <4> QED BY <2>2, <4>1, <4>2
    <3> QED BY <1>4, <3>1 DEF Precede
  <2>6. Behind(alerted', accepted', inProc')
    <3>1. ASSUME NEW i \in DOMAIN alerted', alerted'[i] \in EventIds
          PROVE  alerted'[i] <= accepted /\ (inProc' # None => alerted'[i] < inProc')
      <4>1. CASE i \in DOMAIN alerted
        BY <1>0, <1>4, <2>1, <3>1, <4>1 DEF Behind
      <4>2. CASE i = Len(alerted) + 1
        BY <1>0, <2>1, <2>3, <3>1, <4>2
      <4> QED BY <2>2, <4>1, <4>2
    <3> QED BY <1>4, <3>1 DEF Behind
  <2>7. Before(inProc', inputQ', accepted')
    <3>1. \A i \in DOMAIN inputQ : inputQ[i] # KILL => 0 < inputQ[i]
      BY <1>0, Numbers
    <3> QED BY <1>0, <1>4, <3>1, Numbers DEF Before
  <2>8. inProc' <= accepted' /\ (pc'["processing"] \in {"process", "alert"} => inProc' # None)
    BY <1>0, <1>4, Numbers
  <2> QED BY <1>1, <1>0, <1>4, <2>4, <2>5, <2>6, <2>7, <2>8
<1>5. ASSUME UNCHANGED <<inputQ, alerted, accepted>>,
             \/ inProc' = None /\ pc'["processing"] = "take"
             \/ UNCHANGED inProc /\ (pc'["processing"] \in {"process", "alert"} => pc["processing"] \in {"process", "alert"})
      PROVE  EventsInv'
  <2>1. \A i \in DOMAIN inputQ : inputQ[i] # KILL => 0 < inputQ[i]
    BY <1>0, Numbers
  <2>2. Behind(alerted', accepted', inProc') /\ Before(inProc', inputQ', accepted')
    BY <1>0, <1>5, <2>1, Numbers DEF Behind, Before
  <2>3. inProc' <= accepted' /\ (pc'["processing"] \in {"process", "alert"} => inProc' # None)
    BY <1>0, <1>5, Numbers
  <2> QED BY <1>0, <1>1, <1>5, <2>2, <2>3
<1>6. CASE Main \/ MainSignal
  <2>1. UNCHANGED <<alerted, inProc, pc["processing"]>>
    BY <1>0, <1>6, MainFrame
  <2>2. CASE MainStart
    <3>1. accepted' = accepted + 1 /\ inputQ' = Append(inputQ, accepted + 1) /\ accepted + 1 # KILL
      BY <1>0, <2>2, Numbers DEF MainStart
    <3> QED BY <1>2, <2>1, <3>1
  <2>3. CASE ~MainStart
    <3>1. UNCHANGED <<inputQ, accepted>>
      BY <1>6, <2>3 DEF Main, MainPolls, MainStops, MainExits, MainSignal, queues
    <3> QED BY <1>5, <2>1, <3>1
  <2> QED BY <2>2, <2>3
<1>7. CASE Input
  <2>1. UNCHANGED <<alerted, inProc, pc["processing"]>>
    BY <1>0, <1>7, InputFrame
  <2>2. CASE InputReceives
    <3>1. accepted' = accepted + 1 /\ inputQ' = Append(inputQ, accepted + 1) /\ accepted + 1 # KILL
      BY <1>0, <2>2, Numbers DEF InputReceives
    <3> QED BY <1>2, <2>1, <3>1
  <2>3. CASE InputKills
    <3>1. accepted' = accepted /\ inputQ' = Append(inputQ, KILL)
      BY <2>3 DEF InputKills
    <3> QED BY <1>2, <2>1, <3>1
  <2>4. CASE ~InputReceives /\ ~InputKills
    <3>1. UNCHANGED <<inputQ, accepted>>
      BY <1>7, <2>4 DEF Input, InputInit, InputThrows, InputCheck, InputIgnores, InputTimeout
    <3> QED BY <1>5, <2>1, <3>1
  <2> QED BY <2>2, <2>3, <2>4
<1>8. CASE Processing
  <2>1. CASE ProcAlerts
    <3>1. /\ alerted' = Append(alerted, inProc) /\ inProc' = None /\ pc'["processing"] = "take" /\ pc["processing"] = "alert"
          /\ UNCHANGED <<inputQ, accepted>>
      BY <1>0, <2>1 DEF ProcAlerts, procUnchanged, Labels, Goto
    <3>2. inProc \in AlertIds
      BY <1>0, <3>1, Numbers
    <3> QED BY <1>4, <3>1, <3>2
  <2>2. CASE ProcIgnores \/ ProcMatches \/ ProcThrows \/ ProcKillsOutput \/ ProcKillsIntervention
    <3>1. UNCHANGED <<inputQ, alerted, accepted>>
      BY <2>2 DEF ProcIgnores, ProcMatches, ProcThrows, ProcKillsOutput, ProcKillsIntervention, procUnchanged
    <3>2. \/ inProc' = None /\ pc'["processing"] = "take"
          \/ UNCHANGED inProc /\ (pc'["processing"] \in {"process", "alert"} => pc["processing"] \in {"process", "alert"})
      BY <1>0, <2>2 DEF ProcIgnores, ProcMatches, ProcThrows, ProcKillsOutput, ProcKillsIntervention, Labels, Goto
    <3> QED BY <1>5, <3>1, <3>2
  <2> QED BY <1>3, <1>8, <2>1, <2>2 DEF Processing
<1>9. CASE State
  <2>1. UNCHANGED <<inputQ, accepted, inProc, pc["processing"]>>
    BY <1>0, <1>9, StateFrame
  <2>2. UNCHANGED alerted \/ (armed # None /\ alerted' = Append(alerted, Unless(armed)))
    BY <1>9 DEF State, StateCheck, StateIdles, StateFires
  <2>3. armed # None => Unless(armed) \in UnlessIds /\ Unless(armed) \in AlertIds
    BY <1>0, Numbers DEF TypeOK
  <2>4. CASE UNCHANGED alerted
    BY <1>5, <2>1, <2>4
  <2>5. CASE armed # None /\ alerted' = Append(alerted, Unless(armed))
    BY <1>4, <2>1, <2>3, <2>5
  <2> QED BY <2>2, <2>4, <2>5
<1>10. CASE Output \/ Intervention \/ MailTask \/ UNCHANGED vars
  <2>1. UNCHANGED <<inputQ, alerted, accepted, inProc, pc["processing"]>>
    BY <1>0, <1>10, OutputFrame, InterventionFrame, MailFrame
  <2> QED BY <1>5, <2>1
<1>11. ASSUME NEW d \in Datagrams, Arrive(d) PROVE EventsInv'
  BY <1>5, <1>11 DEF Arrive, queues, histories
<1> QED BY <1>6, <1>7, <1>8, <1>9, <1>10, <1>11 DEF Next, Environment

\* What an alert in the hands of the output thread adds to the written ones.
LEMMA Hands ==
  ASSUME TypeOK
  PROVE  /\ Handed \in Seq(AlertIds)
         /\ inOut = None => Handed = written
         /\ inOut # None => Handed = Append(written, inOut)
<1>1. written \in Seq(AlertIds) /\ inOut \in AlertIds \cup {None}
  BY DEF TypeOK
<1>2. CASE inOut = None
  BY <1>1, <1>2, ConcatSimplifications DEF Handed, Hand
<1>3. CASE inOut # None
  <2>1. Append(written, inOut) = written \o <<inOut>> /\ Append(written, inOut) \in Seq(AlertIds)
    BY <1>1, <1>3, AppendIsConcat
  <2> QED BY <1>3, <2>1 DEF Handed, Hand
<1> QED BY <1>2, <1>3

\* Alerts are written in the order in which they were raised.
LEMMA AlertsKept ==
  ASSUME IInv, [Next]_vars
  PROVE  AlertsInv'
<1> DEFINE Gone == {"killIntervention", "done"}
<1>0. /\ TypeOK /\ pc \in Labels /\ alerted \in Seq(AlertIds) /\ outputQ \in Seq(Items) /\ AlertsInv
      /\ pc["processing"] = "alert" => inProc # None
      /\ Handed \in Seq(AlertIds) /\ Handed \in Seq(Items) /\ AlertIds \subseteq Items
  BY Hands, Numbers DEF IInv, TypeOK, EventsInv, Items
<1>1. CASE UNCHANGED <<outputQ, alerted, written, inOut, pc["output"]>> /\ (pc["processing"] \in Gone => pc'["processing"] \in Gone)
  <2>1. UNCHANGED Handed /\ (BehindKill => BehindKill')
    BY <1>1 DEF Handed, BehindKill
  <2> QED BY <1>0, <1>1, <2>1 DEF AlertsInv
<1>2. ASSUME NEW e \in AlertIds, outputQ' = Append(outputQ, e), alerted' = Append(alerted, e),
             UNCHANGED <<written, inOut, pc["output"]>>,
             \/ pc["processing"] \notin Gone
             \/ e \in UnlessIds /\ UNCHANGED pc["processing"]
      PROVE  AlertsInv'
  <2>0. UNCHANGED Handed /\ (inOut' # None <=> pc'["output"] = "write")
    BY <1>0, <1>2 DEF Handed, AlertsInv
  <2>1. pc'["output"] = "done" => outputQ' \in Seq(UnlessIds) /\ pc'["processing"] \in Gone
    <3>1. pc'["output"] = "done" => outputQ \in Seq(UnlessIds) /\ e \in UnlessIds /\ UNCHANGED pc["processing"] /\ pc["processing"] \in Gone
      BY <1>0, <1>2 DEF AlertsInv
    <3> QED BY <1>2, <3>1, Pushing
  <2>2. CASE outputQ \in Seq(AlertIds) /\ alerted = Handed \o outputQ
    <3>1. outputQ' \in Seq(AlertIds) /\ alerted' = Handed \o outputQ'
      <4>1. outputQ' \in Seq(AlertIds)
        BY <1>2, <2>2, Pushing
      <4>2. Append(Handed \o outputQ, e) = Handed \o Append(outputQ, e)
        BY <1>0, PushingToPart, Zenon
      <4> QED BY <1>2, <2>2, <4>1, <4>2, Zenon
    <3> QED BY <2>0, <2>1, <3>1 DEF AlertsInv
  <2>3. CASE BehindKill /\ pc["processing"] \in Gone /\ pc["output"] # "done"
    <3>1. PICK a \in Seq(AlertIds), b \in Seq(UnlessIds) : outputQ = (a \o <<KILL>>) \o b /\ alerted = Handed \o (a \o b)
      BY <2>3 DEF BehindKill
    <3>2. e \in UnlessIds /\ UNCHANGED pc["processing"]
      BY <1>2, <2>3
    <3>3. Append(b, e) \in Seq(UnlessIds) /\ b \in Seq(Items) /\ a \in Seq(Items) /\ KILL \in Items /\ e \in Items
      <4>1. Append(b, e) \in Seq(UnlessIds)
        BY <3>1, <3>2, Pushing
      <4> QED BY <1>0, <1>2, <3>1, <4>1, Numbers, Sequences
    <3>4. Append((a \o <<KILL>>) \o b, e) = (a \o <<KILL>>) \o Append(b, e)
      BY <3>3, PushingBehind, ZenonT(30)
    <3>5. outputQ' = (a \o <<KILL>>) \o Append(b, e)
      BY <1>2, <3>1, <3>4, Zenon
    <3>6. alerted' = Handed \o (a \o Append(b, e))
      <4>1. \A h \in Seq(Items) : Append(h \o (a \o b), e) = h \o (a \o Append(b, e))
        BY <3>3, PushingDeeper, ZenonT(30)
      <4>2. Handed \in Seq(Items)
        BY <1>0
      <4> QED BY <1>2, <3>1, <4>1, <4>2, Zenon
    <3>7. BehindKill'
      BY <2>0, <3>3, <3>5, <3>6 DEF BehindKill
    <3>8. pc'["processing"] \in Gone /\ pc'["output"] # "done"
      BY <1>2, <2>3, <3>2
    <3> QED BY <2>0, <2>1, <3>7, <3>8 DEF AlertsInv
  <2> QED BY <1>0, <2>2, <2>3 DEF AlertsInv
<1>3. CASE ProcKillsOutput
  <2>1. /\ outputQ' = Append(outputQ, KILL) /\ UNCHANGED <<alerted, written, inOut, pc["output"]>>
        /\ pc["processing"] = "killOutput" /\ pc'["processing"] = "killIntervention"
    BY <1>0, <1>3 DEF ProcKillsOutput, procUnchanged, Labels, Goto
  <2>2. outputQ \in Seq(AlertIds) /\ alerted = Handed \o outputQ /\ pc["output"] # "done"
    BY <1>0, <2>1 DEF AlertsInv
  <2>3. <<>> \in Seq(UnlessIds) /\ <<KILL>> \in Seq(Items) /\ outputQ \o <<KILL>> \in Seq(Items)
    BY <1>0, Sequences, Joining
  <2>4. outputQ' = outputQ \o <<KILL>>
    BY <1>0, <2>1, Numbers, AppendIsConcat
  <2>5. outputQ' = (outputQ \o <<KILL>>) \o <<>> /\ outputQ \o <<>> = outputQ
    BY <1>0, <2>3, <2>4, Joining, Zenon
  <2>6. UNCHANGED Handed
    BY <2>1 DEF Handed
  <2>7. BehindKill'
    BY <2>1, <2>2, <2>3, <2>5, <2>6, Zenon DEF BehindKill
  <2> QED BY <1>0, <2>1, <2>2, <2>7 DEF AlertsInv
<1>4. CASE OutputTakes
  <2>1. /\ pc["output"] = "take" /\ outputQ # <<>> /\ outputQ' = Tail(outputQ) /\ UNCHANGED <<alerted, written, pc["processing"]>>
        /\ Head(outputQ) = KILL => pc'["output"] = "done" /\ UNCHANGED inOut
        /\ Head(outputQ) # KILL => pc'["output"] = "write" /\ inOut' = Head(outputQ)
    BY <1>0, <1>4 DEF OutputTakes, outUnchanged, Labels, Goto
  <2>2. inOut = None /\ Handed = written /\ written \in Seq(AlertIds)
    BY <1>0, <2>1, Hands DEF AlertsInv, TypeOK
  <2>3. ASSUME NEW h \in AlertIds, Head(outputQ) = h
        PROVE  pc'["output"] = "write" /\ inOut' # None /\ <<h>> \in Seq(AlertIds) /\ Handed' = written \o <<h>> /\ Handed' \in Seq(AlertIds)
    <3>1. h # KILL /\ h # None
      BY Numbers
    <3> QED BY <2>1, <2>2, <2>3, <3>1, ConcatProperties DEF Handed, Hand
  <2>4. CASE outputQ \in Seq(AlertIds) /\ alerted = Handed \o outputQ
    <3>1. Head(outputQ) \in AlertIds /\ Tail(outputQ) \in Seq(AlertIds) /\ Tail(outputQ) \in Seq(Items) /\ written \in Seq(Items)
      BY <1>0, <2>1, <2>2, <2>4, Popping, Sequences
    <3>2. written \o (outputQ \o <<>>) = (written \o <<Head(outputQ)>>) \o (Tail(outputQ) \o <<>>) /\ <<>> \in Seq(Items)
      <4>1. <<>> \in Seq(Items) /\ outputQ \in Seq(Items)
        BY <1>0, Sequences
      <4> QED BY <2>1, <3>1, <4>1, PoppingBefore, ZenonT(30)
    <3>3. alerted = (written \o <<Head(outputQ)>>) \o Tail(outputQ)
      BY <1>0, <2>2, <2>4, <3>1, <3>2, Joining, Zenon
    <3> QED BY <2>1, <2>3, <3>1, <3>3 DEF AlertsInv
  <2>5. CASE BehindKill /\ pc["processing"] \in Gone
    <3>1. PICK a \in Seq(AlertIds), b \in Seq(UnlessIds) : outputQ = (a \o <<KILL>>) \o b /\ alerted = Handed \o (a \o b)
      BY <2>5 DEF BehindKill
    <3>2. b \in Seq(AlertIds) /\ b \in Seq(Items) /\ a \in Seq(Items) /\ <<KILL>> \in Seq(Items) /\ a \o <<KILL>> \in Seq(Items)
      BY <3>1, Sequences, Joining
    <3>3. <<KILL>> # <<>> /\ Head(<<KILL>>) = KILL /\ Tail(<<KILL>>) = <<>>
      OBVIOUS
    <3>4. CASE a = <<>>
      <4>1. outputQ = <<KILL>> \o b /\ alerted = Handed \o b
        BY <3>1, <3>2, <3>4, Joining, Zenon
      <4>2. Head(outputQ) = KILL /\ outputQ' = b
        <5>1. Head(<<KILL>> \o b) = Head(<<KILL>>) /\ Tail(<<KILL>> \o b) = Tail(<<KILL>>) \o b
          BY <3>2, <3>3, PoppingFromPart, Zenon
        <5> QED BY <2>1, <3>2, <3>3, <4>1, <5>1, Joining, Zenon
      <4>3. pc'["output"] = "done" /\ inOut' = None /\ Handed' = Handed
        BY <2>1, <2>2, <4>2 DEF Handed
      <4> QED BY <2>1, <2>5, <3>2, <4>1, <4>2, <4>3 DEF AlertsInv
    <3>5. CASE a # <<>>
      <4>1. Head(a) \in AlertIds /\ Tail(a) \in Seq(AlertIds)
        BY <3>5, Popping
      <4>2. a \o <<KILL>> # <<>> /\ Head(a \o <<KILL>>) = Head(a) /\ Tail(a \o <<KILL>>) = Tail(a) \o <<KILL>>
        BY <3>2, <3>5, PoppingFromPart, Zenon
      <4>3. Head(outputQ) = Head(a) /\ outputQ' = (Tail(a) \o <<KILL>>) \o b
        <5>1. Head((a \o <<KILL>>) \o b) = Head(a \o <<KILL>>) /\ Tail((a \o <<KILL>>) \o b) = Tail(a \o <<KILL>>) \o b
          BY <3>2, <4>2, PoppingFromPart, Zenon
        <5> QED BY <2>1, <3>1, <4>2, <5>1, Zenon
      <4>4. alerted = (written \o <<Head(a)>>) \o (Tail(a) \o b)
        <5>1. written \in Seq(Items)
          BY <1>0, <2>2, Sequences
        <5>2. written \o (a \o b) = (written \o <<Head(a)>>) \o (Tail(a) \o b)
          BY <3>2, <3>5, <5>1, PoppingBefore, ZenonT(30)
        <5> QED BY <2>2, <3>1, <5>2
      <4>5. pc'["output"] = "write" /\ inOut' # None /\ Handed' = written \o <<Head(a)>>
        BY <2>3, <4>1, <4>3
      <4>6. BehindKill'
        BY <2>1, <4>1, <4>3, <4>4, <4>5 DEF BehindKill
      <4> QED BY <2>1, <2>5, <4>5, <4>6 DEF AlertsInv
    <3> QED BY <3>4, <3>5
  <2> QED BY <1>0, <2>4, <2>5 DEF AlertsInv
<1>5. CASE OutputWrites
  <2>1. /\ pc["output"] = "write" /\ pc'["output"] = "take" /\ inOut' = None /\ written' = Append(written, inOut)
        /\ UNCHANGED <<outputQ, alerted, pc["processing"]>>
    BY <1>0, <1>5 DEF OutputWrites, outUnchanged, Labels, Goto
  <2>2. inOut # None /\ Handed = Append(written, inOut)
    BY <1>0, <2>1, Hands DEF AlertsInv
  <2>3. Handed' = Handed
    BY <1>0, <2>1, <2>2, ConcatSimplifications DEF Handed, Hand
  <2>4. BehindKill => BehindKill'
    BY <2>1, <2>3 DEF BehindKill
  <2> QED BY <1>0, <2>1, <2>3, <2>4 DEF AlertsInv
<1>6. CASE Processing
  <2>1. UNCHANGED <<written, inOut, pc["output"]>>
    BY <1>0, <1>6, ProcessingFrame
  <2>2. CASE ProcAlerts
    <3>1. outputQ' = Append(outputQ, inProc) /\ alerted' = Append(alerted, inProc) /\ inProc \in AlertIds /\ pc["processing"] \notin Gone
      BY <1>0, <2>2, Numbers DEF ProcAlerts, TypeOK
    <3> QED BY <1>2, <2>1, <3>1
  <2>3. CASE ~ProcAlerts /\ ~ProcKillsOutput
    <3>1. UNCHANGED <<outputQ, alerted>> /\ (pc["processing"] \in Gone => pc'["processing"] \in Gone)
      BY <1>0, <1>6, <2>3 DEF Processing, ProcTakes, ProcIgnores, ProcMatches, ProcThrows, ProcKillsIntervention, Labels, Goto
    <3> QED BY <1>1, <2>1, <3>1
  <2> QED BY <1>3, <2>2, <2>3
<1>7. CASE State
  <2>1. UNCHANGED <<written, inOut, pc["output"], pc["processing"]>>
    BY <1>0, <1>7, StateFrame
  <2>2. \/ UNCHANGED <<outputQ, alerted>>
        \/ armed # None /\ outputQ' = Append(outputQ, Unless(armed)) /\ alerted' = Append(alerted, Unless(armed))
    BY <1>7 DEF State, StateCheck, StateIdles, StateFires
  <2>3. armed # None => Unless(armed) \in UnlessIds /\ Unless(armed) \in AlertIds
    BY <1>0, Numbers DEF TypeOK
  <2>4. CASE UNCHANGED <<outputQ, alerted>>
    BY <1>1, <2>1, <2>4
  <2>5. CASE armed # None /\ outputQ' = Append(outputQ, Unless(armed)) /\ alerted' = Append(alerted, Unless(armed))
    BY <1>2, <2>1, <2>3, <2>5
  <2> QED BY <2>2, <2>4, <2>5
<1>8. CASE Main \/ MainSignal \/ Input \/ Intervention \/ MailTask \/ UNCHANGED vars
  <2>1. UNCHANGED <<outputQ, alerted, written, inOut, pc["output"], pc["processing"]>>
    BY <1>0, <1>8, MainFrame, InputFrame, InterventionFrame, MailFrame
  <2> QED BY <1>1, <2>1
<1>9. ASSUME NEW d \in Datagrams, Arrive(d) PROVE AlertsInv'
  BY <1>1, <1>9 DEF Arrive, queues, histories
<1> QED BY <1>4, <1>5, <1>6, <1>7, <1>8, <1>9 DEF Next, Environment, Output

\* What each step does to the two queues that !KILL goes down.
LEMMA QueueSteps ==
  ASSUME IInv, [Next]_vars
  PROVE  /\ \/ UNCHANGED inputQ
            \/ inputQ' = Append(inputQ, accepted + 1) /\ (MainStart \/ InputReceives)
            \/ inputQ' = Append(inputQ, KILL) /\ InputKills
            \/ inputQ # <<>> /\ inputQ' = Tail(inputQ) /\ ProcTakes
         /\ \/ UNCHANGED intervQ
            \/ intervQ' = Append(intervQ, inProc) /\ ProcMatches
            \/ intervQ' = Append(intervQ, KILL) /\ ProcKillsIntervention
            \/ intervQ # <<>> /\ intervQ' = Tail(intervQ) /\ IntervTakes
<1>0. TypeOK
  BY DEF IInv
<1>1. CASE Main \/ MainSignal
  BY <1>0, <1>1, MainFrame DEF Main, MainStart, MainPolls, MainStops, MainExits, MainSignal, queues
<1>2. CASE Input
  BY <1>0, <1>2, InputFrame DEF Input, InputInit, InputThrows, InputCheck, InputIgnores, InputReceives, InputTimeout, InputKills
<1>3. CASE Processing
  BY <1>0, <1>3 DEF Processing, ProcTakes, ProcKillsOutput, ProcKillsIntervention, ProcIgnores, ProcMatches, ProcAlerts, ProcThrows
<1>4. CASE Intervention
  BY <1>0, <1>4, InterventionFrame DEF Intervention, IntervInit, IntervThrows, IntervTakes
<1>5. CASE State \/ Output \/ MailTask \/ UNCHANGED vars
  BY <1>0, <1>5, StateFrame, OutputFrame, MailFrame
<1>6. ASSUME NEW d \in Datagrams, Arrive(d) PROVE UNCHANGED <<inputQ, intervQ>>
  BY <1>6 DEF Arrive, queues
<1> QED BY <1>1, <1>2, <1>3, <1>4, <1>5, <1>6 DEF Next, Environment

LEMMA StaysStopped ==
  ASSUME IInv, [Next]_vars
  PROVE  (~running => ~running') /\ faulted \subseteq faulted'
<1>0. TypeOK
  BY DEF IInv
<1>1. CASE Main \/ MainSignal
  BY <1>0, <1>1, MainFrame DEF Main, MainStart, MainPolls, MainStops, MainExits, MainSignal, mainVars
<1>2. CASE Input
  <2>1. faulted' \in {faulted, faulted \cup {"input"}}
    BY <1>2 DEF Input, InputInit, InputThrows, InputCheck, InputIgnores, InputReceives, InputTimeout, InputKills, Throw
  <2> QED BY <1>0, <1>2, <2>1, InputFrame
<1>3. CASE Processing
  <2>1. faulted' \in {faulted, faulted \cup {"processing"}}
    BY <1>3 DEF Processing, ProcTakes, ProcKillsOutput, ProcKillsIntervention, ProcIgnores, ProcMatches, ProcAlerts, ProcThrows, Throw
  <2> QED BY <1>0, <1>3, <2>1, ProcessingFrame
<1>4. CASE Intervention
  <2>1. faulted' \in {faulted, faulted \cup {"intervention"}}
    BY <1>4 DEF Intervention, IntervInit, IntervThrows, IntervTakes, Throw
  <2> QED BY <1>0, <1>4, <2>1, InterventionFrame
<1>5. CASE State \/ Output \/ MailTask \/ UNCHANGED vars
  BY <1>0, <1>5, StateFrame, OutputFrame, MailFrame
<1>6. ASSUME NEW d \in Datagrams, Arrive(d) PROVE UNCHANGED <<running, faulted>>
  BY <1>6 DEF Arrive, mainVars
<1> QED BY <1>1, <1>2, <1>3, <1>4, <1>5, <1>6 DEF Next, Environment

\* !KILL is pushed by a thread that has seen RUNNING cleared, has failed, or has
\* taken !KILL itself.
LEMMA StopKept ==
  ASSUME IInv, [Next]_vars
  PROVE  StopInv'
<1>0. /\ TypeOK /\ pc \in Labels /\ inputQ \in Seq(EventIds \cup {KILL}) /\ intervQ \in Seq(EventIds \cup {KILL})
      /\ accepted \in Nat /\ StopInv /\ accepted + 1 # KILL /\ (pc["processing"] \in {"process", "alert"} => inProc # None)
  BY Numbers DEF IInv, TypeOK, EventsInv
<1>1. Stopped => Stopped'
  BY StaysStopped DEF Stopped
<1>2. pc'["input"] \in {"kill", "done"} => Stopped'
  <2>1. CASE Input
    BY <1>0, <1>1, <2>1 DEF Input, InputInit, InputThrows, InputCheck, InputIgnores, InputReceives, InputTimeout, InputKills,
                            Labels, Goto, Throw, Stopped, StopInv, inputUnchanged
  <2>2. CASE ~Input
    <3>1. UNCHANGED pc["input"]
      BY <1>0, <2>2, MainFrame, ProcessingFrame, StateFrame, OutputFrame, InterventionFrame, MailFrame DEF Next, Environment, Arrive
    <3> QED BY <1>0, <1>1, <3>1 DEF StopInv
  <2> QED BY <2>1, <2>2
<1>3. KILL \in ToSet(inputQ') => pc'["input"] = "done"
  <2>1. pc["input"] = "done" => pc'["input"] = "done"
    <3>1. CASE Input
      BY <1>0, <3>1 DEF Input, InputInit, InputThrows, InputCheck, InputIgnores, InputReceives, InputTimeout, InputKills, Labels, Goto
    <3>2. CASE ~Input
      BY <1>0, <3>2, MainFrame, ProcessingFrame, StateFrame, OutputFrame, InterventionFrame, MailFrame DEF Next, Environment, Arrive
    <3> QED BY <3>1, <3>2
  <2>2. CASE KILL \in ToSet(inputQ)
    BY <1>0, <2>1, <2>2 DEF StopInv
  <2>3. CASE KILL \notin ToSet(inputQ)
    <3>1. CASE UNCHANGED inputQ
      BY <2>3, <3>1
    <3>2. CASE inputQ' = Append(inputQ, accepted + 1) /\ (MainStart \/ InputReceives)
      <4>1. inputQ \in Seq(Nat)
        BY <1>0, Numbers
      <4>2. ToSet(inputQ') = ToSet(inputQ) \cup {accepted + 1}
        BY <1>0, <3>2, <4>1, Pushing
      <4> QED BY <1>0, <2>3, <4>2
    <3>3. CASE InputKills
      BY <1>0, <3>3 DEF InputKills, Labels, Goto
    <3>4. CASE inputQ # <<>> /\ inputQ' = Tail(inputQ)
      BY <1>0, <2>3, <3>4, Popping
    <3> QED BY <3>1, <3>2, <3>3, <3>4, QueueSteps
  <2> QED BY <2>2, <2>3
<1>4. pc'["processing"] \in {"killOutput", "killIntervention", "done"} => Stopped'
  <2>1. CASE ProcTakes
    <3>1. pc'["processing"] = "killOutput" => KILL \in ToSet(inputQ)
      BY <1>0, <2>1, Popping DEF ProcTakes, Labels, Goto
    <3>2. pc'["processing"] \in {"killOutput", "process"}
      BY <1>0, <2>1 DEF ProcTakes, Labels, Goto
    <3> QED BY <1>0, <1>1, <3>1, <3>2 DEF StopInv
  <2>2. CASE Processing /\ ~ProcTakes
    BY <1>0, <1>1, <2>2 DEF Processing, ProcKillsOutput, ProcKillsIntervention, ProcIgnores, ProcMatches, ProcAlerts, ProcThrows,
                            Labels, Goto, Throw, Stopped, StopInv
  <2>3. CASE ~Processing
    <3>1. UNCHANGED pc["processing"]
      BY <1>0, <2>3, MainFrame, InputFrame, StateFrame, OutputFrame, InterventionFrame, MailFrame DEF Next, Environment, Arrive
    <3> QED BY <1>0, <1>1, <3>1 DEF StopInv
  <2> QED BY <2>1, <2>2, <2>3
<1>5. KILL \in ToSet(intervQ') => pc'["processing"] = "done"
  <2>1. pc["processing"] = "done" => pc'["processing"] = "done"
    <3>1. CASE Processing
      BY <1>0, <3>1 DEF Processing, ProcTakes, ProcKillsOutput, ProcKillsIntervention, ProcIgnores, ProcMatches, ProcAlerts, ProcThrows
    <3>2. CASE ~Processing
      BY <1>0, <3>2, MainFrame, InputFrame, StateFrame, OutputFrame, InterventionFrame, MailFrame DEF Next, Environment, Arrive
    <3> QED BY <3>1, <3>2
  <2>2. CASE KILL \in ToSet(intervQ)
    BY <1>0, <2>1, <2>2 DEF StopInv
  <2>3. CASE KILL \notin ToSet(intervQ)
    <3>1. CASE UNCHANGED intervQ
      BY <2>3, <3>1
    <3>2. CASE intervQ' = Append(intervQ, inProc) /\ ProcMatches
      <4>1. inProc \in EventIds \cup {KILL} /\ inProc # KILL
        BY <1>0, <3>2 DEF ProcMatches, TypeOK, None, KILL
      <4>2. ToSet(intervQ') = ToSet(intervQ) \cup {inProc}
        BY <1>0, <3>2, <4>1, Pushing
      <4> QED BY <2>3, <4>1, <4>2
    <3>3. CASE ProcKillsIntervention
      BY <1>0, <3>3 DEF ProcKillsIntervention, Labels, Goto
    <3>4. CASE intervQ # <<>> /\ intervQ' = Tail(intervQ)
      BY <1>0, <2>3, <3>4, Popping
    <3> QED BY <3>1, <3>2, <3>3, <3>4, QueueSteps
  <2> QED BY <2>2, <2>3
<1>6. pc'["intervention"] = "done" => Stopped'
  <2>1. CASE IntervTakes
    <3>1. pc'["intervention"] = "done" => KILL \in ToSet(intervQ)
      BY <1>0, <2>1, Popping DEF IntervTakes, Labels, Goto
    <3> QED BY <1>0, <1>1, <3>1 DEF StopInv
  <2>2. CASE Intervention /\ ~IntervTakes
    BY <1>0, <1>1, <2>2 DEF Intervention, IntervInit, IntervThrows, Labels, Goto, Throw, Stopped, StopInv
  <2>3. CASE ~Intervention
    <3>1. UNCHANGED pc["intervention"]
      BY <1>0, <2>3, MainFrame, InputFrame, ProcessingFrame, StateFrame, OutputFrame, MailFrame DEF Next, Environment, Arrive
    <3> QED BY <1>0, <1>1, <3>1 DEF StopInv
  <2> QED BY <2>1, <2>2, <2>3
<1> QED BY <1>2, <1>3, <1>4, <1>5, <1>6 DEF StopInv

\* Pushing to a queue without !KILL, and popping, leave !KILL at the end.
LEMMA LastPushed ==
  ASSUME NEW S, NEW q \in Seq(S), NEW e \in S, KILL \notin ToSet(q)
  PROVE  KillIsLast(Append(q, e))
<1>1. /\ DOMAIN Append(q, e) = 1..Len(q) + 1 /\ Len(Append(q, e)) = Len(q) + 1 /\ Len(q) \in Nat /\ DOMAIN q = 1..Len(q)
      /\ \A i \in 1..Len(q) : Append(q, e)[i] = q[i]
  BY Pushing
<1>2. \A i \in DOMAIN q : q[i] # KILL
  BY DEF ToSet
<1>3. \A i \in DOMAIN Append(q, e) : i \in DOMAIN q \/ i = Len(q) + 1
  BY <1>1
<1> QED BY <1>1, <1>2, <1>3 DEF KillIsLast

LEMMA LastPopped ==
  ASSUME NEW S, NEW q \in Seq(S), q # <<>>, KillIsLast(q)
  PROVE  KillIsLast(Tail(q)) /\ (Head(q) = KILL => Tail(q) = <<>>)
<1>1. /\ Head(q) = q[1] /\ 1 \in DOMAIN q /\ DOMAIN q = 1..Len(q) /\ Len(q) \in Nat \ {0} /\ Tail(q) \in Seq(S)
      /\ DOMAIN Tail(q) = 1..Len(q) - 1 /\ Len(Tail(q)) = Len(q) - 1
      /\ \A i \in 1..Len(q) - 1 : Tail(q)[i] = q[i + 1]
  BY Popping
<1>2. ASSUME NEW i \in DOMAIN Tail(q), Tail(q)[i] = KILL PROVE i = Len(Tail(q))
  <2>1. i + 1 \in DOMAIN q /\ q[i + 1] = KILL
    BY <1>1, <1>2
  <2>2. i + 1 = Len(q)
    BY <2>1 DEF KillIsLast
  <2> QED BY <1>1, <2>2
<1>3. Head(q) = KILL => Tail(q) = <<>>
  <2>1. Head(q) = KILL => Len(Tail(q)) = 0
    BY <1>1 DEF KillIsLast
  <2> QED BY <1>1, <2>1
<1> QED BY <1>2, <1>3 DEF KillIsLast

\* As long as no thread fails, !KILL is the last message of a queue, and a thread
\* that has taken it has taken everything.
LEMMA DrainKept ==
  ASSUME IInv, [Next]_vars
  PROVE  DrainInv'
<1>0. /\ TypeOK /\ pc \in Labels /\ inputQ \in Seq(EventIds \cup {KILL}) /\ intervQ \in Seq(EventIds \cup {KILL})
      /\ accepted \in Nat /\ running \in BOOLEAN /\ StopInv /\ DrainInv /\ inProc \in EventIds \cup {KILL}
  BY DEF IInv, TypeOK, None, KILL
<1>1. ~running' <=> pc'["main"] \in {"join", "exited"}
  <2>1. CASE Main \/ MainSignal
    BY <1>0, <2>1 DEF Main, MainStart, MainPolls, MainStops, MainExits, MainSignal, Labels, Goto, DrainInv, mainVars
  <2>2. CASE ~(Main \/ MainSignal)
    <3>1. UNCHANGED <<running, pc["main"]>>
      BY <1>0, <2>2, InputFrame, ProcessingFrame, StateFrame, OutputFrame, InterventionFrame, MailFrame DEF Next, Environment, Arrive, mainVars
    <3> QED BY <1>0, <3>1 DEF DrainInv
  <2> QED BY <2>1, <2>2
<1> SUFFICES ASSUME faulted' = {}
             PROVE  /\ pc'["input"] \in {"kill", "done"} => ~running'
                    /\ KillIsLast(inputQ')
                    /\ Killing' => pc'["input"] = "done" /\ inputQ' = <<>>
                    /\ pc'["input"] = "done" /\ ~Killing' => KILL \in ToSet(inputQ')
                    /\ KillIsLast(intervQ')
                    /\ pc'["intervention"] = "done" => pc'["processing"] = "done" /\ intervQ' = <<>>
  BY <1>1 DEF DrainInv, KillIsLast
<1>2. /\ pc["input"] \in {"kill", "done"} => ~running
      /\ KillIsLast(inputQ)
      /\ Killing => pc["input"] = "done" /\ inputQ = <<>>
      /\ pc["input"] = "done" /\ ~Killing => KILL \in ToSet(inputQ)
      /\ KillIsLast(intervQ)
      /\ pc["intervention"] = "done" => pc["processing"] = "done" /\ intervQ = <<>>
      /\ ~running => pc["main"] \in {"join", "exited"}
      /\ faulted = {}
  BY <1>0, StaysStopped DEF DrainInv
<1>3. /\ KILL \in ToSet(inputQ) => pc["input"] = "done"
      /\ KILL \in ToSet(intervQ) => pc["processing"] = "done"
  BY <1>0 DEF StopInv
<1>4. /\ MainStart \/ InputReceives => pc["input"] # "done" /\ UNCHANGED <<pc["input"], pc["processing"]>>
      /\ InputKills => pc["input"] = "kill" /\ pc'["input"] = "done" /\ UNCHANGED pc["processing"]
      /\ ProcTakes => pc["processing"] = "take" /\ pc'["processing"] = (IF Head(inputQ) = KILL THEN "killOutput" ELSE "process") /\ UNCHANGED pc["input"]
      /\ ~(MainStart \/ InputReceives \/ InputKills \/ ProcTakes) =>
           /\ UNCHANGED inputQ
           /\ pc["input"] = "done" <=> pc'["input"] = "done"
           /\ Killing' <=> Killing
  <2>1. /\ MainStart \/ InputReceives => pc["input"] # "done" /\ UNCHANGED <<pc["input"], pc["processing"]>>
        /\ InputKills => pc["input"] = "kill" /\ pc'["input"] = "done" /\ UNCHANGED pc["processing"]
        /\ ProcTakes => pc["processing"] = "take" /\ pc'["processing"] = (IF Head(inputQ) = KILL THEN "killOutput" ELSE "process") /\ UNCHANGED pc["input"]
    BY <1>0, <1>2 DEF MainStart, InputReceives, InputKills, ProcTakes, Labels, Goto
  <2>2. ASSUME ~(MainStart \/ InputReceives \/ InputKills \/ ProcTakes) PROVE UNCHANGED inputQ
    BY <2>2, QueueSteps
  <2>3. ASSUME ~InputKills PROVE pc["input"] = "done" <=> pc'["input"] = "done"
    <3>1. CASE Input
      BY <1>0, <2>3, <3>1 DEF Input, InputInit, InputThrows, InputCheck, InputIgnores, InputReceives, InputTimeout, Labels, Goto
    <3>2. CASE ~Input
      BY <1>0, <3>2, MainFrame, ProcessingFrame, StateFrame, OutputFrame, InterventionFrame, MailFrame DEF Next, Environment, Arrive
    <3> QED BY <3>1, <3>2
  <2>4. ASSUME ~ProcTakes PROVE Killing' <=> Killing
    <3>1. CASE Processing
      <4>1. ~ProcThrows
        BY DEF ProcThrows, Throw
      <4> QED BY <1>0, <2>4, <3>1, <4>1 DEF Processing, ProcKillsOutput, ProcKillsIntervention, ProcIgnores, ProcMatches, ProcAlerts, Labels, Goto, Killing
    <3>2. CASE ~Processing
      <4>1. UNCHANGED pc["processing"]
        BY <1>0, <3>2, MainFrame, InputFrame, StateFrame, OutputFrame, InterventionFrame, MailFrame DEF Next, Environment, Arrive
      <4> QED BY <4>1 DEF Killing
    <3> QED BY <3>1, <3>2
  <2> QED BY <2>1, <2>2, <2>3, <2>4
<1>5. pc'["input"] \in {"kill", "done"} => ~running'
  <2>1. CASE Input
    BY <1>0, <1>2, <2>1, InputFrame DEF Input, InputInit, InputThrows, InputCheck, InputIgnores, InputReceives, InputTimeout, InputKills, Labels, Goto, Throw
  <2>2. CASE ~Input
    <3>1. UNCHANGED pc["input"]
      BY <1>0, <2>2, MainFrame, ProcessingFrame, StateFrame, OutputFrame, InterventionFrame, MailFrame DEF Next, Environment, Arrive
    <3> QED BY <1>2, <3>1, StaysStopped
  <2> QED BY <2>1, <2>2
<1>6. /\ KillIsLast(inputQ')
      /\ Killing' => pc'["input"] = "done" /\ inputQ' = <<>>
      /\ pc'["input"] = "done" /\ ~Killing' => KILL \in ToSet(inputQ')
  <2>1. CASE MainStart \/ InputReceives
    <3>1. inputQ' = Append(inputQ, accepted + 1) /\ inputQ \in Seq(Nat) /\ KILL \notin ToSet(inputQ) /\ ~Killing
      BY <1>0, <1>2, <1>3, <1>4, <2>1, Numbers DEF MainStart, InputReceives
    <3>2. KillIsLast(inputQ') /\ ~Killing' /\ pc'["input"] # "done"
      BY <1>0, <1>4, <2>1, <3>1, LastPushed DEF Killing
    <3> QED BY <3>2
  <2>2. CASE InputKills
    <3>1. inputQ' = Append(inputQ, KILL) /\ KILL \notin ToSet(inputQ) /\ ~Killing /\ KILL \in EventIds \cup {KILL}
      BY <1>2, <1>3, <1>4, <2>2 DEF InputKills
    <3>2. KillIsLast(inputQ') /\ ToSet(inputQ') = ToSet(inputQ) \cup {KILL}
      BY <1>0, <3>1, LastPushed, Pushing
    <3>3. ~Killing' /\ pc'["input"] = "done"
      BY <1>4, <2>2, <3>1 DEF Killing
    <3> QED BY <3>2, <3>3
  <2>3. CASE ProcTakes
    <3>1. inputQ # <<>> /\ inputQ' = Tail(inputQ) /\ ~Killing
      BY <1>2, <2>3 DEF ProcTakes
    <3>2. KillIsLast(inputQ') /\ (Head(inputQ) = KILL => inputQ' = <<>>) /\ ToSet(inputQ) = {Head(inputQ)} \cup ToSet(inputQ')
      BY <1>0, <1>2, <3>1, LastPopped, Popping
    <3>3. Killing' <=> Head(inputQ) = KILL
      BY <1>4, <2>3 DEF Killing
    <3>4. UNCHANGED pc["input"]
      BY <1>4, <2>3
    <3> QED BY <1>2, <1>3, <3>1, <3>2, <3>3, <3>4
  <2>4. CASE ~(MainStart \/ InputReceives \/ InputKills \/ ProcTakes)
    BY <1>2, <1>4, <2>4
  <2> QED BY <2>1, <2>2, <2>3, <2>4
<1>7. /\ KillIsLast(intervQ')
      /\ pc'["intervention"] = "done" => pc'["processing"] = "done" /\ intervQ' = <<>>
  <2>1. CASE ProcMatches \/ ProcKillsIntervention
    <3>1. PICK e \in EventIds \cup {KILL} : intervQ' = Append(intervQ, e) \/ UNCHANGED intervQ
      BY <1>0, <2>1 DEF ProcMatches, ProcKillsIntervention
    <3>2. pc["processing"] # "done" /\ KILL \notin ToSet(intervQ) /\ UNCHANGED pc["intervention"]
      BY <1>0, <1>3, <2>1, ProcessingFrame DEF ProcMatches, ProcKillsIntervention, Processing
    <3> QED BY <1>0, <1>2, <3>1, <3>2, LastPushed
  <2>2. CASE IntervTakes
    <3>1. intervQ # <<>> /\ intervQ' = Tail(intervQ) /\ (pc'["intervention"] = "done" => Head(intervQ) = KILL) /\ UNCHANGED pc["processing"]
      BY <1>0, <2>2 DEF IntervTakes, Labels, Goto
    <3>2. KillIsLast(intervQ') /\ (Head(intervQ) = KILL => intervQ' = <<>> /\ KILL \in ToSet(intervQ))
      BY <1>0, <1>2, <3>1, LastPopped, Popping
    <3> QED BY <1>3, <3>1, <3>2
  <2>3. CASE ~(ProcMatches \/ ProcKillsIntervention \/ IntervTakes)
    <3>1. UNCHANGED intervQ
      BY <2>3, QueueSteps
    <3>2. pc'["intervention"] = "done" => pc["intervention"] = "done"
      <4>1. CASE Intervention
        <5>1. ~IntervThrows
          BY DEF IntervThrows, Throw
        <5> QED BY <1>0, <2>3, <4>1, <5>1 DEF Intervention, IntervInit, Labels, Goto
      <4>2. CASE ~Intervention
        BY <1>0, <4>2, MainFrame, InputFrame, ProcessingFrame, StateFrame, OutputFrame, MailFrame DEF Next, Environment, Arrive
      <4> QED BY <4>1, <4>2
    <3>3. pc["processing"] = "done" => pc'["processing"] = "done"
      <4>1. CASE Processing
        BY <1>0, <4>1 DEF Processing, ProcTakes, ProcKillsOutput, ProcKillsIntervention, ProcIgnores, ProcMatches, ProcAlerts, ProcThrows
      <4>2. CASE ~Processing
        BY <1>0, <4>2, MainFrame, InputFrame, StateFrame, OutputFrame, InterventionFrame, MailFrame DEF Next, Environment, Arrive
      <4> QED BY <4>1, <4>2
    <3> QED BY <1>2, <3>1, <3>2, <3>3
  <2> QED BY <2>1, <2>2, <2>3
<1> QED BY <1>5, <1>6, <1>7

\* A thread that has ended takes no further step.
LEMMA JoinKept ==
  ASSUME IInv, [Next]_vars
  PROVE  JoinInv'
<1>0. TypeOK /\ pc \in Labels /\ JoinInv
  BY DEF IInv, TypeOK
<1>1. pc["input"] = "done" => pc'["input"] = "done"
  <2>1. CASE Input
    BY <1>0, <2>1 DEF Input, InputInit, InputThrows, InputCheck, InputIgnores, InputReceives, InputTimeout, InputKills
  <2> QED BY <1>0, <2>1, MainFrame, ProcessingFrame, StateFrame, OutputFrame, InterventionFrame, MailFrame DEF Next, Environment, Arrive
<1>2. pc["processing"] = "done" => pc'["processing"] = "done"
  <2>1. CASE Processing
    BY <1>0, <2>1 DEF Processing, ProcTakes, ProcKillsOutput, ProcKillsIntervention, ProcIgnores, ProcMatches, ProcAlerts, ProcThrows
  <2> QED BY <1>0, <2>1, MainFrame, InputFrame, StateFrame, OutputFrame, InterventionFrame, MailFrame DEF Next, Environment, Arrive
<1>3. pc["output"] = "done" => pc'["output"] = "done"
  <2>1. CASE Output
    BY <1>0, <2>1 DEF Output, OutputTakes, OutputWrites
  <2> QED BY <1>0, <2>1, MainFrame, InputFrame, ProcessingFrame, StateFrame, InterventionFrame, MailFrame DEF Next, Environment, Arrive
<1>4. pc["intervention"] = "done" => pc'["intervention"] = "done"
  <2>1. CASE Intervention
    BY <1>0, <2>1 DEF Intervention, IntervInit, IntervThrows, IntervTakes
  <2> QED BY <1>0, <2>1, MainFrame, InputFrame, ProcessingFrame, StateFrame, OutputFrame, MailFrame DEF Next, Environment, Arrive
<1>5. pc'["main"] = "exited" => pc["main"] = "exited" \/ \A t \in Joined : pc[t] = "done"
  <2>1. CASE Main \/ MainSignal
    BY <1>0, <2>1 DEF Main, MainStart, MainPolls, MainStops, MainExits, MainSignal, Labels, Goto, Threads, Joined
  <2> QED BY <1>0, <2>1, InputFrame, ProcessingFrame, StateFrame, OutputFrame, InterventionFrame, MailFrame DEF Next, Environment, Arrive
<1> QED BY <1>0, <1>1, <1>2, <1>3, <1>4, <1>5 DEF JoinInv, Joined

-----------------------------------------------------------------------------
(* The theorems *)

LEMMA InitInv == ASSUME Init PROVE IInv
<1>1. TypeOK
  <2>1. pc \in Labels
    BY DEF Init, Labels
  <2>2. <<>> \in Seq(Datagrams) /\ Len(<<>>) = 0 /\ <<>> \in Seq(EventIds \cup {KILL}) /\ <<>> \in Seq(AlertIds \cup {KILL}) /\ <<>> \in Seq(AlertIds)
    OBVIOUS
  <2>3. /\ inbox \in Seq(Datagrams) /\ Len(inbox) <= MaxInbox
        /\ inputQ \in Seq(EventIds \cup {KILL}) /\ intervQ \in Seq(EventIds \cup {KILL}) /\ outputQ \in Seq(AlertIds \cup {KILL})
        /\ mailQ \in Seq(AlertIds) /\ localMail \in Seq(AlertIds) /\ alerted \in Seq(AlertIds) /\ written \in Seq(AlertIds)
    BY <2>2, MaxInboxAssumption DEF Init
  <2>4. arrived \in 0..MaxEvents /\ accepted \in 0..MaxEvents + 1
    BY MaxEventsAssumption DEF Init
  <2> QED BY <2>1, <2>3, <2>4 DEF Init, TypeOK
<1>2. ArrivalsInv
  <2>1. [i \in DOMAIN inbox |-> 0] \in [DOMAIN inbox -> Nat] /\ Numbering([i \in DOMAIN inbox |-> 0])
    BY DEF Init, Numbering
  <2>2. accepted <= Newest
    BY DEF Init, Newest
  <2> QED BY <2>1, <2>2 DEF ArrivalsInv
<1>3. EventsInv
  BY DEF Init, EventsInv, EventsAscend, Precede, None
<1>4. AlertsInv
  <2>1. Handed \o outputQ = alerted /\ outputQ \in Seq(AlertIds)
    BY <1>1, Hands, Sequences, Joining DEF Init, TypeOK
  <2> QED BY <2>1 DEF Init, AlertsInv
<1>5. StopInv
  BY DEF Init, StopInv, ToSet
<1>6. DrainInv
  BY DEF Init, DrainInv, KillIsLast, Killing
<1>7. JoinInv
  BY DEF Init, JoinInv
<1> QED BY <1>1, <1>2, <1>3, <1>4, <1>5, <1>6, <1>7 DEF IInv

LEMMA Inductive == ASSUME IInv, [Next]_vars PROVE IInv'
<1>1. TypeOK /\ (pc["processing"] = "alert" => inProc # None) /\ (pc["output"] = "write" => inOut # None)
  BY DEF IInv, EventsInv, AlertsInv
<1>2. TypeOK'
  BY <1>1, AcceptedBounded, Typing
<1> QED BY <1>2, ArrivalsKept, EventsKept, AlertsKept, StopKept, DrainKept, JoinKept DEF IInv

LEMMA Invariance == Spec => []IInv
BY InitInv, Inductive, PTL DEF Spec

\* What is left of outputQ without its !KILL message.
LEMMA WithoutKill ==
  ASSUME NEW a \in Seq(AlertIds), NEW b \in Seq(UnlessIds)
  PROVE  NoKill((a \o <<KILL>>) \o b) = a \o b
<1> DEFINE q == (a \o <<KILL>>) \o b
           k == CHOOSE i \in DOMAIN q : q[i] = KILL
<1>0. a \in Seq(Items) /\ b \in Seq(Items) /\ <<KILL>> \in Seq(Items) /\ Len(<<KILL>>) = 1 /\ <<KILL>>[1] = KILL
  BY Sequences
<1>1. /\ a \o <<KILL>> \in Seq(Items) /\ Len(a \o <<KILL>>) = Len(a) + 1 /\ Len(a) \in Nat /\ Len(b) \in Nat
      /\ \A i \in 1..Len(a) : (a \o <<KILL>>)[i] = a[i]
      /\ (a \o <<KILL>>)[Len(a) + 1] = KILL
  <2>1. /\ a \o <<KILL>> \in Seq(Items) /\ Len(a \o <<KILL>>) = Len(a) + 1 /\ Len(a) \in Nat /\ Len(b) \in Nat
        /\ \A i \in 1..Len(a) + 1 : (a \o <<KILL>>)[i] = IF i <= Len(a) THEN a[i] ELSE <<KILL>>[i - Len(a)]
    BY <1>0, ConcatProperties
  <2> QED BY <1>0, <2>1
<1>2. /\ q \in Seq(Items) /\ Len(q) = Len(a) + 1 + Len(b) /\ DOMAIN q = 1..Len(a) + 1 + Len(b)
      /\ \A i \in 1..Len(a) : q[i] = a[i]
      /\ q[Len(a) + 1] = KILL
      /\ \A i \in 1..Len(b) : q[Len(a) + 1 + i] = b[i]
  <2>1. /\ q \in Seq(Items) /\ Len(q) = Len(a) + 1 + Len(b)
        /\ \A i \in 1..Len(a) + 1 + Len(b) : q[i] = IF i <= Len(a) + 1 THEN (a \o <<KILL>>)[i] ELSE b[i - (Len(a) + 1)]
    BY <1>0, <1>1, ConcatProperties
  <2> QED BY <1>1, <2>1
<1> HIDE DEF q
<1>3. k = Len(a) + 1 /\ KILL \in ToSet(q)
  <2>1. \A i \in 1..Len(a) : a[i] # KILL
    BY Numbers
  <2>2. \A i \in 1..Len(b) : b[i] # KILL
    BY Numbers
  <2>3. ASSUME NEW i \in DOMAIN q, q[i] = KILL PROVE i = Len(a) + 1
    <3>0. i \in 1..Len(a) + 1 + Len(b) /\ Len(a) \in Nat /\ Len(b) \in Nat
      BY <1>1, <1>2
    <3>1. CASE i <= Len(a)
      BY <1>1, <1>2, <2>1, <2>3, <3>1
    <3>2. CASE i > Len(a) + 1
      <4>1. i - (Len(a) + 1) \in 1..Len(b) /\ Len(a) + 1 + (i - (Len(a) + 1)) = i
        BY <3>0, <3>2
      <4>2. q[i] = b[i - (Len(a) + 1)]
        BY <1>2, <4>1
      <4> QED BY <2>2, <2>3, <4>1, <4>2
    <3> QED BY <1>1, <1>2, <3>1, <3>2
  <2>4. Len(a) + 1 \in DOMAIN q
    BY <1>1, <1>2
  <2> QED BY <1>2, <2>3, <2>4 DEF ToSet
<1> HIDE DEF k
<1>4. SubSeq(q, 1, k - 1) = a
  <2>1. k - 1 \in Int /\ 1 \in Int /\ \A i \in 1..k - 1 : q[i] \in Items
    BY <1>1, <1>2, <1>3
  <2>2. /\ SubSeq(q, 1, k - 1) \in Seq(Items) /\ Len(SubSeq(q, 1, k - 1)) = (IF 1 <= k - 1 THEN k - 1 - 1 + 1 ELSE 0)
        /\ \A i \in 1..k - 1 - 1 + 1 : SubSeq(q, 1, k - 1)[i] = q[1 + i - 1]
    BY <2>1, SubSeqProperties
  <2>3. Len(SubSeq(q, 1, k - 1)) = Len(a) /\ \A i \in 1..Len(a) : SubSeq(q, 1, k - 1)[i] = a[i]
    BY <1>1, <1>2, <1>3, <2>2
  <2> QED BY <1>0, <2>2, <2>3, SeqEqual
<1>5. SubSeq(q, k + 1, Len(q)) = b
  <2>1. k + 1 \in Int /\ Len(q) \in Int /\ \A i \in k + 1..Len(q) : q[i] \in Items
    BY <1>1, <1>2, <1>3
  <2>2. /\ SubSeq(q, k + 1, Len(q)) \in Seq(Items)
        /\ Len(SubSeq(q, k + 1, Len(q))) = (IF k + 1 <= Len(q) THEN Len(q) - (k + 1) + 1 ELSE 0)
        /\ \A i \in 1..Len(q) - (k + 1) + 1 : SubSeq(q, k + 1, Len(q))[i] = q[(k + 1) + i - 1]
    BY <2>1, SubSeqProperties
  <2>3. /\ Len(SubSeq(q, k + 1, Len(q))) = Len(b)
        /\ \A i \in 1..Len(b) : (k + 1) + i - 1 = Len(a) + 1 + i
        /\ Len(q) - (k + 1) + 1 = Len(b)
    BY <1>1, <1>2, <1>3, <2>2
  <2>4. \A i \in 1..Len(b) : SubSeq(q, k + 1, Len(q))[i] = b[i]
    BY <1>2, <2>2, <2>3
  <2> QED BY <1>0, <2>2, <2>3, <2>4, SeqEqual
<1>6. NoKill(q) = a \o b
  BY <1>3, <1>4, <1>5 DEF NoKill, RemoveAt, k
<1> QED BY <1>6 DEF q

\* Each alert is written to the alert file exactly once or still on its way, in the
\* order in which it was raised, and no event overtakes another one: AlertsInOrder
\* (input_task, processing_task, state_task and output_task with their queues).
THEOREM AlertsKeepOrder == Spec => []AlertsInOrder
<1>1. ASSUME IInv PROVE AlertsInOrder
  <2>0. TypeOK /\ AlertsInv /\ EventsInv /\ outputQ \in Seq(Items) /\ Handed \in Seq(AlertIds)
    BY <1>1, Hands DEF IInv, TypeOK, Items
  <2>1. alerted = written \o Hand(inOut) \o NoKill(outputQ)
    <3>1. CASE outputQ \in Seq(AlertIds) /\ alerted = Handed \o outputQ
      <4>1. KILL \notin ToSet(outputQ)
        BY <3>1, Numbers DEF ToSet
      <4> QED BY <3>1, <4>1 DEF NoKill, Handed
    <3>2. CASE BehindKill
      BY <3>2, WithoutKill DEF BehindKill, Handed
    <3> QED BY <2>0, <3>1, <3>2 DEF AlertsInv
  <2>2. EventsAscend(alerted \o Hand(inProc) \o inputQ)
    <3> DEFINE h == Hand(inProc)
               line == (alerted \o h) \o inputQ
    <3>0. /\ inProc \in EventIds \cup {None} /\ alerted \in Seq(Items) /\ inputQ \in Seq(Items)
          /\ alerted \in Seq(AlertIds) /\ inputQ \in Seq(EventIds \cup {KILL})
      <4>1. \A s \in Seq(EventIds \cup {KILL}) : s \in Seq(Items)
        <5>1. EventIds \cup {KILL} \subseteq Items
          BY Numbers
        <5> QED BY <5>1
      <4> QED BY <2>0, <4>1, Sequences DEF TypeOK
    <3>1. /\ h \in Seq(Items) /\ Len(h) = (IF inProc = None THEN 0 ELSE 1)
          /\ inProc # None => h[1] = inProc
      BY <3>0, Numbers DEF Hand
    <3> HIDE DEF h
    <3>2. /\ alerted \o h \in Seq(Items) /\ Len(alerted \o h) = Len(alerted) + Len(h)
          /\ \A i \in 1..Len(alerted) + Len(h) : (alerted \o h)[i] = IF i <= Len(alerted) THEN alerted[i] ELSE h[i - Len(alerted)]
      BY <3>0, <3>1, ConcatProperties
    <3>3. /\ line \in Seq(Items) /\ Len(line) = Len(alerted) + Len(h) + Len(inputQ)
          /\ \A i \in 1..Len(alerted) + Len(h) + Len(inputQ) :
               line[i] = IF i <= Len(alerted) + Len(h) THEN (alerted \o h)[i] ELSE inputQ[i - (Len(alerted) + Len(h))]
      BY <3>0, <3>2, ConcatProperties
    <3> HIDE DEF line
    <3>4. Len(alerted) \in Nat /\ Len(inputQ) \in Nat /\ DOMAIN alerted = 1..Len(alerted) /\ DOMAIN inputQ = 1..Len(inputQ) /\ DOMAIN line = 1..Len(line)
      BY <3>0, <3>3
    <3> DEFINE InAlerted(i) == i \in DOMAIN alerted /\ line[i] = alerted[i]
               InHand(i) == i = Len(alerted) + 1 /\ inProc # None /\ line[i] = inProc
               InQueue(i) == \E j \in DOMAIN inputQ : j = i - (Len(alerted) + Len(h)) /\ line[i] = inputQ[j]
    <3>5. \A i \in DOMAIN line : InAlerted(i) \/ InHand(i) \/ InQueue(i)
      <4> SUFFICES ASSUME NEW i \in DOMAIN line PROVE InAlerted(i) \/ InHand(i) \/ InQueue(i)
        OBVIOUS
      <4>1. CASE i <= Len(alerted)
        BY <3>1, <3>2, <3>3, <3>4, <4>1
      <4>2. CASE i > Len(alerted) /\ i <= Len(alerted) + Len(h)
        BY <3>1, <3>2, <3>3, <3>4, <4>2
      <4>3. CASE i > Len(alerted) + Len(h)
        <5>1. i - (Len(alerted) + Len(h)) \in DOMAIN inputQ
          BY <3>1, <3>3, <3>4, <4>3
        <5> QED BY <3>1, <3>3, <3>4, <4>3, <5>1
      <4> QED BY <3>1, <3>3, <3>4, <4>1, <4>2, <4>3
    <3>6. ASSUME NEW i \in DOMAIN line, NEW j \in DOMAIN line, i < j, {line[i], line[j]} \subseteq EventIds
          PROVE  line[i] < line[j]
      <4>0. i \in Nat /\ j \in Nat /\ Len(h) \in 0..1 /\ (inProc # None => Len(h) = 1)
        BY <3>1, <3>3, <3>4
      <4>1. CASE InAlerted(i) /\ InAlerted(j)
        BY <2>0, <3>6, <4>1 DEF EventsInv, EventsAscend
      <4>2. CASE InAlerted(i) /\ InHand(j)
        BY <2>0, <3>6, <4>2 DEF EventsInv
      <4>3. CASE InAlerted(i) /\ InQueue(j)
        BY <2>0, <3>6, <4>3 DEF EventsInv, Precede
      <4>4. CASE InHand(i) /\ InQueue(j)
        BY <2>0, <3>6, <4>4, Numbers DEF EventsInv
      <4>5. CASE InQueue(i) /\ InQueue(j)
        <5>1. PICK m \in DOMAIN inputQ : m = i - (Len(alerted) + Len(h)) /\ line[i] = inputQ[m]
          BY <4>5
        <5>2. PICK n \in DOMAIN inputQ : n = j - (Len(alerted) + Len(h)) /\ line[j] = inputQ[n]
          BY <4>5
        <5>3. m < n
          BY <3>4, <3>6, <4>0, <5>1, <5>2
        <5> QED BY <2>0, <3>6, <5>1, <5>2, <5>3 DEF EventsInv, EventsAscend
      <4>6. ~(InHand(i) /\ InAlerted(j)) /\ ~(InQueue(i) /\ InAlerted(j)) /\ ~(InQueue(i) /\ InHand(j)) /\ ~(InHand(i) /\ InHand(j))
        BY <3>4, <3>6, <4>0
      <4> QED BY <3>5, <4>1, <4>2, <4>3, <4>4, <4>5, <4>6
    <3> QED BY <3>6 DEF EventsAscend, line, h
  <2> QED BY <2>1, <2>2 DEF AlertsInOrder
<1> QED BY <1>1, Invariance, PTL

\* No datagram from the outside stops the daemon or a thread of it: !KILL is under
\* way only when main has cleared RUNNING or a thread has failed: StopsOnlyAtShutdown
\* (input_task queues only what is no control message).
THEOREM NothingOutsideStopsIt == Spec => []StopsOnlyAtShutdown
<1>1. ASSUME IInv PROVE StopsOnlyAtShutdown
  <2>1. StopInv /\ AlertsInv /\ AlertIds \cap {KILL} = {}
    BY <1>1, Numbers DEF IInv
  <2>2. KILL \in ToSet(outputQ) => pc["processing"] \in {"killIntervention", "done"}
    <3>1. outputQ \in Seq(AlertIds) => KILL \notin ToSet(outputQ)
      BY <2>1 DEF ToSet
    <3> QED BY <2>1, <3>1 DEF AlertsInv
  <2> QED BY <2>1, <2>2 DEF StopsOnlyAtShutdown, StopInv, AlertsInv, Stopped
<1> QED BY <1>1, Invariance, PTL

\* A shutdown without failing threads loses nothing of an event: it has been
\* processed, its command handed over and its alert written: ShutdownIsComplete
\* (the order in which !KILL goes down the queues).
THEOREM ShutdownLosesNothing == Spec => []ShutdownIsComplete
<1>1. ASSUME IInv PROVE ShutdownIsComplete
  <2> SUFFICES ASSUME pc["main"] = "exited", faulted = {}
               PROVE  inputQ = <<>> /\ intervQ = <<>> /\ ToSet(alerted) \cap EventIds \subseteq ToSet(written)
    BY DEF ShutdownIsComplete
  <2>0. /\ TypeOK /\ AlertsInv /\ DrainInv /\ alerted \in Seq(AlertIds) /\ written \in Seq(AlertIds)
        /\ pc["processing"] = "done" /\ pc["output"] = "done" /\ pc["intervention"] = "done"
    BY <1>1 DEF IInv, TypeOK, JoinInv, Joined
  <2>1. inputQ = <<>> /\ intervQ = <<>>
    BY <2>0 DEF DrainInv, Killing
  <2>2. outputQ \in Seq(UnlessIds) /\ outputQ \in Seq(AlertIds) /\ alerted = written \o outputQ
    <3>1. inOut = None /\ outputQ \in Seq(UnlessIds)
      BY <2>0 DEF AlertsInv
    <3>2. Handed = written
      BY <2>0, <3>1, Hands
    <3> QED BY <2>0, <3>1, <3>2, Sequences DEF AlertsInv
  <2>3. /\ Len(alerted) = Len(written) + Len(outputQ) /\ Len(written) \in Nat /\ Len(outputQ) \in Nat
        /\ \A i \in 1..Len(written) + Len(outputQ) : alerted[i] = IF i <= Len(written) THEN written[i] ELSE outputQ[i - Len(written)]
    BY <2>0, <2>2, ConcatProperties
  <2>4. ASSUME NEW i \in DOMAIN alerted, alerted[i] \in EventIds PROVE alerted[i] \in ToSet(written)
    <3>0. i \in 1..Len(written) + Len(outputQ)
      BY <2>0, <2>3, <2>4
    <3>1. CASE i <= Len(written)
      BY <2>0, <2>3, <3>0, <3>1 DEF ToSet
    <3>2. CASE i > Len(written)
      <4>1. i - Len(written) \in DOMAIN outputQ /\ alerted[i] = outputQ[i - Len(written)]
        BY <2>2, <2>3, <3>0, <3>2
      <4>2. outputQ[i - Len(written)] \in UnlessIds
        BY <2>2, <4>1
      <4> QED BY <2>4, <4>1, <4>2, Numbers
    <3> QED BY <2>3, <3>0, <3>1, <3>2
  <2> QED BY <2>1, <2>4 DEF ToSet
<1> QED BY <1>1, Invariance, PTL
================================================================================
