------------------------- MODULE LogScanDaemon_proofs --------------------------
(***************************************************************************)
(* For any number of lines, datagrams and runs, and whatever threads fail: *)
(* the lines of the logfile are delivered in their order and never twice,  *)
(* also across restarts, and a shutdown delivers what it has found queued. *)
(***************************************************************************)
EXTENDS LogScanDaemon, TLAPS

-----------------------------------------------------------------------------
(* The parts of the invariant *)

Lines == 1..MaxLines
Events == Stopping..Message

Ascend(q) == \A i, j \in DOMAIN q : i < j /\ {q[i], q[j]} \subseteq Lines => q[i] < q[j]
UpTo(q, n) == \A i \in DOMAIN q : q[i] \in Lines => q[i] <= n

\* A line that is still queued comes behind those that were delivered, and before
\* those that have not been read.
OrderInv ==
  /\ Ascend(delivered) /\ Ascend(queue)
  /\ UpTo(delivered, pos) /\ UpTo(queue, pos)
  /\ \A i \in DOMAIN delivered, j \in DOMAIN queue :
       {delivered[i], queue[j]} \subseteq Lines => delivered[i] < queue[j]

\* The thread has nothing to save before it reads and when it has ended.
SavedInv ==
  /\ pc["logfile"] \in {"init", "done"} => saved = pos
  /\ pc["main"] = "exited" => pc["logfile"] = "done" /\ pc["output"] = "done"

\* A line read is delivered, queued or was left in the queue by an earlier run.
ReadInv == \A n \in 1..pos : n \in ToSet(delivered) \cup discarded \cup ToSet(queue)

\* The lines read before !KILL was pushed are in front of it.
Over(n) == n \in ToSet(delivered) \cup discarded
InFront(k, n) == \E i \in DOMAIN queue : i < k /\ queue[i] = n
KillAt(k) ==
  /\ queue[k] = KILL
  /\ \A i \in DOMAIN queue : i < k => queue[i] # KILL
  /\ \A n \in 1..killPos : Over(n) \/ InFront(k, n)

KillInv ==
  /\ pc["main"] \notin {"join", "exited"} => KILL \notin ToSet(queue) /\ pc["output"] = "take"
  /\ pc["main"] \in {"join", "exited"} =>
       \/ pc["output"] = "done" /\ \A n \in 1..killPos : Over(n)
       \/ pc["output"] = "take" /\ \E k \in DOMAIN queue : KillAt(k)

IInv == TypeOK /\ OrderInv /\ SavedInv /\ ReadInv /\ KillInv

-----------------------------------------------------------------------------
(* Sequences *)

\* emplace pushes to the end.
LEMMA Pushing ==
  ASSUME NEW s \in Seq(Events), NEW e \in Events
  PROVE  /\ Append(s, e) \in Seq(Events) /\ DOMAIN s = 1..Len(s) /\ Len(s) \in Nat
         /\ DOMAIN Append(s, e) = 1..Len(s) + 1
         /\ \A i \in 1..Len(s) : Append(s, e)[i] = s[i]
         /\ Append(s, e)[Len(s) + 1] = e
         /\ ToSet(Append(s, e)) = ToSet(s) \cup {e}
<1>1. /\ Append(s, e) \in Seq(Events) /\ DOMAIN s = 1..Len(s) /\ Len(s) \in Nat
      /\ DOMAIN Append(s, e) = 1..Len(s) + 1
      /\ \A i \in 1..Len(s) : Append(s, e)[i] = s[i]
      /\ Append(s, e)[Len(s) + 1] = e
  OBVIOUS
<1>2. ToSet(Append(s, e)) = ToSet(s) \cup {e}
  BY <1>1 DEF ToSet
<1> QED BY <1>1, <1>2

\* take pops the front element.
LEMMA Popping ==
  ASSUME NEW s \in Seq(Events), s # <<>>
  PROVE  /\ Tail(s) \in Seq(Events) /\ Head(s) \in Events /\ Head(s) = s[1] /\ 1 \in DOMAIN s
         /\ DOMAIN s = 1..Len(s) /\ Len(s) \in Nat \ {0}
         /\ DOMAIN Tail(s) = 1..Len(s) - 1
         /\ \A i \in 1..Len(s) - 1 : Tail(s)[i] = s[i + 1]
         /\ ToSet(s) = {Head(s)} \cup ToSet(Tail(s))
<1>1. /\ Tail(s) \in Seq(Events) /\ Head(s) \in Events /\ Head(s) = s[1] /\ 1 \in DOMAIN s
      /\ DOMAIN s = 1..Len(s) /\ Len(s) \in Nat \ {0}
      /\ DOMAIN Tail(s) = 1..Len(s) - 1
      /\ \A i \in 1..Len(s) - 1 : Tail(s)[i] = s[i + 1]
  OBVIOUS
<1>2. ASSUME NEW i \in DOMAIN s, i # 1 PROVE s[i] \in ToSet(Tail(s))
  <2>1. i - 1 \in 1..Len(s) - 1 /\ (i - 1) + 1 = i
    BY <1>1, <1>2
  <2>2. Tail(s)[i - 1] = s[i]
    BY <1>1, <2>1
  <2> QED BY <1>1, <2>1, <2>2 DEF ToSet
<1>3. ToSet(Tail(s)) \subseteq ToSet(s)
  BY <1>1 DEF ToSet
<1>4. ToSet(s) = {Head(s)} \cup ToSet(Tail(s))
  BY <1>1, <1>2, <1>3 DEF ToSet
<1> QED BY <1>1, <1>4

\* What is pushed behind all lines of a queue, or is no line, keeps their order.
LEMMA AscendPushed ==
  ASSUME NEW s \in Seq(Events), NEW e \in Events, Ascend(s), NEW n, UpTo(s, n),
         e \in Lines => \A i \in DOMAIN s : s[i] \in Lines => s[i] < e
  PROVE  Ascend(Append(s, e)) /\ (e \notin Lines => UpTo(Append(s, e), n))
<1>1. /\ DOMAIN s = 1..Len(s) /\ Len(s) \in Nat /\ DOMAIN Append(s, e) = 1..Len(s) + 1
      /\ \A i \in 1..Len(s) : Append(s, e)[i] = s[i]
      /\ Append(s, e)[Len(s) + 1] = e
  BY Pushing
<1>2. ASSUME NEW i \in DOMAIN Append(s, e), NEW j \in DOMAIN Append(s, e), i < j,
             {Append(s, e)[i], Append(s, e)[j]} \subseteq Lines
      PROVE  Append(s, e)[i] < Append(s, e)[j]
  <2>1. i \in 1..Len(s) /\ Append(s, e)[i] = s[i]
    BY <1>1, <1>2
  <2>2. CASE j = Len(s) + 1
    BY <1>1, <1>2, <2>1, <2>2
  <2>3. CASE j # Len(s) + 1
    <3>1. j \in 1..Len(s) /\ Append(s, e)[j] = s[j]
      BY <1>1, <1>2, <2>3
    <3> QED BY <1>1, <1>2, <2>1, <3>1 DEF Ascend
  <2> QED BY <2>2, <2>3
<1>3. ASSUME e \notin Lines PROVE UpTo(Append(s, e), n)
  <2>1. \A i \in DOMAIN Append(s, e) : i \in DOMAIN s \/ i = Len(s) + 1
    BY <1>1
  <2> QED BY <1>1, <1>3, <2>1 DEF UpTo
<1> QED BY <1>2, <1>3 DEF Ascend

-----------------------------------------------------------------------------
(* A step of each kind *)

\* What is pushed that is no line: the messages of main, !KILL, and datagrams.
LEMMA PushesNoLine ==
  ASSUME IInv, NEW e \in {Started, Stopping, KILL, Message}, queue' = Append(queue, e), UNCHANGED <<delivered, pos, discarded>>
  PROVE  /\ queue' \in Seq(Events)
         /\ OrderInv' /\ ReadInv'
<1>0. /\ queue \in Seq(Events) /\ e \in Events /\ e \notin Lines /\ OrderInv /\ ReadInv
  BY BoundsAssumption DEF IInv, TypeOK, Started, Stopping, KILL, Message, Lines, Events
<1>1. /\ queue' \in Seq(Events) /\ DOMAIN queue = 1..Len(queue) /\ Len(queue) \in Nat
      /\ DOMAIN queue' = 1..Len(queue) + 1
      /\ \A i \in 1..Len(queue) : queue'[i] = queue[i]
      /\ queue'[Len(queue) + 1] = e
      /\ ToSet(queue') = ToSet(queue) \cup {e}
  BY <1>0, Pushing
<1>2. Ascend(queue') /\ UpTo(queue', pos)
  BY <1>0, AscendPushed DEF OrderInv
<1>3. ASSUME NEW i \in DOMAIN delivered, NEW j \in DOMAIN queue', {delivered[i], queue'[j]} \subseteq Lines
      PROVE  delivered[i] < queue'[j]
  <2>1. j \in DOMAIN queue /\ queue'[j] = queue[j]
    BY <1>0, <1>1, <1>3
  <2> QED BY <1>0, <1>3, <2>1 DEF OrderInv
<1>4. OrderInv'
  BY <1>0, <1>2, <1>3 DEF OrderInv
<1>5. ReadInv'
  BY <1>0, <1>1 DEF ReadInv
<1> QED BY <1>1, <1>4, <1>5

\* A push behind !KILL changes nothing for the lines in front of it.
LEMMA PushesBehindKill ==
  ASSUME IInv, NEW e \in Events, e # KILL, queue' = Append(queue, e),
         UNCHANGED <<delivered, discarded, killPos, pc["output"]>>,
         (pc'["main"] \in {"join", "exited"}) <=> (pc["main"] \in {"join", "exited"})
  PROVE  KillInv'
<1>0. queue \in Seq(Events) /\ KillInv
  BY DEF IInv, TypeOK, Events
<1>1. /\ DOMAIN queue = 1..Len(queue) /\ Len(queue) \in Nat
      /\ DOMAIN queue' = 1..Len(queue) + 1
      /\ \A i \in 1..Len(queue) : queue'[i] = queue[i]
      /\ ToSet(queue') = ToSet(queue) \cup {e}
  BY <1>0, Pushing
<1>2. ASSUME NEW k \in DOMAIN queue, KillAt(k) PROVE k \in DOMAIN queue' /\ KillAt(k)'
  <2>1. \A i \in DOMAIN queue' : i < k => i \in DOMAIN queue /\ queue'[i] = queue[i]
    BY <1>1
  <2>2. k \in DOMAIN queue' /\ queue'[k] = KILL
    BY <1>1, <1>2 DEF KillAt
  <2>3. \A i \in DOMAIN queue : i < k => i \in DOMAIN queue' /\ queue'[i] = queue[i]
    BY <1>1
  <2>4. ASSUME NEW n \in 1..killPos PROVE Over(n)' \/ InFront(k, n)'
    BY <1>2, <2>3 DEF KillAt, Over, InFront
  <2> QED BY <1>2, <2>1, <2>2, <2>4 DEF KillAt
<1>3. (\A n \in 1..killPos : Over(n)) => (\A n \in 1..killPos' : Over(n)')
  BY DEF Over
<1> QED BY <1>0, <1>1, <1>2, <1>3 DEF KillInv

\* A step that pushes and takes nothing.
LEMMA QueueUntouched ==
  ASSUME IInv, UNCHANGED <<queue, delivered, discarded, pos, killPos, pc["output"]>>,
         (pc'["main"] \in {"join", "exited"}) <=> (pc["main"] \in {"join", "exited"})
  PROVE  OrderInv' /\ ReadInv' /\ KillInv'
<1>1. OrderInv' /\ ReadInv'
  BY DEF IInv, OrderInv, ReadInv
<1>2. KillInv'
  BY DEF IInv, KillInv, KillAt, Over, InFront
<1> QED BY <1>1, <1>2

\* main announces, stops and pushes !KILL; it is over when the others are.
LEMMA MainKeeps ==
  ASSUME IInv, Main \/ MainSignal
  PROVE  IInv'
<1>0. /\ TypeOK /\ queue \in Seq(Events) /\ SavedInv /\ KillInv /\ ReadInv
      /\ pc \in [main    : {"start", "wait", "announce", "clear", "kill", "join", "exited"},
                 logfile : {"init", "check", "scan", "save", "done"},
                 systemd : {"init", "check", "recv", "done"},
                 output  : {"take", "done"}]
  BY DEF IInv, TypeOK, Events
<1>1. /\ UNCHANGED <<delivered, discarded, pos, saved, lines, inbox, messages, runs, pc["output"], pc["logfile"]>>
      /\ pc' \in [main    : {"start", "wait", "announce", "clear", "kill", "join", "exited"},
                  logfile : {"init", "check", "scan", "save", "done"},
                  systemd : {"init", "check", "recv", "done"},
                  output  : {"take", "done"}]
  BY <1>0 DEF Main, MainStart, MainPolls, MainAnnounces, MainClears, MainKills, MainExits, MainSignal, Goto, mainUnchanged
<1>2. running' \in BOOLEAN /\ errors' \in BOOLEAN /\ killPos' \in NoKill..MaxLines
  <2>1. pos \in NoKill..MaxLines
    BY <1>0, BoundsAssumption DEF TypeOK, NoKill
  <2> QED BY <1>0, <2>1 DEF TypeOK, Main, MainStart, MainPolls, MainAnnounces, MainClears, MainKills, MainExits, MainSignal
<1>3. SavedInv'
  <2>1. pc'["main"] = "exited" => pc["logfile"] = "done" /\ pc["output"] = "done"
    BY <1>0 DEF SavedInv, Main, MainStart, MainPolls, MainAnnounces, MainClears, MainKills, MainExits, MainSignal, Goto, Threads
  <2> QED BY <1>0, <1>1, <2>1 DEF SavedInv
<1>4. ASSUME queue' \in Seq(Events) PROVE TypeOK'
  BY <1>0, <1>1, <1>2, <1>4 DEF TypeOK, Events
<1>5. CASE MainStart \/ MainAnnounces
  <2>1. /\ queue' = Append(queue, Started) \/ queue' = Append(queue, Stopping)
        /\ UNCHANGED killPos /\ pc["main"] \notin {"join", "exited"} /\ pc'["main"] \notin {"join", "exited"}
    BY <1>0, <1>5 DEF MainStart, MainAnnounces, Push, Goto
  <2>2. PICK e \in {Started, Stopping} : queue' = Append(queue, e)
    BY <2>1
  <2>3. e \in Events /\ e # KILL
    BY BoundsAssumption DEF Started, Stopping, KILL, Message, Events
  <2>4. queue' \in Seq(Events) /\ OrderInv' /\ ReadInv'
    BY <1>1, <2>2, PushesNoLine
  <2>5. KillInv'
    BY <1>1, <2>1, <2>2, <2>3, PushesBehindKill
  <2> QED BY <1>3, <1>4, <2>4, <2>5 DEF IInv
<1>6. CASE MainKills
  <2>1. queue' = Append(queue, KILL) /\ pc["main"] = "kill" /\ pc'["main"] = "join" /\ killPos' = pos
    BY <1>0, <1>6 DEF MainKills, Push, Goto
  <2>2. queue' \in Seq(Events) /\ OrderInv' /\ ReadInv'
    BY <1>1, <2>1, PushesNoLine
  <2>3. /\ DOMAIN queue = 1..Len(queue) /\ Len(queue) \in Nat /\ DOMAIN queue' = 1..Len(queue) + 1
        /\ \A i \in 1..Len(queue) : queue'[i] = queue[i]
        /\ queue'[Len(queue) + 1] = KILL
    <3>1. KILL \in Events
      BY BoundsAssumption DEF Stopping, KILL, Message, Events
    <3> QED BY <1>0, <2>1, <3>1, Pushing
  <2> PICK k \in DOMAIN queue' : k = Len(queue) + 1
    BY <2>3
  <2>4. pc["output"] = "take" /\ \A i \in DOMAIN queue : queue[i] # KILL
    BY <1>0, <2>1 DEF KillInv, ToSet
  <2>5. \A i \in DOMAIN queue' : i < k => i \in DOMAIN queue /\ queue'[i] = queue[i]
    BY <2>3
  <2>6. ASSUME NEW n \in 1..pos PROVE Over(n)' \/ InFront(k, n)'
    <3>1. Over(n) \/ \E i \in DOMAIN queue : queue[i] = n
      BY <1>0 DEF ReadInv, Over, ToSet
    <3>2. \A i \in DOMAIN queue : i \in DOMAIN queue' /\ i < k /\ queue'[i] = queue[i]
      BY <2>3
    <3>3. Over(n) => Over(n)'
      BY <1>1 DEF Over
    <3> QED BY <3>1, <3>2, <3>3 DEF InFront
  <2>7. KillAt(k)'
    BY <2>1, <2>3, <2>4, <2>5, <2>6 DEF KillAt
  <2>8. KillInv'
    BY <1>1, <2>1, <2>4, <2>7 DEF KillInv
  <2> QED BY <1>3, <1>4, <2>2, <2>8 DEF IInv
<1>7. CASE MainPolls \/ MainClears \/ MainExits \/ MainSignal
  <2>1. UNCHANGED <<queue, killPos>> /\ (pc'["main"] \in {"join", "exited"} <=> pc["main"] \in {"join", "exited"})
    BY <1>0, <1>7 DEF MainPolls, MainClears, MainExits, MainSignal, Goto
  <2>2. OrderInv' /\ ReadInv' /\ KillInv'
    BY <1>1, <2>1, QueueUntouched
  <2> QED BY <1>0, <1>3, <1>4, <2>1, <2>2 DEF IInv
<1> QED BY <1>5, <1>6, <1>7 DEF Main

\* A run ends with everything read saved, and what it left queued is written down.
LEMMA RestartKeeps ==
  ASSUME IInv, Restart
  PROVE  IInv'
<1>0. /\ TypeOK /\ queue \in Seq(Events) /\ OrderInv /\ SavedInv /\ ReadInv
  BY DEF IInv, TypeOK, Events
<1>1. /\ saved = pos /\ pos' = pos /\ saved' = pos
      /\ queue' = <<>> /\ DOMAIN queue' = {} /\ ToSet(queue') = {}
      /\ UNCHANGED <<lines, messages, delivered>>
      /\ discarded' = discarded \cup ToSet(queue)
  BY <1>0 DEF SavedInv, Restart, ToSet
<1>2. pc' = InitialPC /\ pc'["main"] = "start" /\ pc'["output"] = "take" /\ pc'["logfile"] = "init"
  BY DEF Restart, InitialPC
<1>3. TypeOK'
  <2>1. ToSet(queue) \subseteq Events
    BY <1>0 DEF ToSet
  <2>2. pc' \in [main    : {"start", "wait", "announce", "clear", "kill", "join", "exited"},
                 logfile : {"init", "check", "scan", "save", "done"},
                 systemd : {"init", "check", "recv", "done"},
                 output  : {"take", "done"}]
    BY <1>2 DEF InitialPC
  <2>3. running' \in BOOLEAN /\ errors' \in BOOLEAN
    BY DEF Restart
  <2>7. runs' \in 1..MaxRuns
    BY <1>0, BoundsAssumption DEF Restart, TypeOK
  <2>8. inbox' \in 0..messages
    BY <1>0, BoundsAssumption DEF Restart, TypeOK
  <2>5. killPos' \in NoKill..MaxLines
    BY BoundsAssumption DEF Restart, NoKill
  <2>6. queue' \in Seq(Stopping..Message)
    BY <1>1
  <2>4. discarded' \subseteq Stopping..Message
    BY <1>0, <1>1, <2>1 DEF TypeOK, Events
  <2> QED BY <1>0, <1>1, <2>2, <2>3, <2>4, <2>5, <2>6, <2>7, <2>8 DEF TypeOK
<1>4. OrderInv'
  BY <1>0, <1>1 DEF OrderInv, Ascend, UpTo
<1>5. SavedInv' /\ ReadInv' /\ KillInv'
  BY <1>0, <1>1, <1>2 DEF SavedInv, ReadInv, KillInv
<1> QED BY <1>3, <1>4, <1>5 DEF IInv

\* The logfile thread pushes the line behind those it has pushed, and saves its
\* position before it ends.
LEMMA LogfileKeeps ==
  ASSUME IInv, Logfile
  PROVE  IInv'
<1>0. /\ TypeOK /\ queue \in Seq(Events) /\ OrderInv /\ SavedInv /\ ReadInv
      /\ pc \in [main    : {"start", "wait", "announce", "clear", "kill", "join", "exited"},
                 logfile : {"init", "check", "scan", "save", "done"},
                 systemd : {"init", "check", "recv", "done"},
                 output  : {"take", "done"}]
  BY DEF IInv, TypeOK, Events
<1>1. /\ UNCHANGED <<running, lines, inbox, messages, delivered, discarded, killPos, runs, pc["main"], pc["output"]>>
      /\ pc' \in [main    : {"start", "wait", "announce", "clear", "kill", "join", "exited"},
                  logfile : {"init", "check", "scan", "save", "done"},
                  systemd : {"init", "check", "recv", "done"},
                  output  : {"take", "done"}]
  BY <1>0 DEF Logfile, LogInit, LogThrows, LogCheck, LogReads, LogSleeps, LogSaves, Goto, logUnchanged
<1>2. pos' \in 0..lines /\ saved' \in 0..lines /\ errors' \in BOOLEAN
  <2>1. lines \in Nat /\ pos \in 0..lines /\ saved \in 0..lines
    BY <1>0, BoundsAssumption DEF TypeOK
  <2>2. UNCHANGED pos \/ (pos < lines /\ pos' = pos + 1)
    BY DEF Logfile, LogInit, LogThrows, LogCheck, LogReads, LogSleeps, LogSaves
  <2>3. saved' = saved \/ saved' = pos
    BY DEF Logfile, LogInit, LogThrows, LogCheck, LogReads, LogSleeps, LogSaves
  <2>4. errors' \in BOOLEAN
    <3>1. UNCHANGED errors \/ errors' = TRUE
      BY DEF Logfile, LogInit, LogThrows, LogCheck, LogReads, LogSleeps, LogSaves
    <3>2. errors \in BOOLEAN
      BY <1>0 DEF TypeOK
    <3> QED BY <3>1, <3>2
  <2> QED BY <2>1, <2>2, <2>3, <2>4
<1>3. SavedInv'
  <2>1. pc["logfile"] # "done"
    BY <1>0 DEF Logfile, LogInit, LogThrows, LogCheck, LogReads, LogSleeps, LogSaves
  <2>2. pc'["logfile"] \in {"init", "done"} => saved' = pos'
    BY <1>0 DEF SavedInv, Logfile, LogInit, LogThrows, LogCheck, LogReads, LogSleeps, LogSaves, Goto
  <2> QED BY <1>0, <1>1, <2>1, <2>2 DEF SavedInv
<1>4. ASSUME queue' \in Seq(Events) PROVE TypeOK'
  BY <1>0, <1>1, <1>2, <1>4 DEF TypeOK, Events
<1>5. CASE LogReads
  <2> PICK e \in Lines : e = pos + 1
    BY <1>0, <1>5, BoundsAssumption DEF LogReads, TypeOK, Lines
  <2>1. queue' = Append(queue, e) /\ pos' = e /\ pos \in Nat /\ e \in Events /\ e # KILL
    BY <1>0, <1>5, BoundsAssumption DEF LogReads, Push, Line, TypeOK, Lines, Events, KILL, Stopping, Message
  <2>2. /\ queue' \in Seq(Events) /\ DOMAIN queue = 1..Len(queue) /\ Len(queue) \in Nat
        /\ DOMAIN queue' = 1..Len(queue) + 1
        /\ \A i \in 1..Len(queue) : queue'[i] = queue[i]
        /\ queue'[Len(queue) + 1] = e
        /\ ToSet(queue') = ToSet(queue) \cup {e}
    BY <1>0, <2>1, Pushing
  <2>3. \A i \in DOMAIN queue' : (i \in DOMAIN queue /\ queue'[i] = queue[i]) \/ queue'[i] = e
    BY <2>2
  <2>4. \A n \in Lines : n <= pos => n < e /\ n <= e
    BY <2>1 DEF Lines
  <2>5. UpTo(queue, pos) /\ UpTo(delivered, pos) /\ Ascend(queue) /\ Ascend(delivered)
    BY <1>0 DEF OrderInv
  <2>6. Ascend(queue')
    <3>1. \A i \in DOMAIN queue : queue[i] \in Lines => queue[i] < e
      BY <2>4, <2>5 DEF UpTo
    <3> QED BY <1>0, <2>1, <2>5, <3>1, AscendPushed
  <2>7. UpTo(queue', e)
    <3>1. e <= e
      BY <2>1
    <3> QED BY <2>3, <2>4, <2>5, <3>1 DEF UpTo
  <2>8. UpTo(delivered, e) /\ \A i \in DOMAIN delivered : delivered[i] \in Lines => delivered[i] < e
    BY <2>4, <2>5 DEF UpTo
  <2>9. OrderInv'
    <3>1. ASSUME NEW i \in DOMAIN delivered, NEW j \in DOMAIN queue', {delivered[i], queue'[j]} \subseteq Lines
          PROVE  delivered[i] < queue'[j]
      BY <1>0, <2>3, <2>8, <3>1 DEF OrderInv
    <3> QED BY <1>1, <2>1, <2>5, <2>6, <2>7, <2>8, <3>1 DEF OrderInv
  <2>10. ReadInv'
    <3>1. \A n \in 1..pos' : n \in 1..pos \/ n = e
      BY <2>1
    <3> QED BY <1>0, <1>1, <2>2, <3>1 DEF ReadInv
  <2>11. KillInv'
    BY <1>1, <2>1, PushesBehindKill
  <2> QED BY <1>3, <1>4, <2>2, <2>9, <2>10, <2>11 DEF IInv
<1>6. CASE LogInit \/ LogThrows \/ LogCheck \/ LogSleeps \/ LogSaves
  <2>1. UNCHANGED <<queue, pos>>
    BY <1>6 DEF LogInit, LogThrows, LogCheck, LogSleeps, LogSaves
  <2>2. OrderInv' /\ ReadInv' /\ KillInv'
    BY <1>1, <2>1, QueueUntouched
  <2> QED BY <1>0, <1>3, <1>4, <2>1, <2>2 DEF IInv
<1> QED BY <1>5, <1>6 DEF Logfile

\* The systemd thread pushes what is no line of the logfile.
LEMMA SystemdKeeps ==
  ASSUME IInv, Systemd
  PROVE  IInv'
<1>0. /\ TypeOK /\ queue \in Seq(Events) /\ SavedInv
      /\ pc \in [main    : {"start", "wait", "announce", "clear", "kill", "join", "exited"},
                 logfile : {"init", "check", "scan", "save", "done"},
                 systemd : {"init", "check", "recv", "done"},
                 output  : {"take", "done"}]
  BY DEF IInv, TypeOK, Events
<1>1. /\ UNCHANGED <<running, lines, pos, saved, messages, delivered, discarded, killPos, runs>>
      /\ UNCHANGED <<pc["main"], pc["output"], pc["logfile"]>>
      /\ pc' \in [main    : {"start", "wait", "announce", "clear", "kill", "join", "exited"},
                  logfile : {"init", "check", "scan", "save", "done"},
                  systemd : {"init", "check", "recv", "done"},
                  output  : {"take", "done"}]
  BY <1>0 DEF Systemd, SysInit, SysDisabled, SysThrows, SysCheck, SysReceives, SysTimeout, Goto, sysUnchanged
<1>2. errors' \in BOOLEAN /\ inbox' \in 0..messages
  <2>1. messages \in Nat /\ inbox \in 0..messages
    BY <1>0, BoundsAssumption DEF TypeOK
  <2>2. UNCHANGED inbox \/ (inbox > 0 /\ inbox' = inbox - 1)
    BY DEF Systemd, SysInit, SysDisabled, SysThrows, SysCheck, SysReceives, SysTimeout
  <2>3. errors' \in BOOLEAN
    <3>1. UNCHANGED errors \/ errors' = TRUE
      BY DEF Systemd, SysInit, SysDisabled, SysThrows, SysCheck, SysReceives, SysTimeout
    <3>2. errors \in BOOLEAN
      BY <1>0 DEF TypeOK
    <3> QED BY <3>1, <3>2
  <2> QED BY <2>1, <2>2, <2>3
<1>3. SavedInv'
  BY <1>0, <1>1 DEF SavedInv
<1>4. ASSUME queue' \in Seq(Events) PROVE TypeOK'
  BY <1>0, <1>1, <1>2, <1>4 DEF TypeOK, Events
<1>5. CASE SysReceives
  <2>1. queue' = Append(queue, Message) /\ Message \in Events /\ Message # KILL
    BY <1>5, BoundsAssumption DEF SysReceives, Push, Events, Stopping, KILL, Message
  <2>2. queue' \in Seq(Events) /\ OrderInv' /\ ReadInv'
    BY <1>1, <2>1, PushesNoLine
  <2>3. KillInv'
    BY <1>1, <2>1, PushesBehindKill
  <2> QED BY <1>3, <1>4, <2>2, <2>3 DEF IInv
<1>6. CASE SysInit \/ SysDisabled \/ SysThrows \/ SysCheck \/ SysTimeout
  <2>1. UNCHANGED queue
    BY <1>6 DEF SysInit, SysDisabled, SysThrows, SysCheck, SysTimeout
  <2>2. OrderInv' /\ ReadInv' /\ KillInv'
    BY <1>1, <2>1, QueueUntouched
  <2> QED BY <1>0, <1>3, <1>4, <2>1, <2>2 DEF IInv
<1> QED BY <1>5, <1>6 DEF Systemd

\* What is taken was in front of everything queued; !KILL is taken when the lines
\* read before it have been.
LEMMA OutputKeeps ==
  ASSUME IInv, OutputTakes
  PROVE  IInv'
<1>0. /\ TypeOK /\ queue \in Seq(Events) /\ queue # <<>> /\ OrderInv /\ SavedInv /\ ReadInv /\ KillInv
      /\ pc["output"] = "take"
      /\ pc \in [main    : {"start", "wait", "announce", "clear", "kill", "join", "exited"},
                 logfile : {"init", "check", "scan", "save", "done"},
                 systemd : {"init", "check", "recv", "done"},
                 output  : {"take", "done"}]
  BY DEF IInv, TypeOK, Events, OutputTakes
<1> PICK h \in Events : h = Head(queue) /\ queue' = Tail(queue)
  BY <1>0, Popping DEF OutputTakes
<1>1. /\ DOMAIN queue = 1..Len(queue) /\ Len(queue) \in Nat \ {0} /\ h = queue[1]
      /\ queue' \in Seq(Events) /\ DOMAIN queue' = 1..Len(queue) - 1
      /\ \A i \in 1..Len(queue) - 1 : queue'[i] = queue[i + 1]
      /\ ToSet(queue) = {h} \cup ToSet(queue')
  BY <1>0, Popping
<1>2. /\ UNCHANGED <<running, errors, lines, pos, saved, inbox, messages, discarded, killPos, runs>>
      /\ UNCHANGED <<pc["main"], pc["logfile"]>>
      /\ h = KILL => pc'["output"] = "done"
      /\ h # KILL => pc'["output"] = "take"
      /\ pc' \in [main    : {"start", "wait", "announce", "clear", "kill", "join", "exited"},
                  logfile : {"init", "check", "scan", "save", "done"},
                  systemd : {"init", "check", "recv", "done"},
                  output  : {"take", "done"}]
  BY <1>0 DEF OutputTakes, Goto, outUnchanged
<1>3. IF h > 0 THEN delivered' = Append(delivered, h) ELSE UNCHANGED delivered
  BY DEF OutputTakes
<1>4. delivered \in Seq(Events) /\ delivered' \in Seq(1..Message)
  <2> DEFINE Takeable == 1..Message
  <2>1. delivered \in Seq(Takeable)
    BY <1>0 DEF TypeOK
  <2>2. Takeable \subseteq Events /\ (h > 0 => h \in Takeable)
    BY BoundsAssumption DEF Events, Stopping, Message
  <2> HIDE DEF Takeable
  <2>3. delivered \in Seq(Events)
    BY <2>1, <2>2
  <2>4. delivered' \in Seq(Takeable)
    <3>1. CASE h > 0
      BY <1>3, <2>1, <2>2, <3>1
    <3>2. CASE ~(h > 0)
      BY <1>3, <2>1, <3>2
    <3> QED BY <3>1, <3>2
  <2> QED BY <2>3, <2>4 DEF Takeable
<1>5. TypeOK'
  BY <1>0, <1>1, <1>2, <1>4 DEF TypeOK, Events
<1>6. \A j \in DOMAIN queue' : j + 1 \in DOMAIN queue /\ 1 < j + 1 /\ queue'[j] = queue[j + 1]
  BY <1>1
<1>7. 1 \in DOMAIN queue
  BY <1>1
<1>8. Ascend(queue') /\ UpTo(queue', pos)
  <2>1. \A i, j \in DOMAIN queue' : i < j => i + 1 < j + 1
    BY <1>1
  <2> QED BY <1>0, <1>6, <2>1 DEF OrderInv, Ascend, UpTo
<1>9. h \in Lines => \A i \in DOMAIN delivered : delivered[i] \in Lines => delivered[i] < h
  BY <1>0, <1>1, <1>7 DEF OrderInv
<1>10. /\ \A i \in DOMAIN delivered' : (i \in DOMAIN delivered /\ delivered'[i] = delivered[i]) \/ delivered'[i] = h
       /\ \A n : Over(n) => Over(n)'
       /\ h > 0 => Over(h)'
  <2>1. CASE h > 0
    <3>0. delivered' = Append(delivered, h)
      BY <1>3, <2>1
    <3>1. /\ DOMAIN delivered = 1..Len(delivered) /\ Len(delivered) \in Nat
          /\ DOMAIN delivered' = 1..Len(delivered) + 1
          /\ \A i \in 1..Len(delivered) : delivered'[i] = delivered[i]
          /\ delivered'[Len(delivered) + 1] = h
          /\ ToSet(delivered') = ToSet(delivered) \cup {h}
      BY <1>4, <3>0, Pushing
    <3>2. \A i \in DOMAIN delivered' : (i \in DOMAIN delivered /\ delivered'[i] = delivered[i]) \/ delivered'[i] = h
      BY <3>1
    <3> QED BY <1>2, <3>1, <3>2 DEF Over
  <2>2. CASE ~(h > 0)
    BY <1>2, <1>3, <2>2 DEF Over
  <2> QED BY <2>1, <2>2
<1>11. OrderInv'
  <2>1. Ascend(delivered')
    BY <1>0, <1>3, <1>4, <1>9, AscendPushed DEF OrderInv
  <2>2. UpTo(delivered', pos)
    BY <1>0, <1>1, <1>7, <1>10 DEF OrderInv, UpTo
  <2>3. ASSUME NEW i \in DOMAIN delivered', NEW j \in DOMAIN queue', {delivered'[i], queue'[j]} \subseteq Lines
        PROVE  delivered'[i] < queue'[j]
    <3>1. j + 1 \in DOMAIN queue /\ 1 < j + 1 /\ queue'[j] = queue[j + 1]
      BY <1>6
    <3>2. CASE i \in DOMAIN delivered /\ delivered'[i] = delivered[i]
      BY <1>0, <2>3, <3>1, <3>2 DEF OrderInv
    <3>3. CASE delivered'[i] = h
      BY <1>0, <1>1, <1>7, <2>3, <3>1, <3>3 DEF OrderInv, Ascend
    <3> QED BY <1>10, <3>2, <3>3
  <2> QED BY <1>2, <1>8, <2>1, <2>2, <2>3 DEF OrderInv
<1>12. ReadInv'
  <2>1. pos \in Nat /\ \A n \in 1..pos : n > 0
    BY <1>0, BoundsAssumption DEF TypeOK
  <2>2. ASSUME NEW n \in 1..pos PROVE Over(n)' \/ n \in ToSet(queue')
    BY <1>0, <1>1, <1>10, <2>1 DEF ReadInv, Over
  <2> QED BY <1>2, <2>2 DEF ReadInv, Over
<1>13. SavedInv'
  BY <1>0, <1>2 DEF SavedInv
<1>14. ASSUME NEW k \in DOMAIN queue, KillAt(k) PROVE KillInv'
  <2>0. pc["main"] \in {"join", "exited"}
    BY <1>0, <1>14 DEF KillAt, KillInv, ToSet
  <2>1. CASE k = 1
    <3>1. h = KILL
      BY <1>1, <1>14, <2>1 DEF KillAt
    <3>2. \A i \in DOMAIN queue : ~(i < k)
      BY <1>1, <2>1
    <3>3. \A n \in 1..killPos : Over(n)'
      BY <1>10, <1>14, <3>2 DEF KillAt, InFront
    <3> QED BY <1>2, <2>0, <3>1, <3>3 DEF KillInv
  <2>2. CASE k # 1
    <3> PICK l \in DOMAIN queue' : l + 1 = k
      <4>1. k - 1 \in DOMAIN queue' /\ (k - 1) + 1 = k
        BY <1>1, <2>2
      <4> QED BY <4>1
    <3>1. h # KILL
      BY <1>1, <1>7, <1>14, <2>2 DEF KillAt
    <3>2. queue'[l] = KILL
      BY <1>6, <1>14 DEF KillAt
    <3>3. \A i \in DOMAIN queue' : i < l => i + 1 < k /\ i + 1 \in DOMAIN queue /\ queue'[i] = queue[i + 1]
      BY <1>1
    <3>4. \A i \in DOMAIN queue : i < k => i = 1 \/ \E m \in DOMAIN queue' : m < l /\ queue'[m] = queue[i]
      <4>1. ASSUME NEW i \in DOMAIN queue, i < k, i # 1 PROVE i - 1 \in DOMAIN queue' /\ i - 1 < l /\ queue'[i - 1] = queue[i]
        BY <1>1, <4>1
      <4> QED BY <4>1
    <3>5. ASSUME NEW n \in 1..killPos PROVE Over(n)' \/ InFront(l, n)'
      <4>1. n > 0
        BY <1>0, BoundsAssumption DEF TypeOK, NoKill
      <4>2. CASE Over(n)
        BY <1>10, <4>2
      <4>3. CASE InFront(k, n)
        <5>1. PICK i \in DOMAIN queue : i < k /\ queue[i] = n
          BY <4>3 DEF InFront
        <5>2. CASE i = 1
          BY <1>1, <1>10, <4>1, <5>1, <5>2
        <5>3. CASE \E m \in DOMAIN queue' : m < l /\ queue'[m] = queue[i]
          BY <5>1, <5>3 DEF InFront
        <5> QED BY <3>4, <5>1, <5>2, <5>3
      <4> QED BY <1>14, <4>2, <4>3 DEF KillAt
    <3>6. KillAt(l)'
      BY <1>2, <1>14, <3>2, <3>3, <3>5 DEF KillAt
    <3> QED BY <1>2, <2>0, <3>1, <3>6 DEF KillInv
  <2> QED BY <2>1, <2>2
<1>15. KillInv'
  <2>1. CASE pc["main"] \in {"join", "exited"}
    BY <1>0, <1>14, <2>1 DEF KillInv
  <2>2. CASE pc["main"] \notin {"join", "exited"}
    BY <1>0, <1>1, <1>2, <2>2 DEF KillInv
  <2> QED BY <2>1, <2>2
<1> QED BY <1>5, <1>11, <1>12, <1>13, <1>15 DEF IInv

\* The writer of the file and the senders of datagrams.
LEMMA OthersKeep ==
  ASSUME IInv, WriteLine \/ SendMessage \/ UNCHANGED vars
  PROVE  IInv'
<1>0. TypeOK /\ SavedInv
  BY DEF IInv
<1>1. UNCHANGED <<running, errors, pc, pos, saved, queue, delivered, discarded, killPos, runs>>
  BY DEF WriteLine, SendMessage, vars
<1>2. lines' \in 0..MaxLines /\ pos \in 0..lines' /\ saved \in 0..lines'
  <2>1. /\ lines \in 0..MaxLines /\ pos \in 0..lines /\ saved \in 0..lines
    BY <1>0 DEF TypeOK
  <2>2. UNCHANGED lines \/ (lines < MaxLines /\ lines' = lines + 1)
    BY DEF WriteLine, SendMessage, vars
  <2> QED BY <2>1, <2>2, BoundsAssumption
<1>3. messages' \in 0..MaxMessages /\ inbox' \in 0..messages'
  <2>1. messages \in 0..MaxMessages /\ inbox \in 0..messages
    BY <1>0 DEF TypeOK
  <2>2. UNCHANGED <<messages, inbox>> \/ (messages < MaxMessages /\ messages' = messages + 1 /\ inbox' = inbox + 1)
    BY DEF WriteLine, SendMessage, vars
  <2> QED BY <2>1, <2>2, BoundsAssumption
<1>4. TypeOK'
  BY <1>0, <1>1, <1>2, <1>3 DEF TypeOK
<1>5. SavedInv'
  BY <1>0, <1>1 DEF SavedInv
<1>6. OrderInv' /\ ReadInv' /\ KillInv'
  BY <1>1, QueueUntouched
<1> QED BY <1>4, <1>5, <1>6 DEF IInv

-----------------------------------------------------------------------------
(* The invariant *)

LEMMA InitInv == Init => IInv
<1> SUFFICES ASSUME Init PROVE IInv
  OBVIOUS
<1>1. /\ queue = <<>> /\ delivered = <<>> /\ DOMAIN queue = {} /\ DOMAIN delivered = {} /\ ToSet(queue) = {}
      /\ pos = 0 /\ saved = 0 /\ lines = 0
      /\ pc["main"] = "start" /\ pc["output"] = "take" /\ pc["logfile"] = "init"
  BY DEF Init, InitialPC, ToSet
<1>2. TypeOK
  <2>1. /\ lines \in 0..MaxLines /\ pos \in 0..lines /\ saved \in 0..lines
        /\ messages \in 0..MaxMessages /\ inbox \in 0..messages
        /\ killPos \in NoKill..MaxLines /\ runs \in 1..MaxRuns
    BY BoundsAssumption DEF Init, NoKill
  <2>2. /\ queue \in Seq(Stopping..Message) /\ delivered \in Seq(1..Message) /\ discarded \subseteq Stopping..Message
    BY DEF Init
  <2>3. /\ running \in BOOLEAN /\ errors \in BOOLEAN
        /\ pc \in [main    : {"start", "wait", "announce", "clear", "kill", "join", "exited"},
                   logfile : {"init", "check", "scan", "save", "done"},
                   systemd : {"init", "check", "recv", "done"},
                   output  : {"take", "done"}]
    BY DEF Init, InitialPC
  <2> QED BY <2>1, <2>2, <2>3 DEF TypeOK
<1>3. OrderInv /\ ReadInv
  BY <1>1 DEF OrderInv, Ascend, UpTo, ReadInv
<1>4. SavedInv /\ KillInv
  BY <1>1 DEF SavedInv, KillInv
<1> QED BY <1>2, <1>3, <1>4 DEF IInv

LEMMA Inductive == IInv /\ [Next]_vars => IInv'
BY MainKeeps, RestartKeeps, LogfileKeeps, SystemdKeeps, OutputKeeps, OthersKeep DEF Next

LEMMA Invariance == Spec => []IInv
<1> QED BY InitInv, Inductive, PTL DEF Spec

\* Type correctness.
THEOREM TypeCorrect == Spec => []TypeOK
<1>1. IInv => TypeOK
  BY DEF IInv
<1> QED BY <1>1, Invariance, PTL

\* The lines of the logfile leave the queue in the order of the file and none
\* leaves it twice, whatever shutdowns and restarts come between them: the state
\* saved at the end of a run is exactly what was pushed.
THEOREM LinesKeepOrder == Spec => []DeliveredInOrder
<1>1. IInv => DeliveredInOrder
  BY DEF IInv, OrderInv, Ascend, Lines, DeliveredInOrder
<1> QED BY <1>1, Invariance, PTL

\* Whatever was read before main pushed !KILL is taken by output_task before it
\* ends, though the logfile thread may go on to push behind it.
THEOREM ShutdownDrainsTheQueue == Spec => []ShutdownDelivers
<1>1. IInv => ShutdownDelivers
  <2> SUFFICES ASSUME IInv, pc["main"] = "exited" PROVE \A n \in 1..killPos : Over(n)
    BY DEF ShutdownDelivers, Over
  <2>1. pc["output"] = "done" /\ KillInv
    BY DEF IInv, SavedInv
  <2> QED BY <2>1 DEF KillInv
<1> QED BY <1>1, Invariance, PTL
================================================================================
