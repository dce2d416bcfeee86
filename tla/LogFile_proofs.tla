---------------------------- MODULE LogFile_proofs -----------------------------
(***************************************************************************)
(* For any number of lines, changes, stops and crashes, and whatever       *)
(* happens to the file: no line in front of the position, the one in       *)
(* memory or the saved one, was skipped, and the reports about the file    *)
(* agree with what the daemon believes.  A file that is only appended to   *)
(* is forwarded line by line, each line once and in its order.             *)
(***************************************************************************)
EXTENDS LogFile, FiniteSetTheorems, TLAPS

-----------------------------------------------------------------------------
(* Sequences *)

Units == 0..MaxLines
Events == 1..MaxLines \cup Controls

\* What is appended stands behind what was there.
LEMMA UnitsConcat ==
  ASSUME NEW s \in Seq(Units), NEW q \in Seq(Units)
  PROVE  /\ s \o q \in Seq(Units) /\ Len(s \o q) = Len(s) + Len(q)
         /\ Len(s) \in Nat /\ Len(q) \in Nat /\ DOMAIN s = 1..Len(s)
         /\ \A i \in 1..Len(s) : (s \o q)[i] = s[i]
         /\ \A i \in 1..Len(q) : (s \o q)[Len(s) + i] = q[i]
OBVIOUS

LEMMA EventsConcat ==
  ASSUME NEW s \in Seq(Events), NEW q \in Seq(Events)
  PROVE  /\ s \o q \in Seq(Events)
         /\ DOMAIN s = 1..Len(s) /\ DOMAIN q = 1..Len(q) /\ DOMAIN (s \o q) = 1..Len(s) + Len(q)
         /\ Len(s) \in Nat /\ Len(q) \in Nat
         /\ \A i \in 1..Len(s) : (s \o q)[i] = s[i]
         /\ \A i \in 1..Len(q) : (s \o q)[Len(s) + i] = q[i]
         /\ \A i \in DOMAIN (s \o q) : i \in DOMAIN s \/ (i - Len(s) \in DOMAIN q /\ Len(s) + (i - Len(s)) = i)
         /\ ToSet(s \o q) = ToSet(s) \cup ToSet(q)
<1>1. /\ s \o q \in Seq(Events)
      /\ DOMAIN s = 1..Len(s) /\ DOMAIN q = 1..Len(q) /\ DOMAIN (s \o q) = 1..Len(s) + Len(q)
      /\ Len(s) \in Nat /\ Len(q) \in Nat
      /\ \A i \in 1..Len(s) : (s \o q)[i] = s[i]
      /\ \A i \in 1..Len(q) : (s \o q)[Len(s) + i] = q[i]
  OBVIOUS
<1>2. \A i \in DOMAIN (s \o q) : i \in DOMAIN s \/ (i - Len(s) \in DOMAIN q /\ Len(s) + (i - Len(s)) = i)
  BY <1>1
<1>3. \A i \in DOMAIN q : Len(s) + i \in DOMAIN (s \o q)
  BY <1>1
<1>4. \A i \in DOMAIN s : i \in DOMAIN (s \o q)
  BY <1>1
<1>5. ToSet(s \o q) = ToSet(s) \cup ToSet(q)
  BY <1>1, <1>2, <1>3, <1>4 DEF ToSet
<1> QED BY <1>1, <1>2, <1>5

\* emplace pushes to the end.
LEMMA Pushing ==
  ASSUME NEW s \in Seq(Events), NEW e \in Events
  PROVE  /\ Append(s, e) \in Seq(Events)
         /\ DOMAIN s = 1..Len(s) /\ DOMAIN Append(s, e) = 1..Len(s) + 1 /\ Len(s) \in Nat
         /\ \A i \in 1..Len(s) : Append(s, e)[i] = s[i]
         /\ Append(s, e)[Len(s) + 1] = e
         /\ ToSet(Append(s, e)) = ToSet(s) \cup {e}
<1>1. /\ Append(s, e) \in Seq(Events)
      /\ DOMAIN s = 1..Len(s) /\ DOMAIN Append(s, e) = 1..Len(s) + 1 /\ Len(s) \in Nat
      /\ \A i \in 1..Len(s) : Append(s, e)[i] = s[i]
      /\ Append(s, e)[Len(s) + 1] = e
  OBVIOUS
<1>2. ToSet(Append(s, e)) = ToSet(s) \cup {e}
  BY <1>1 DEF ToSet
<1> QED BY <1>1, <1>2

LEMMA EventTypes ==
  /\ Controls \subseteq Events /\ 1..MaxLines \subseteq Events
  /\ {Started, Replaced, Truncated, WentDown, ComingAlive, Timeout} \subseteq Controls
  /\ \A e \in Controls : e < 0
BY DEF Events, Controls, Started, Replaced, Truncated, WentDown, ComingAlive, Timeout

\* The texts behind a position, one after the other.
LEMMA TextsInOrder ==
  ASSUME content \in Seq(Units), NEW S, S \subseteq 1..Len(content), NEW at \in InFileOrder(S)
  PROVE  /\ Len(at) \in Nat /\ DOMAIN at = 1..Len(at)
         /\ \A i \in DOMAIN at : at[i] \in S
         /\ \A x \in S : \E i \in DOMAIN at : at[i] = x
         /\ \A i, j \in DOMAIN at : i < j => at[i] < at[j]
         /\ at = <<>> <=> S = {}
         /\ at # <<>> => Last(at) \in S /\ \A x \in S : x <= Last(at)
<1> DEFINE n == Cardinality(S)
<1>1. IsFiniteSet(S)
  <2>1. IsFiniteSet(1..Len(content))
    BY FS_Interval
  <2> QED BY <2>1, FS_Subset
<1>2. n \in Nat /\ IsFiniteSet(1..n) /\ Cardinality(1..n) = n
  <2>1. n \in Nat
    BY <1>1, FS_CardinalityType
  <2> QED BY <2>1, FS_Interval
<1>3. /\ at \in [1..n -> S] /\ \A i, j \in 1..n : i # j => at[i] # at[j]
      /\ \A i, j \in DOMAIN at : i < j => at[i] < at[j]
  BY DEF InFileOrder, SetToSeqs
<1> HIDE DEF n
<1>4. Len(at) = n /\ DOMAIN at = 1..n
  BY <1>2, <1>3
<1>5. \A x \in S : \E i \in 1..n : at[i] = x
  <2>1. at \in Injection(1..n, S)
    BY <1>3 DEF Injection, IsInjective
  <2>2. at \in Surjection(1..n, S)
    BY <1>1, <1>2, <2>1, FS_Injection DEF n
  <2> QED BY <2>2 DEF Surjection
<1>6. at = <<>> <=> n = 0
  BY <1>2, <1>3, <1>4
<1>7. at = <<>> <=> S = {}
  <2>1. S = {} => n = 0
    BY FS_EmptySet DEF n
  <2> QED BY <1>2, <1>4, <1>5, <1>6, <2>1
<1>9. at # <<>> => Last(at) \in S /\ \A x \in S : x <= Last(at)
  <2> SUFFICES ASSUME at # <<>> PROVE Last(at) \in S /\ \A x \in S : x <= Last(at)
    OBVIOUS
  <2>1. n \in 1..n
    BY <1>2, <1>6
  <2>2. Last(at) = at[n] /\ at[n] \in S
    BY <1>3, <1>4, <2>1 DEF Last
  <2>3. ASSUME NEW x \in S PROVE x <= at[n]
    <3> PICK i \in 1..n : at[i] = x
      BY <1>5
    <3>1. x \in Int /\ at[n] \in Int
      <4>1. S \subseteq Int
        OBVIOUS
      <4> QED BY <2>2, <4>1
    <3>2. i < n => x < at[n]
      BY <1>3, <1>4, <2>1
    <3>3. i = n \/ i < n
      BY <1>2
    <3> QED BY <3>1, <3>2, <3>3
  <2> QED BY <2>2, <2>3
<1> QED BY <1>2, <1>3, <1>4, <1>5, <1>7, <1>9

-----------------------------------------------------------------------------
(* Type correctness *)

\* The events a turn of the loop may push before it reads.
LEMMA TimeoutType == TimeoutEvent \in Seq(Events) /\ ToSet(TimeoutEvent) \subseteq {Timeout}
<1>1. Timeout \in Events
  BY EventTypes
<1> QED BY <1>1 DEF TimeoutEvent, ToSet

LEMMA LineBounds == MaxLines \in Nat \ {0} /\ LineBound <= MaxLines /\ LineBound \in Nat
BY BoundsAssumption DEF LineBound

\* What getline returns is pushed as it stands in the file.
LEMMA ReadPushes ==
  ASSUME TypeOK, Read
  PROVE  \E at \in InFileOrder(GotLines), q \in Seq(Events) :
           /\ events' = events \o q /\ DOMAIN q = DOMAIN at
           /\ \A i \in DOMAIN at : at[i] \in 1..Len(content) /\ q[i] = content[at[i]] /\ q[i] \in 1..MaxLines
           /\ IF at # <<>> THEN pos' = TellPos(Last(at)) ELSE pos' = pos
           /\ at # <<>> => Last(at) \in GotLines
<1> PICK at \in InFileOrder(GotLines) :
      /\ events' = events \o [i \in DOMAIN at |-> content[at[i]]]
      /\ IF at # <<>> THEN pos' = TellPos(Last(at)) ELSE pos' = pos
  BY DEF Read
<1> DEFINE q == [i \in DOMAIN at |-> content[at[i]]]
<1>1. content \in Seq(Units) /\ Len(content) \in Nat /\ pos \in Nat \cup {Failed}
  BY DEF TypeOK, Units
<1>2. GotLines \subseteq 1..Len(content) /\ \A x \in GotLines : content[x] # NL
  BY <1>1 DEF GotLines, Texts, Failed
<1>3. /\ Len(at) \in Nat /\ DOMAIN at = 1..Len(at) /\ \A i \in DOMAIN at : at[i] \in GotLines
      /\ at # <<>> => Last(at) \in GotLines
  BY <1>1, <1>2, TextsInOrder
<1>4. \A i \in DOMAIN at : at[i] \in 1..Len(content) /\ content[at[i]] \in 1..MaxLines
  <2>1. \A x \in 1..Len(content) : content[x] \in Units
    BY <1>1
  <2>2. \A u \in Units : u # NL => u \in 1..MaxLines
    BY DEF Units, NL
  <2> QED BY <1>2, <1>3, <2>1, <2>2
<1>5. \A i \in DOMAIN at : content[at[i]] \in Events
  BY <1>4, EventTypes
<1>6. q \in Seq(Events)
  BY <1>3, <1>5
<1> QED BY <1>3, <1>4, <1>6

\* The writer appends a line, a text or a newline.
Grows == WriteLine \/ WriteText \/ WriteNewline \/ WriteBlank
Appends(q) ==
  /\ content' = content \o q
  /\ q \in {<<NL>>, <<lines + 1>>, <<lines + 1, NL>>}
  /\ q = <<NL>> => UNCHANGED <<lines, skipped>>
  /\ q # <<NL>> => lines < LineBound /\ lines' = lines + 1 /\ skipped' = Written(lines + 1)
  /\ q = <<lines + 1>> => "text" \in ops

LEMMA Growing ==
  ASSUME TypeOK, Grows
  PROVE  \E q \in Seq(Units) : Appends(q)
<1>1. content \in Seq(Units) /\ lines + 1 \in Nat \ {0} /\ NL \in Units
  BY LineBounds DEF TypeOK, Units, NL
<1>2. \A u \in Units : Append(content, u) = content \o <<u>> /\ <<u>> \in Seq(Units)
  BY <1>1
<1>3. lines < LineBound => lines + 1 \in Units
  BY LineBounds DEF TypeOK, Units
<1>4. CASE WriteLine
  <2>1. lines + 1 \in Units /\ <<lines + 1, NL>> \in Seq(Units)
    BY <1>1, <1>3, <1>4 DEF WriteLine
  <2> QED BY <1>4, <2>1 DEF WriteLine, Appends
<1>5. CASE WriteText
  <2>1. lines + 1 \in Units
    BY <1>3, <1>5 DEF WriteText
  <2> QED BY <1>1, <1>2, <1>5, <2>1 DEF WriteText, Appends, NL
<1>6. CASE WriteNewline
  <2> QED BY <1>1, <1>2, <1>6 DEF WriteNewline, Appends, NL, scanner
<1>7. CASE WriteBlank
  <2> QED BY <1>1, <1>2, <1>7 DEF WriteBlank, Appends, NL, scanner
<1> QED BY <1>4, <1>5, <1>6, <1>7 DEF Grows

\* Only a read pushes lines.
LEMMA EventsGrow ==
  ASSUME TypeOK, Next
  PROVE  \E q \in Seq(Events) : /\ events' = events \o q
                                /\ Read \/ \A i \in DOMAIN q : q[i] \in Controls
<1>0. events \in Seq(Events) /\ Controls \subseteq Events
  BY EventTypes DEF TypeOK, Events
<1>1. CASE Read
  BY <1>1, ReadPushes
<1>2. CASE CheckAndOpen
  <2>1. /\ TimeoutEvent \in Seq(Events) /\ <<ComingAlive>> \in Seq(Events)
        /\ \A i \in DOMAIN TimeoutEvent : TimeoutEvent[i] \in Controls
        /\ ComingAlive \in Controls
    BY TimeoutType, EventTypes DEF ToSet
  <2>2. events \o TimeoutEvent \o <<ComingAlive>> = events \o (TimeoutEvent \o <<ComingAlive>>)
    BY <1>0, <2>1
  <2>3. /\ TimeoutEvent \o <<ComingAlive>> \in Seq(Events)
        /\ \A i \in DOMAIN (TimeoutEvent \o <<ComingAlive>>) : (TimeoutEvent \o <<ComingAlive>>)[i] \in Controls
    <3>1. \A i \in DOMAIN <<ComingAlive>> : <<ComingAlive>>[i] \in Controls
      BY <2>1
    <3> QED BY <2>1, <3>1, EventsConcat
  <2>4. events' = events \o TimeoutEvent \/ events' = events \o TimeoutEvent \o <<ComingAlive>>
    BY <1>2 DEF CheckAndOpen
  <2> QED BY <2>1, <2>2, <2>3, <2>4
<1>3. CASE ~Read /\ ~CheckAndOpen
  <2>1. \/ UNCHANGED events
        \/ \E e \in Controls : events' = Append(events, e)
        \/ events' = events \o <<Started, Replaced>>
    BY <1>3, EventTypes DEF Next, Writer, WriteLine, WriteText, WriteNewline, WriteBlank, TruncateFile, ReplaceFile,
         RemoveFile, CreateFile, Start, Stop, Crash, Tick, Scan, StatFails, Stat, Reopen, SizeSame, SizeChanged, Save,
         Change, disk, object, reader, scanner
  <2>2. /\ <<Started, Replaced>> \in Seq(Events)
        /\ \A i \in DOMAIN <<Started, Replaced>> : <<Started, Replaced>>[i] \in Controls
    BY EventTypes
  <2>3. \A e \in Controls : /\ Append(events, e) = events \o <<e>> /\ <<e>> \in Seq(Events)
                            /\ \A i \in DOMAIN <<e>> : <<e>>[i] \in Controls
    BY <1>0
  <2>4. events = events \o <<>> /\ <<>> \in Seq(Events) /\ \A i \in DOMAIN <<>> : <<>>[i] \in Controls
    BY <1>0
  <2>5. CASE \E e \in Controls : events' = Append(events, e)
    <3> PICK e \in Controls : events' = Append(events, e)
      BY <2>5
    <3>1. /\ events' = events \o <<e>> /\ <<e>> \in Seq(Events)
          /\ \A i \in DOMAIN <<e>> : <<e>>[i] \in Controls
      BY <2>3
    <3> QED BY <3>1
  <2>6. CASE UNCHANGED events
    <3>1. events' = events \o <<>>
      BY <2>4, <2>6
    <3> QED BY <2>4, <3>1
  <2>7. CASE events' = events \o <<Started, Replaced>>
    BY <2>2, <2>7
  <2> QED BY <2>1, <2>5, <2>6, <2>7
<1> QED BY <1>1, <1>2, <1>3

\* What was forwarded remains so.
LEMMA ForwardedRemains ==
  ASSUME TypeOK, Next, NEW n, Forwarded(n)
  PROVE  Forwarded(n)'
<1>1. ToSet(events) \subseteq ToSet(events')
  BY EventsGrow, EventsConcat DEF TypeOK, Events
<1>2. skipped \subseteq skipped'
  BY DEF Next, Writer, WriteLine, WriteText, WriteNewline, WriteBlank, TruncateFile, ReplaceFile, RemoveFile, CreateFile,
         Start, Stop, Crash, Tick, Scan, CheckAndOpen, StatFails, Stat, Reopen, SizeSame, SizeChanged, Read, Save,
         Change, Written, disk, object, reader, scanner
<1> QED BY <1>1, <1>2 DEF Forwarded, Emitted

\* What is counted, and the inodes that are handed on.
LEMMA Counting ==
  ASSUME Next
  PROVE  /\ UNCHANGED lines \/ (lines < LineBound /\ lines' = lines + 1)
         /\ UNCHANGED changes \/ (changes < MaxChanges /\ changes' = changes + 1)
         /\ inodeNo' \in {inodeNo, NoInode, 2 * changes + 2, 2 * changes + 3}
         /\ inode' \in {inode, NoInode, inodeNo}
BY DEF Next, Writer, WriteLine, WriteText, WriteNewline, WriteBlank, TruncateFile, ReplaceFile, RemoveFile, CreateFile,
       Start, Stop, Crash, Tick, Scan, CheckAndOpen, StatFails, Stat, Reopen, SizeSame, SizeChanged, Read, Save,
       Change, disk, object, reader, scanner

\* Every size and every entry is taken from one that is there.
LEMMA Taking ==
  ASSUME Next
  PROVE  /\ size' \in {size, NoSize, statSize, Len(content)}
         /\ statSize' \in {statSize, Len(content)}
         /\ saved' \in {saved, Entry}
BY DEF Next, Writer, WriteLine, WriteText, WriteNewline, WriteBlank, TruncateFile, ReplaceFile, RemoveFile, CreateFile,
       Start, Stop, Crash, Tick, Scan, CheckAndOpen, StatFails, Stat, Reopen, SizeSame, SizeChanged, Read, Save,
       Change, disk, object, reader, scanner

LEMMA TypeStep ==
  ASSUME TypeOK, Next
  PROVE  TypeOK'
<1>1. changes' \in 0..MaxChanges
  BY Counting, BoundsAssumption DEF TypeOK
<1>2. lines' \in 1..MaxLines
  BY Counting, LineBounds DEF TypeOK
<1>3. inodeNo' \in Nat /\ inode' \in Nat
  <2>1. changes \in Nat
    BY BoundsAssumption DEF TypeOK
  <2> QED BY <2>1, Counting DEF TypeOK, NoInode
<1>9. size' \in Nat \cup {NoSize} /\ statSize' \in Nat
  <2>1. Len(content) \in Nat /\ statSize \in Nat /\ size \in Nat \cup {NoSize}
    BY DEF TypeOK
  <2> QED BY <2>1, Taking
<1>10. saved' \in [inode : Nat, pos : Nat \cup {Failed}]
  <2>1. saved \in [inode : Nat, pos : Nat \cup {Failed}] /\ Entry \in [inode : Nat, pos : Nat \cup {Failed}]
    BY DEF TypeOK, Entry
  <2> QED BY <2>1, Taking
<1> USE DEF Next, Writer, WriteLine, WriteText, WriteNewline, WriteBlank, TruncateFile, ReplaceFile, RemoveFile, CreateFile,
            Start, Stop, Crash, Tick, Scan, CheckAndOpen, StatFails, Stat, Reopen, SizeSame, SizeChanged, Save,
            Change, disk, object, reader, scanner
<1>4. ops' \in Workloads
  BY DEF TypeOK, Read
<1>5. pc' \in {"off", "top", "stat", "reopen", "size", "read", "save"}
  BY DEF TypeOK, Read
<1>6. fd' \in BOOLEAN /\ down' \in BOOLEAN /\ triggered' \in BOOLEAN /\ quiet' \in BOOLEAN
  <2>1. /\ UNCHANGED fd \/ fd' = Exists
        /\ UNCHANGED down \/ down' = ~Exists \/ down' = FALSE \/ down' = TRUE
        /\ UNCHANGED quiet \/ quiet' = ~Exists \/ quiet' = FALSE \/ quiet' = TRUE
        /\ UNCHANGED triggered \/ triggered' = FALSE \/ triggered' = (triggered \/ TimeoutEvent # <<>>)
    BY DEF Read
  <2>2. fd \in BOOLEAN /\ down \in BOOLEAN /\ quiet \in BOOLEAN /\ triggered \in BOOLEAN
    BY DEF TypeOK
  <2> HIDE DEF Exists
  <2>3. (fd' \in BOOLEAN /\ down' \in BOOLEAN) /\ (quiet' \in BOOLEAN /\ triggered' \in BOOLEAN)
    BY <2>1, <2>2 DEF Exists
  <2> QED BY <2>3
<1>7. content' \in Seq(0..MaxLines)
  <2>1. UNCHANGED content \/ content' = <<>> \/ Grows
    BY DEF Grows, Read
  <2>2. Grows => content' \in Seq(Units)
    BY Growing, UnitsConcat DEF Appends, TypeOK, Units
  <2>3. content \in Seq(Units) /\ <<>> \in Seq(Units)
    BY DEF TypeOK, Units
  <2>4. content' \in Seq(Units)
    BY <2>1, <2>2, <2>3
  <2> QED BY <2>4 DEF Units
<1>8. pos' \in Nat \cup {Failed}
  <2>1. CASE Read
    <3>1. \A x \in 1..Len(content) : TellPos(x) \in Nat \cup {Failed}
      BY DEF TellPos
    <3>2. GotLines \subseteq 1..Len(content)
      BY DEF GotLines, Texts, TypeOK, Failed
    <3> QED BY <2>1, <3>1, <3>2, ReadPushes DEF TypeOK
  <2>2. CASE ~Read
    BY <2>2 DEF TypeOK
  <2> QED BY <2>1, <2>2
<1>11. events' \in Seq(1..MaxLines \cup Controls)
  BY EventsGrow, EventsConcat DEF TypeOK, Events
<1>12. skipped' \subseteq 1..MaxLines
  <2>1. skipped \subseteq 1..MaxLines
    BY DEF TypeOK
  <2>2. lines < LineBound => lines + 1 \in 1..MaxLines
    BY LineBounds DEF TypeOK
  <2>3. {content[i] : i \in Texts(0)} \subseteq 1..MaxLines
    <3>1. content \in Seq(Units)
      BY DEF TypeOK, Units
    <3>2. \A i \in Texts(0) : content[i] \in Units /\ content[i] # NL
      BY <3>1 DEF Texts
    <3> QED BY <3>2 DEF Units, NL
  <2> QED BY <2>1, <2>2, <2>3 DEF Written, Read
<1> QED BY <1>1, <1>2, <1>3, <1>4, <1>5, <1>6, <1>7, <1>8, <1>9, <1>10, <1>11, <1>12 DEF TypeOK

-----------------------------------------------------------------------------
(* The parts of the invariant *)

\* A file that is created or replaced gets an inode nobody knows yet.
Newest == 2 * changes + (IF Exists THEN 2 ELSE 1)
FreshInv == \A n \in {inodeNo, inode, saved.inode} : n <= Newest

\* NoLineSkipped, position by position.
CoveredTo(p) == \A i \in Texts(0) : i <= p => Forwarded(content[i])
CoverInv ==
  /\ pc # "off" /\ inode = inodeNo /\ Exists => CoveredTo(pos)
  /\ saved # NoState /\ saved.inode = inodeNo /\ Exists => CoveredTo(saved.pos)

\* Behind every report of a kind comes one of another kind.
Answered(s, e) == \A i \in DOMAIN s : s[i] = e => \E k \in DOMAIN s : i < k /\ s[k] \in News \ {e}
Alternate(s, e) ==
  \A i, j \in DOMAIN s : i < j /\ s[i] = e /\ s[j] = e => \E k \in i..j : s[k] \in News \ {e}

\* While a turn is under way there is a stream, and the file is not down.
NewsInv ==
  /\ pc \in {"stat", "reopen", "size", "read"} => fd /\ ~down
  /\ Alternate(events, WentDown) /\ Alternate(events, ComingAlive)
  /\ pc # "off" => (fd /\ ~down => Answered(events, WentDown)) /\ (~fd \/ down => Answered(events, ComingAlive))

\* A file that is only appended to holds every line, in its order, terminated.
FileInv ==
  /\ inodeNo = 1
  /\ Len(content) >= 1 /\ content[Len(content)] = NL
  /\ \A i, j \in Texts(0) : i < j => content[i] < content[j]
  /\ \A i \in Texts(0) : content[i] <= lines
  /\ \A n \in 1..lines : \E i \in Texts(0) : content[i] = n

\* Nothing makes the daemon leave its position in such a file: neither the inode
\* changes nor does the file shrink, and an orderly stop saves the position.
ScanInv ==
  /\ pc # "off" => pc # "reopen" /\ inode = 1 /\ pos \in 0..Len(content) /\ size <= Len(content)
  /\ pc = "size" => size <= statSize /\ statSize <= Len(content)
  /\ pc = "off" /\ saved # NoState => saved.inode = 1 /\ saved.pos \in 0..Len(content)

\* How far the lines have been forwarded; what stands behind is newer than all
\* that was pushed.
Reached == IF pc # "off" THEN pos ELSE saved.pos
Begun == pc # "off" \/ saved # NoState
Ascend == \A i, j \in DOMAIN events : i < j /\ events[i] > 0 /\ events[j] > 0 => events[i] < events[j]
SentInv ==
  /\ Ascend
  /\ \A e \in DOMAIN events : events[e] <= lines
  /\ ~Begun => \A e \in DOMAIN events : events[e] <= 0
  /\ Begun => \A i \in Texts(0) : Reached < i => \A e \in DOMAIN events : events[e] < content[i]

OnceInv == AppendOnly => FileInv /\ ScanInv /\ SentInv

IInv == TypeOK /\ FreshInv /\ CoverInv /\ NewsInv /\ OnceInv

-----------------------------------------------------------------------------
(* Inodes *)

LEMMA FreshStep ==
  ASSUME TypeOK, FreshInv, Next
  PROVE  FreshInv'
<1>0. inodeNo \in Nat /\ inode \in Nat /\ saved.inode \in Nat /\ changes \in Nat
  BY BoundsAssumption DEF TypeOK
<1>1. CASE ReplaceFile
  BY <1>0, <1>1 DEF FreshInv, Newest, ReplaceFile, Change, Exists, NoInode, scanner, reader, object
<1>2. CASE CreateFile
  BY <1>0, <1>2 DEF FreshInv, Newest, CreateFile, Change, Exists, NoInode, scanner, reader, object
<1>3. CASE RemoveFile
  BY <1>0, <1>3 DEF FreshInv, Newest, RemoveFile, Change, Exists, NoInode, scanner, reader, object
<1>4. CASE ~ReplaceFile /\ ~CreateFile /\ ~RemoveFile
  <2>1. /\ UNCHANGED inodeNo /\ inode' \in {inode, inodeNo, NoInode} /\ saved'.inode \in {saved.inode, inode}
        /\ changes' \in {changes, changes + 1}
    BY <1>4 DEF Next, Writer, WriteLine, WriteText, WriteNewline, WriteBlank, TruncateFile, Start, Stop, Crash, Tick, Scan,
         CheckAndOpen, StatFails, Stat, Reopen, SizeSame, SizeChanged, Read, Save, Change, Entry, disk, object, reader, scanner
  <2>2. (Newest \in Nat /\ Newest' \in Nat) /\ Newest <= Newest'
    <3>1. CASE changes' = changes
      BY <1>0, <2>1, <3>1 DEF Newest, Exists
    <3>2. CASE changes' = changes + 1
      BY <1>0, <2>1, <3>2 DEF Newest, Exists
    <3> QED BY <2>1, <3>1, <3>2
  <2>3. NoInode \in Nat /\ NoInode <= Newest
    BY <2>2 DEF NoInode
  <2>4. inodeNo' <= Newest' /\ inode' <= Newest' /\ saved'.inode <= Newest'
    BY <1>0, <2>1, <2>2, <2>3 DEF FreshInv
  <2> QED BY <2>4 DEF FreshInv
<1> QED BY <1>1, <1>2, <1>3, <1>4

LEMMA NewInode ==
  ASSUME TypeOK, FreshInv, ReplaceFile \/ CreateFile
  PROVE  inodeNo' # inode' /\ inodeNo' # saved'.inode
<1>0. inodeNo \in Nat /\ inode \in Nat /\ saved.inode \in Nat /\ changes \in Nat
  BY BoundsAssumption DEF TypeOK
<1>1. UNCHANGED <<inode, saved>> /\ inodeNo' = 2 * changes + (IF Exists THEN 3 ELSE 2)
  BY DEF ReplaceFile, CreateFile, Change, scanner, reader, object
<1> QED BY <1>0, <1>1 DEF FreshInv, Newest

-----------------------------------------------------------------------------
(* What stands in front of a position *)

LEMMA Kept ==
  ASSUME TypeOK, Next, NEW i, Forwarded(content[i]), content'[i] = content[i]
  PROVE  Forwarded(content[i])'
<1> PICK n : n = content[i]
  OBVIOUS
<1>1. Forwarded(n)'
  BY ForwardedRemains
<1> QED BY <1>1 DEF Forwarded

LEMMA CoverGrows ==
  ASSUME TypeOK, CoverInv, Grows
  PROVE  CoverInv'
<1> PICK q \in Seq(Units) : Appends(q)
  BY Growing
<1>0. Next /\ UNCHANGED <<inodeNo, pc, inode, pos, saved>>
  BY DEF Grows, Next, Writer, WriteLine, WriteText, WriteNewline, WriteBlank, scanner, reader, object
<1>1. /\ content \in Seq(Units) /\ pos \in Int /\ saved.pos \in Int
      /\ Len(content) \in Nat /\ Len(content') = Len(content) + Len(q) /\ Len(q) \in Nat
      /\ \A i \in 1..Len(content) : content'[i] = content[i]
      /\ \A i \in 1..Len(q) : content'[Len(content) + i] = q[i]
  <2>1. content \in Seq(Units) /\ pos \in Int /\ saved.pos \in Int
    BY DEF TypeOK, Units, Failed
  <2>2. content' = content \o q
    BY DEF Appends
  <2> QED BY <2>1, <2>2, UnitsConcat
<1>2. ASSUME NEW i \in 1..Len(content'), ~(i <= Len(content)), content'[i] # NL
      PROVE  content'[i] = lines + 1 /\ skipped' = Written(lines + 1)
  <2>1. i - Len(content) \in 1..Len(q) /\ content'[Len(content) + (i - Len(content))] = content'[i]
    BY <1>1, <1>2
  <2>2. content'[i] = q[i - Len(content)]
    BY <1>1, <2>1
  <2>3. q # <<NL>>
    BY <1>2, <2>1, <2>2
  <2>4. q[i - Len(content)] \in {lines + 1, NL}
    BY <2>1 DEF Appends
  <2> QED BY <1>2, <2>2, <2>3, <2>4 DEF Appends
<1>3. ASSUME NEW i \in Texts(0)', Unnoticed \/ i <= Len(content), i <= Len(content) => Forwarded(content[i])
      PROVE  Forwarded(content[i])'
  <2>1. i \in 1..Len(content') /\ content'[i] # NL
    BY <1>1 DEF Texts
  <2>2. CASE i <= Len(content)
    BY <1>0, <1>1, <1>3, <2>1, <2>2, Kept
  <2>3. CASE ~(i <= Len(content))
    BY <1>2, <1>3, <2>1, <2>3 DEF Forwarded, Written
  <2> QED BY <2>2, <2>3
<1>4. \A i \in Texts(0)' : i \in Int /\ (i <= Len(content) => i \in Texts(0))
  BY <1>1 DEF Texts
<1>5. ASSUME pc # "off", inode = inodeNo, Exists PROVE CoveredTo(pos)'
  <2>1. \A i : i \in Int /\ i <= pos /\ ~(i <= Len(content)) => Unnoticed
    BY <1>1, <1>5 DEF Unnoticed
  <2> QED BY <1>0, <1>3, <1>4, <1>5, <2>1 DEF CoverInv, CoveredTo
<1>6. ASSUME saved # NoState, saved.inode = inodeNo, Exists PROVE CoveredTo(saved.pos)'
  <2>1. \A i : i \in Int /\ i <= saved.pos /\ ~(i <= Len(content)) => Unnoticed
    BY <1>1, <1>6 DEF Unnoticed
  <2> QED BY <1>0, <1>3, <1>4, <1>6, <2>1 DEF CoverInv, CoveredTo
<1> QED BY <1>0, <1>5, <1>6 DEF CoverInv, Exists

LEMMA CoverStep ==
  ASSUME TypeOK, FreshInv, CoverInv, Next
  PROVE  CoverInv'
<1>0. pos \in Int /\ saved.pos \in Int /\ content \in Seq(Units) /\ Len(content) \in Nat
  BY DEF TypeOK, Failed, Units
<1>1. CASE Grows
  BY <1>1, CoverGrows
<1>2. CASE TruncateFile \/ RemoveFile
  <2>1. Texts(0)' = {}
    BY <1>2 DEF TruncateFile, RemoveFile, Texts
  <2> QED BY <2>1 DEF CoverInv, CoveredTo
<1>3. CASE ReplaceFile \/ CreateFile
  BY <1>3, NewInode DEF CoverInv
<1>4. ASSUME UNCHANGED <<content, inodeNo>>
      PROVE  /\ Exists' = Exists
             /\ \A p : CoveredTo(p) => \A i \in Texts(0)' : i <= p => Forwarded(content[i])'
  <2>1. Texts(0)' = Texts(0)
    BY <1>4 DEF Texts
  <2>2. \A i : Forwarded(content[i]) => Forwarded(content[i])'
    BY <1>4, Kept
  <2> QED BY <1>4, <2>1, <2>2 DEF CoveredTo, Exists
<1>5. CASE Start
  <2>1. UNCHANGED <<content, inodeNo, saved>>
    BY <1>5 DEF Start, disk
  <2>2. saved # NoState /\ saved.inode = inodeNo /\ Exists => CoveredTo(saved.pos)
    BY DEF CoverInv
  <2>3. saved' # NoState /\ saved'.inode = inodeNo' /\ Exists' => CoveredTo(saved.pos)'
    BY <1>4, <2>1, <2>2 DEF CoveredTo
  <2>4. ASSUME Exists PROVE CoveredTo(pos)'
    <3>1. CASE saved = NoState
      <4>1. skipped' = skipped \cup {content[i] : i \in Texts(0)}
        BY <1>5, <2>4, <3>1 DEF Start
      <4>2. Texts(0)' = Texts(0)
        BY <2>1 DEF Texts
      <4> QED BY <2>1, <4>1, <4>2 DEF CoveredTo, Forwarded
    <3>2. CASE saved # NoState /\ saved.inode # inodeNo
      <4>1. pos' = 0
        BY <1>5, <2>4, <3>2 DEF Start
      <4>2. \A i \in Texts(0)' : ~(i <= 0)
        BY <1>0, <2>1 DEF Texts
      <4> QED BY <4>1, <4>2 DEF CoveredTo
    <3>3. CASE saved # NoState /\ saved.inode = inodeNo
      <4>1. pos' = saved.pos
        BY <1>5, <2>4, <3>3 DEF Start
      <4> QED BY <1>4, <2>1, <2>2, <2>4, <3>3, <4>1 DEF CoveredTo
    <3> QED BY <3>1, <3>2, <3>3
  <2> QED BY <2>1, <2>3, <2>4 DEF CoverInv, Exists
<1>6. CASE Stop \/ Crash \/ Save
  <2>1. UNCHANGED <<content, inodeNo, inode, pos>> /\ pc # "off" /\ (UNCHANGED saved \/ saved' = Entry)
    BY <1>6 DEF Stop, Crash, Save, disk, object
  <2>2. Entry.inode = inode /\ Entry.pos = pos
    BY DEF Entry
  <2>3. inode' = inodeNo' /\ Exists' => CoveredTo(pos)'
    BY <1>4, <2>1 DEF CoverInv, CoveredTo
  <2>4. saved' # NoState /\ saved'.inode = inodeNo' /\ Exists' => CoveredTo(saved.pos)'
    <3>1. CASE UNCHANGED saved
      BY <1>4, <2>1, <3>1 DEF CoverInv, CoveredTo
    <3>2. CASE saved' = Entry
      BY <2>1, <2>2, <2>3, <3>2 DEF CoveredTo
    <3> QED BY <2>1, <3>1, <3>2
  <2> QED BY <2>3, <2>4 DEF CoverInv
<1>7. CASE Read
  <2>1. UNCHANGED <<content, inodeNo, inode, saved>> /\ pc # "off"
    BY <1>7 DEF Read, disk
  <2> PICK at \in InFileOrder(GotLines), q \in Seq(Events) :
        /\ events' = events \o q /\ DOMAIN q = DOMAIN at
        /\ \A i \in DOMAIN at : at[i] \in 1..Len(content) /\ q[i] = content[at[i]] /\ q[i] \in 1..MaxLines
        /\ IF at # <<>> THEN pos' = TellPos(Last(at)) ELSE pos' = pos
    BY <1>7, ReadPushes
  <2>2. GotLines \subseteq 1..Len(content)
    BY <1>0 DEF GotLines, Texts, TypeOK, Failed
  <2>3. /\ \A x \in GotLines : \E i \in DOMAIN at : at[i] = x
        /\ at = <<>> <=> GotLines = {}
    BY <1>0, <2>2, TextsInOrder
  <2>4. ASSUME NEW x \in GotLines PROVE Forwarded(content[x])'
    <3> PICK i \in DOMAIN at : at[i] = x
      BY <2>3
    <3>1. q[i] = content[x] /\ q[i] \in 1..MaxLines /\ q[i] \in ToSet(q)
      BY DEF ToSet
    <3>2. ToSet(q) \subseteq ToSet(events')
      BY EventsConcat DEF TypeOK, Events
    <3>3. content[x] \in ToSet(events') /\ content[x] > 0
      BY <3>1, <3>2
    <3> QED BY <2>1, <3>3 DEF Forwarded, Emitted
  <2>5. ASSUME inode = inodeNo, Exists PROVE CoveredTo(pos)'
    <3>1. CoveredTo(pos)
      BY <2>1, <2>5 DEF CoverInv
    <3>2. CASE at = <<>>
      BY <1>4, <2>1, <3>1, <3>2 DEF CoveredTo
    <3>3. CASE at # <<>>
      <4>1. pos # Failed /\ pos \in Nat
        BY <2>3, <3>3 DEF GotLines, TypeOK
      <4>2. \A i \in Texts(0) : i <= pos \/ i \in GotLines
        BY <1>0, <2>5, <4>1 DEF GotLines, Texts
      <4>3. Texts(0)' = Texts(0)
        BY <2>1 DEF Texts
      <4> QED BY <1>4, <2>1, <2>4, <3>1, <4>2, <4>3 DEF CoveredTo
    <3> QED BY <3>2, <3>3
  <2>6. saved # NoState /\ saved.inode = inodeNo /\ Exists => CoveredTo(saved.pos)'
    BY <1>4, <2>1 DEF CoverInv, CoveredTo
  <2> QED BY <2>1, <2>5, <2>6 DEF CoverInv, Exists
<1>8. CASE Tick \/ CheckAndOpen \/ StatFails \/ Stat \/ Reopen \/ SizeSame \/ SizeChanged
  <2>1. /\ UNCHANGED <<content, inodeNo, saved>> /\ (pc' # "off" => pc # "off")
        /\ pos' = 0 \/ (pos' = pos /\ inode' = inode)
    BY <1>8 DEF Tick, CheckAndOpen, StatFails, Stat, Reopen, SizeSame, SizeChanged, disk, object
  <2>2. saved' # NoState /\ saved'.inode = inodeNo' /\ Exists' => CoveredTo(saved.pos)'
    BY <1>4, <2>1 DEF CoverInv, CoveredTo
  <2>3. \A i \in Texts(0)' : ~(i <= 0)
    BY <1>0, <2>1 DEF Texts
  <2>4. CASE pos' = 0
    BY <2>2, <2>3, <2>4 DEF CoverInv, CoveredTo
  <2>5. CASE pos' = pos /\ inode' = inode
    BY <1>4, <2>1, <2>2, <2>5 DEF CoverInv, CoveredTo
  <2> QED BY <2>1, <2>4, <2>5
<1> QED BY <1>1, <1>2, <1>3, <1>5, <1>6, <1>7, <1>8 DEF Next, Writer, Scan, Grows

-----------------------------------------------------------------------------
(* The reports about the file *)

\* Other events do not disturb the reports.
LEMMA NewsKept ==
  ASSUME NEW s \in Seq(Events), NEW q \in Seq(Events), \A i \in DOMAIN q : q[i] \notin News, NEW e \in News
  PROVE  /\ Answered(s, e) => Answered(s \o q, e)
         /\ Alternate(s, e) => Alternate(s \o q, e)
<1>1. /\ DOMAIN s = 1..Len(s) /\ DOMAIN (s \o q) = 1..Len(s) + Len(q) /\ Len(s) \in Nat /\ Len(q) \in Nat
      /\ \A i \in DOMAIN s : (s \o q)[i] = s[i]
      /\ \A i \in 1..Len(q) : (s \o q)[Len(s) + i] = q[i]
      /\ \A i \in DOMAIN (s \o q) : i \in DOMAIN s \/ (i - Len(s) \in DOMAIN q /\ Len(s) + (i - Len(s)) = i)
      /\ DOMAIN q = 1..Len(q)
  BY EventsConcat
<1>2. \A i \in DOMAIN s : i \in DOMAIN (s \o q)
  BY <1>1
<1>3. \A i \in DOMAIN (s \o q) : (s \o q)[i] = e => i \in DOMAIN s /\ s[i] = e
  BY <1>1
<1>4. Answered(s, e) => Answered(s \o q, e)
  BY <1>1, <1>2, <1>3 DEF Answered
<1>5. ASSUME Alternate(s, e), NEW i \in DOMAIN (s \o q), NEW j \in DOMAIN (s \o q),
             i < j, (s \o q)[i] = e, (s \o q)[j] = e
      PROVE  \E k \in i..j : (s \o q)[k] \in News \ {e}
  <2>1. i \in DOMAIN s /\ s[i] = e /\ j \in DOMAIN s /\ s[j] = e
    BY <1>3, <1>5
  <2> PICK k \in i..j : s[k] \in News \ {e}
    BY <1>5, <2>1 DEF Alternate
  <2>2. k \in DOMAIN s
    BY <1>1, <2>1
  <2> QED BY <1>1, <2>2
<1> QED BY <1>4, <1>5 DEF Alternate

\* A report answers those of other kinds, and may follow one of its kind that was
\* answered.
LEMMA NewsPushed ==
  ASSUME NEW s \in Seq(Events), NEW n \in News, NEW e \in News
  PROVE  /\ n # e => Answered(Append(s, n), e)
         /\ Alternate(s, e) /\ (n # e \/ Answered(s, e)) => Alternate(Append(s, n), e)
<1>0. n \in Events
  BY EventTypes DEF News
<1>1. /\ DOMAIN s = 1..Len(s) /\ DOMAIN Append(s, n) = 1..Len(s) + 1 /\ Len(s) \in Nat
      /\ \A i \in DOMAIN s : Append(s, n)[i] = s[i]
      /\ Append(s, n)[Len(s) + 1] = n
  BY <1>0, Pushing
<1>2. \A i \in DOMAIN Append(s, n) : i \in DOMAIN s \/ i = Len(s) + 1
  BY <1>1
<1>3. ASSUME n # e PROVE Answered(Append(s, n), e)
  <2>1. Len(s) + 1 \in DOMAIN Append(s, n) /\ \A i \in DOMAIN s : i < Len(s) + 1
    BY <1>1
  <2> QED BY <1>1, <1>2, <1>3, <2>1 DEF Answered
<1>4. ASSUME Alternate(s, e), n # e \/ Answered(s, e),
             NEW i \in DOMAIN Append(s, n), NEW j \in DOMAIN Append(s, n), i < j, Append(s, n)[i] = e, Append(s, n)[j] = e
      PROVE  \E k \in i..j : Append(s, n)[k] \in News \ {e}
  <2>1. i \in DOMAIN s /\ s[i] = e
    BY <1>1, <1>4
  <2>2. CASE j \in DOMAIN s
    <3> PICK k \in i..j : s[k] \in News \ {e}
      BY <1>1, <1>4, <2>1, <2>2 DEF Alternate
    <3>1. k \in DOMAIN s
      BY <1>1, <2>1, <2>2
    <3> QED BY <1>1, <3>1
  <2>3. CASE j = Len(s) + 1
    <3>1. n = e
      BY <1>1, <1>4, <2>3
    <3> PICK k \in DOMAIN s : i < k /\ s[k] \in News \ {e}
      BY <1>4, <2>1, <3>1 DEF Answered
    <3>2. k \in i..j
      BY <1>1, <2>1, <2>3
    <3> QED BY <1>1, <3>2
  <2> QED BY <1>2, <2>2, <2>3
<1> QED BY <1>3, <1>4 DEF Alternate

LEMMA NewsTypes ==
  /\ Started \in News /\ WentDown \in News /\ ComingAlive \in News
  /\ WentDown # ComingAlive /\ Started # WentDown /\ Started # ComingAlive
  /\ {Replaced, Truncated, Timeout} \cap News = {}
  /\ \A n \in 1..MaxLines : n \notin News
BY DEF News, Started, WentDown, ComingAlive, Replaced, Truncated, Timeout

\* Steps that report nothing.
LEMMA NewsFrame ==
  ASSUME TypeOK, NewsInv, NEW q \in Seq(Events), events' = events \o q, \A i \in DOMAIN q : q[i] \notin News,
         pc' # "off" => pc # "off" /\ UNCHANGED <<fd, down>>,
         pc' \in {"stat", "reopen", "size", "read"} => fd' /\ ~down'
  PROVE  NewsInv'
<1>1. events \in Seq(Events)
  BY DEF TypeOK, Events
<1>2. \A e \in {WentDown, ComingAlive} : /\ Answered(events, e) => Answered(events, e)'
                                         /\ Alternate(events, e) => Alternate(events, e)'
  <2> SUFFICES ASSUME NEW e \in {WentDown, ComingAlive}
               PROVE  /\ Answered(events, e) => Answered(events, e)'
                      /\ Alternate(events, e) => Alternate(events, e)'
    OBVIOUS
  <2>1. /\ Answered(events, e) => Answered(events \o q, e)
        /\ Alternate(events, e) => Alternate(events \o q, e)
    BY <1>1, NewsKept, NewsTypes
  <2> QED BY <2>1 DEF Answered, Alternate
<1>3. Alternate(events, WentDown)' /\ Alternate(events, ComingAlive)'
  BY <1>2 DEF NewsInv
<1>4. ASSUME pc' # "off"
      PROVE  (fd' /\ ~down' => Answered(events, WentDown)') /\ (~fd' \/ down' => Answered(events, ComingAlive)')
  BY <1>2, <1>4 DEF NewsInv
<1> QED BY <1>3, <1>4 DEF NewsInv

\* Steps that report n, after a timeout perhaps.
LEMMA NewsReport ==
  ASSUME NewsInv, NEW s \in Seq(Events), NEW n \in {WentDown, ComingAlive}, events' = Append(s, n),
         \A e \in {WentDown, ComingAlive} : Alternate(events, e) => Alternate(s, e),
         Answered(s, n),
         IF n = WentDown THEN down' \/ ~fd' ELSE fd' /\ ~down',
         pc' \in {"stat", "reopen", "size", "read"} => fd' /\ ~down'
  PROVE  NewsInv'
<1>1. \A e \in {WentDown, ComingAlive} :
        (n # e => Answered(events', e)) /\ Alternate(events', e)
  BY NewsPushed, NewsTypes DEF NewsInv
<1>2. \A e \in {WentDown, ComingAlive} : (n # e => Answered(events, e)') /\ Alternate(events, e)'
  BY <1>1 DEF Answered, Alternate
<1>3. CASE n = WentDown
  BY <1>2, <1>3, NewsTypes DEF NewsInv
<1>4. CASE n = ComingAlive
  BY <1>2, <1>4, NewsTypes DEF NewsInv
<1> QED BY <1>3, <1>4

LEMMA NewsStart ==
  ASSUME TypeOK, NewsInv, Start
  PROVE  NewsInv'
<1>1. events \in Seq(Events) /\ Started \in Events /\ Replaced \in Events
  BY EventTypes DEF TypeOK, Events
<1>2. Append(events, Started) \in Seq(Events)
  BY <1>1
<1>3. \A e \in {WentDown, ComingAlive} : Answered(Append(events, Started), e) /\ Alternate(Append(events, Started), e)
  BY <1>1, NewsPushed, NewsTypes DEF NewsInv
<1>4. events \o <<Started, Replaced>> = Append(events, Started) \o <<Replaced>> /\ <<Replaced>> \in Seq(Events)
  BY <1>1
<1>5. \A i \in DOMAIN <<Replaced>> : <<Replaced>>[i] \notin News
  BY NewsTypes
<1>6. \A e \in {WentDown, ComingAlive} : /\ Answered(Append(events, Started) \o <<Replaced>>, e)
                                         /\ Alternate(Append(events, Started) \o <<Replaced>>, e)
  BY <1>2, <1>3, <1>4, <1>5, NewsKept, NewsTypes
<1>7. events' = Append(events, Started) \/ events' = Append(events, Started) \o <<Replaced>>
  BY <1>4 DEF Start
<1>8. \A e \in {WentDown, ComingAlive} : Answered(events', e) /\ Alternate(events', e)
  BY <1>3, <1>6, <1>7
<1>9. \A e \in {WentDown, ComingAlive} : Answered(events, e)' /\ Alternate(events, e)'
  BY <1>8 DEF Answered, Alternate
<1>10. pc' = "top"
  BY DEF Start
<1> QED BY <1>9, <1>10 DEF NewsInv

LEMMA NewsStep ==
  ASSUME TypeOK, NewsInv, Next
  PROVE  NewsInv'
<1>0. events \in Seq(Events) /\ WentDown \in Events /\ ComingAlive \in Events
  BY EventTypes DEF TypeOK, Events
<1>1. CASE Start
  BY <1>1, NewsStart
<1>2. CASE CheckAndOpen
  <2>1. TimeoutEvent \in Seq(Events) /\ \A i \in DOMAIN TimeoutEvent : TimeoutEvent[i] \notin News
    BY TimeoutType, NewsTypes DEF ToSet
  <2>2. CASE fd /\ ~down
    <3>1. events' = events \o TimeoutEvent /\ UNCHANGED <<fd, down>> /\ pc # "off"
      BY <1>2, <2>2 DEF CheckAndOpen
    <3> QED BY <2>1, <2>2, <3>1, NewsFrame
  <2>3. CASE ~(fd /\ ~down) /\ Exists
    <3>1. /\ events' = events \o TimeoutEvent \o <<ComingAlive>> /\ fd' /\ ~down' /\ pc # "off"
      BY <1>2, <2>3 DEF CheckAndOpen
    <3>2. events \o TimeoutEvent \in Seq(Events)
      BY <1>0, <2>1, EventsConcat
    <3>3. \A e \in {WentDown, ComingAlive} : /\ Answered(events, e) => Answered(events \o TimeoutEvent, e)
                                             /\ Alternate(events, e) => Alternate(events \o TimeoutEvent, e)
      BY <1>0, <2>1, NewsKept, NewsTypes
    <3>4. Answered(events \o TimeoutEvent, ComingAlive)
      BY <2>3, <3>1, <3>3 DEF NewsInv
    <3>5. events' = Append(events \o TimeoutEvent, ComingAlive)
      BY <3>1, <3>2
    <3> QED BY <3>1, <3>2, <3>3, <3>4, <3>5, NewsReport, NewsTypes
  <2>4. CASE ~(fd /\ ~down) /\ ~Exists
    <3>1. events' = events \o TimeoutEvent /\ pc' = "save" /\ ~fd' /\ UNCHANGED down /\ pc # "off"
      BY <1>2, <2>4 DEF CheckAndOpen
    <3>2. \A e \in {WentDown, ComingAlive} : /\ Answered(events, e) => Answered(events, e)'
                                             /\ Alternate(events, e) => Alternate(events, e)'
      <4>1. \A e \in {WentDown, ComingAlive} : /\ Answered(events, e) => Answered(events', e)
                                               /\ Alternate(events, e) => Alternate(events', e)
        BY <1>0, <2>1, <3>1, NewsKept, NewsTypes
      <4> QED BY <4>1 DEF Answered, Alternate
    <3> QED BY <2>4, <3>1, <3>2 DEF NewsInv
  <2> QED BY <2>2, <2>3, <2>4
<1>3. CASE StatFails \/ (Reopen /\ ~Exists)
  <2>1. events' = Append(events, WentDown) /\ (down' \/ ~fd') /\ pc' = "save" /\ Answered(events, WentDown)
    BY <1>3 DEF StatFails, Reopen, NewsInv
  <2> QED BY <1>0, <2>1, NewsReport, NewsTypes
<1>4. CASE Read
  <2> PICK q \in Seq(Events), at \in InFileOrder(GotLines) :
        events' = events \o q /\ DOMAIN q = DOMAIN at /\ \A i \in DOMAIN at : q[i] \in 1..MaxLines
    BY <1>4, ReadPushes
  <2>1. \A i \in DOMAIN q : q[i] \notin News
    BY NewsTypes
  <2>2. UNCHANGED <<fd, down>> /\ pc # "off" /\ pc' = "save"
    BY <1>4 DEF Read
  <2> QED BY <2>1, <2>2, NewsFrame
<1>5. CASE ~Start /\ ~CheckAndOpen /\ ~StatFails /\ ~(Reopen /\ ~Exists) /\ ~Read
  <2> USE <1>5 DEF Next, Writer, WriteLine, WriteText, WriteNewline, WriteBlank, TruncateFile, ReplaceFile, RemoveFile,
            CreateFile, Stop, Crash, Tick, Scan, Stat, Reopen, SizeSame, SizeChanged, Save, Change, disk, object, reader, scanner
  <2>1. UNCHANGED events \/ events' = Append(events, Replaced) \/ events' = Append(events, Truncated)
    OBVIOUS
  <2>2. pc' # "off" => pc # "off" /\ (UNCHANGED <<fd, down>> \/ (pc = "reopen" /\ UNCHANGED down /\ fd' = Exists /\ Exists))
    OBVIOUS
  <2>3. pc' \in {"stat", "reopen", "size", "read"} => pc \in {"stat", "reopen", "size", "read"}
    OBVIOUS
  <2>4. PICK q \in Seq(Events) : events' = events \o q /\ \A i \in DOMAIN q : q[i] \notin News
    <3>1. Replaced \in Events /\ Truncated \in Events /\ <<Replaced>> \in Seq(Events) /\ <<Truncated>> \in Seq(Events)
      BY EventTypes
    <3>2. /\ events = events \o <<>> /\ <<>> \in Seq(Events)
          /\ \A e \in Events : Append(events, e) = events \o <<e>>
      BY <1>0
    <3>3. /\ \A i \in DOMAIN <<>> : <<>>[i] \notin News
          /\ \A i \in DOMAIN <<Replaced>> : <<Replaced>>[i] \notin News
          /\ \A i \in DOMAIN <<Truncated>> : <<Truncated>>[i] \notin News
      BY NewsTypes
    <3>4. events' = events \o <<>> \/ events' = events \o <<Replaced>> \/ events' = events \o <<Truncated>>
      BY <2>1, <3>1, <3>2
    <3> QED BY <3>1, <3>2, <3>3, <3>4
  <2>5. pc' # "off" => UNCHANGED <<fd, down>>
    BY <2>2 DEF NewsInv, TypeOK
  <2>6. pc' \in {"stat", "reopen", "size", "read"} => fd' /\ ~down'
    BY <2>3, <2>5 DEF NewsInv
  <2> QED BY <2>2, <2>4, <2>5, <2>6, NewsFrame
<1> QED BY <1>1, <1>2, <1>3, <1>4, <1>5

-----------------------------------------------------------------------------
(* A file that is only appended to *)

\* What can happen to it.
LEMMA AppendOnlySteps ==
  ASSUME TypeOK, AppendOnly, FileInv, Next
  PROVE  /\ AppendOnly'
         /\ Grows => \E q \in {<<NL>>, <<lines + 1, NL>>} : Appends(q)
         /\ ~Grows => /\ Start \/ Stop \/ Tick \/ CheckAndOpen \/ Stat \/ Reopen \/ SizeSame \/ SizeChanged \/ Read \/ Save
                      /\ UNCHANGED <<content, inodeNo, lines>>
<1>1. UNCHANGED ops
  BY DEF Next, Writer, WriteLine, WriteText, WriteNewline, WriteBlank, TruncateFile, ReplaceFile, RemoveFile, CreateFile,
         Start, Stop, Crash, Tick, Scan, CheckAndOpen, StatFails, Stat, Reopen, SizeSame, SizeChanged, Read, Save, Change
<1>2. {"text", "truncate", "replace", "remove", "crash"} \cap ops = {}
  BY DEF AppendOnly
<1>3. Exists
  BY DEF FileInv, Exists, NoInode
<1>4. ~TruncateFile /\ ~ReplaceFile /\ ~RemoveFile /\ ~CreateFile /\ ~Crash /\ ~StatFails
  BY <1>2, <1>3 DEF TruncateFile, ReplaceFile, RemoveFile, CreateFile, Crash, StatFails, Change
<1>5. ASSUME Grows PROVE \E q \in {<<NL>>, <<lines + 1, NL>>} : Appends(q)
  <2> PICK q \in Seq(Units) : Appends(q)
    BY <1>5, Growing
  <2>1. q # <<lines + 1>>
    BY <1>2 DEF Appends
  <2>2. q \in {<<NL>>, <<lines + 1>>, <<lines + 1, NL>>}
    BY DEF Appends
  <2> QED BY <2>1, <2>2
<1>6. ASSUME ~Grows
      PROVE  /\ Start \/ Stop \/ Tick \/ CheckAndOpen \/ Stat \/ Reopen \/ SizeSame \/ SizeChanged \/ Read \/ Save
             /\ UNCHANGED <<content, inodeNo, lines>>
  <2>1. Start \/ Stop \/ Tick \/ CheckAndOpen \/ Stat \/ Reopen \/ SizeSame \/ SizeChanged \/ Read \/ Save
    BY <1>4, <1>6 DEF Next, Writer, Scan, Grows
  <2> QED BY <2>1 DEF Start, Stop, Tick, CheckAndOpen, Stat, Reopen, SizeSame, SizeChanged, Read, Save, disk
<1>7. AppendOnly'
  BY <1>1 DEF AppendOnly
<1> QED BY <1>5, <1>6, <1>7

\* What an append does to the texts.
LEMMA Appended ==
  ASSUME TypeOK, FileInv, NEW q \in {<<NL>>, <<lines + 1, NL>>}, Appends(q)
  PROVE  /\ Len(content) \in Nat /\ Len(content') \in Nat /\ Len(content') > Len(content) /\ content'[Len(content')] = NL
         /\ \A i \in Texts(0) : i \in Texts(0)' /\ content'[i] = content[i] /\ i <= Len(content)
         /\ q = <<NL>> => lines' = lines /\ Texts(0)' = Texts(0)
         /\ q # <<NL>> => /\ lines' = lines + 1 /\ content'[Len(content) + 1] = lines + 1
                          /\ Texts(0)' = Texts(0) \cup {Len(content) + 1}
<1>0. content \in Seq(Units) /\ NL \in Units /\ lines \in Nat /\ lines + 1 # NL
  BY LineBounds DEF TypeOK, Units, NL
<1>1. q \in Seq(Units)
  <2>1. q # <<NL>> => lines + 1 \in Units
    BY LineBounds DEF Appends, TypeOK, Units
  <2>2. CASE q = <<NL>>
    BY <1>0, <2>2
  <2>3. CASE q # <<NL>>
    <3>1. q = <<lines + 1, NL>>
      BY <2>3
    <3> QED BY <1>0, <2>1, <2>3, <3>1
  <2> QED BY <2>2, <2>3
<1>2. /\ Len(content) \in Nat /\ Len(content') = Len(content) + Len(q)
      /\ \A i \in 1..Len(content) : content'[i] = content[i]
      /\ \A i \in 1..Len(q) : content'[Len(content) + i] = q[i]
  BY <1>0, <1>1, UnitsConcat DEF Appends
<1>3. CASE q = <<NL>>
  <2>1. Len(content') = Len(content) + 1 /\ content'[Len(content) + 1] = NL
    BY <1>2, <1>3
  <2>2. Texts(0)' = Texts(0)
    BY <1>2, <2>1 DEF Texts
  <2>3. lines' = lines
    BY <1>3 DEF Appends
  <2>4. \A i \in Texts(0) : i \in 1..Len(content)
    BY <1>2 DEF Texts
  <2>5. \A i \in Texts(0) : i \in Texts(0)' /\ content'[i] = content[i] /\ i <= Len(content)
    BY <1>2, <2>2, <2>4
  <2>6. Len(content) \in Nat /\ Len(content') \in Nat /\ Len(content') > Len(content) /\ content'[Len(content')] = NL
    BY <1>2, <2>1
  <2>7. q # <<NL>> => /\ lines' = lines + 1 /\ content'[Len(content) + 1] = lines + 1
                      /\ Texts(0)' = Texts(0) \cup {Len(content) + 1}
    BY <1>3, Zenon
  <2> QED BY <2>2, <2>3, <2>5, <2>6, <2>7, Zenon
<1>4. CASE q = <<lines + 1, NL>>
  <2>1. /\ Len(content') = Len(content) + 2 /\ content'[Len(content) + 1] = lines + 1
        /\ content'[Len(content) + 2] = NL
    BY <1>2, <1>4
  <2>2. Texts(0)' = Texts(0) \cup {Len(content) + 1}
    <3>1. /\ 1..Len(content') = 1..Len(content) \cup {Len(content) + 1, Len(content) + 2}
          /\ Len(content) + 1 \notin 1..Len(content) /\ Len(content) + 2 \notin 1..Len(content)
      BY <1>2, <2>1
    <3>2. /\ Texts(0) = {i \in 1..Len(content) : content[i] # NL}
          /\ Texts(0)' = {i \in 1..Len(content') : content'[i] # NL}
      BY DEF Texts
    <3> QED BY <1>0, <1>2, <2>1, <3>1, <3>2
  <2>3. q # <<NL>> /\ lines' = lines + 1
    BY <1>4 DEF Appends
  <2>4. \A i \in Texts(0) : i \in 1..Len(content)
    BY <1>2 DEF Texts
  <2> QED BY <1>2, <2>1, <2>2, <2>3, <2>4
<1> QED BY <1>3, <1>4

LEMMA FileStep ==
  ASSUME TypeOK, AppendOnly, FileInv, Next
  PROVE  FileInv'
<1>0. lines \in Nat
  BY DEF TypeOK
<1>1. CASE Grows
  <2> PICK q \in {<<NL>>, <<lines + 1, NL>>} : Appends(q)
    BY <1>1, AppendOnlySteps
  <2>1. UNCHANGED inodeNo
    BY <1>1 DEF Grows, WriteLine, WriteText, WriteNewline, WriteBlank
  <2>2. Len(content') >= 1 /\ content'[Len(content')] = NL
    BY Appended DEF FileInv
  <2>3. CASE q = <<NL>>
    BY <2>1, <2>2, <2>3, Appended DEF FileInv
  <2>4. CASE q # <<NL>>
    <3>1. /\ lines' = lines + 1 /\ content'[Len(content) + 1] = lines + 1
          /\ Texts(0)' = Texts(0) \cup {Len(content) + 1}
          /\ \A i \in Texts(0) : content'[i] = content[i] /\ i <= Len(content) /\ content[i] <= lines /\ content[i] \in Int
      <4>1. \A i \in Texts(0) : content[i] \in Int
        <5>1. content \in Seq(Units) /\ \A u \in Units : u \in Int
          BY DEF TypeOK, Units
        <5>2. \A i \in 1..Len(content) : content[i] \in Units
          BY <5>1
        <5>3. Texts(0) \subseteq 1..Len(content)
          BY DEF Texts
        <5> QED BY <5>1, <5>2, <5>3
      <4> QED BY <2>4, <4>1, Appended DEF FileInv
    <3>2. \A i, j \in Texts(0)' : i < j => content'[i] < content'[j]
      <4>1. \A i, j \in Texts(0) : i < j => content[i] < content[j]
        BY DEF FileInv
      <4>2. Len(content) \in Nat /\ \A i \in Texts(0) : i \in Int
        BY Appended DEF Texts
      <4>3. \A i \in Texts(0) : ~(Len(content) + 1 < i)
        BY <3>1, <4>2
      <4>4. ~(Len(content) + 1 < Len(content) + 1)
        BY <4>2
      <4>5. \A i \in Texts(0) : content[i] < lines + 1
        BY <1>0, <3>1
      <4> QED BY <3>1, <4>1, <4>3, <4>4, <4>5
    <3>3. \A i \in Texts(0)' : content'[i] <= lines'
      BY <1>0, <3>1
    <3>4. \A n \in 1..lines' : \E i \in Texts(0)' : content'[i] = n
      <4>1. \A n \in 1..lines' : n \in 1..lines \/ n = lines + 1
        BY <1>0, <3>1
      <4> QED BY <3>1, <4>1 DEF FileInv
    <3> QED BY <2>1, <2>2, <3>2, <3>3, <3>4 DEF FileInv
  <2> QED BY <2>3, <2>4
<1>2. CASE UNCHANGED <<content, inodeNo, lines>>
  BY <1>2 DEF FileInv, Texts
<1> QED BY <1>1, <1>2, AppendOnlySteps DEF FileInv

\* It is continued at the saved position.
LEMMA StartContinues ==
  ASSUME FileInv, ScanInv, Start
  PROVE  /\ pc = "off" /\ pc' = "top" /\ inode' = 1 /\ size' = Len(content)
         /\ saved = NoState => pos' = Len(content)
         /\ saved # NoState => pos' = saved.pos
<1>1. inodeNo = 1 /\ Exists
  BY DEF FileInv, Exists, NoInode
<1>2. CASE saved = NoState
  BY <1>1, <1>2 DEF Start
<1>3. CASE saved # NoState
  <2>1. saved.inode = 1
    BY <1>3 DEF Start, ScanInv
  <2> QED BY <1>1, <1>3, <2>1 DEF Start
<1> QED BY <1>2, <1>3

LEMMA ScanStep ==
  ASSUME TypeOK, AppendOnly, FileInv, ScanInv, Next
  PROVE  ScanInv'
<1>0. /\ pos \in Int /\ size \in Int /\ statSize \in Int /\ Len(content) \in Nat /\ content \in Seq(Units)
      /\ inodeNo = 1 /\ Exists
  BY DEF TypeOK, Units, Failed, NoSize, FileInv, Exists, NoInode
<1>1. CASE Grows
  <2> PICK q \in {<<NL>>, <<lines + 1, NL>>} : Appends(q)
    BY <1>1, AppendOnlySteps
  <2>1. UNCHANGED <<pc, inode, pos, size, statSize, saved>>
    BY <1>1 DEF Grows, WriteLine, WriteText, WriteNewline, WriteBlank, scanner, reader, object
  <2>2. Len(content') \in Nat /\ Len(content) < Len(content')
    BY Appended
  <2>3. \A p : p \in 0..Len(content) => p \in 0..Len(content')
    BY <1>0, <2>2
  <2> QED BY <1>0, <2>1, <2>2, <2>3 DEF ScanInv
<1>2. CASE ~Grows
  <2>0. UNCHANGED <<content, inodeNo, lines>>
    BY <1>2, AppendOnlySteps
  <2>1. CASE Start
    <3>1. pos' \in 0..Len(content)
      BY <1>0, <2>1, StartContinues DEF ScanInv
    <3> QED BY <1>0, <2>0, <2>1, <3>1, StartContinues DEF ScanInv
  <2>2. CASE Stop
    BY <1>0, <2>0, <2>2 DEF Stop, ScanInv, Entry, object
  <2>3. CASE Tick \/ CheckAndOpen \/ SizeSame \/ Save
    <3>1. /\ UNCHANGED <<inode, pos, size>> /\ (pc' = pc \/ (pc # "off" /\ pc' \in {"top", "stat", "save"}))
          /\ UNCHANGED statSize /\ (pc = "off" => UNCHANGED saved)
      BY <2>3 DEF Tick, CheckAndOpen, SizeSame, Save, object
    <3> QED BY <1>0, <2>0, <3>1 DEF ScanInv
  <2>4. CASE Stat
    BY <1>0, <2>0, <2>4 DEF Stat, ScanInv
  <2>5. CASE Reopen
    BY <2>5 DEF Reopen, ScanInv
  <2>6. CASE SizeChanged
    BY <1>0, <2>0, <2>6 DEF SizeChanged, ScanInv
  <2>7. CASE Read
    <3> PICK at \in InFileOrder(GotLines) :
          /\ IF at # <<>> THEN pos' = TellPos(Last(at)) ELSE pos' = pos
          /\ at # <<>> => Last(at) \in GotLines
      BY <2>7, ReadPushes
    <3>1. \A x \in GotLines : x \in 1..Len(content) /\ x # Len(content)
      BY <1>0 DEF GotLines, Texts, FileInv, TypeOK, Failed
    <3>2. pos' \in 0..Len(content)
      <4>1. pos \in 0..Len(content)
        BY <2>7 DEF Read, ScanInv
      <4>2. CASE at # <<>>
        <5>1. Last(at) \in 1..Len(content) /\ Last(at) # Len(content) /\ pos' = Last(at) + 1
          BY <3>1, <4>2 DEF TellPos
        <5> QED BY <1>0, <5>1
      <4> QED BY <4>1, <4>2
    <3> QED BY <1>0, <2>0, <2>7, <3>2 DEF Read, ScanInv
  <2> QED BY <1>2, <2>1, <2>2, <2>3, <2>4, <2>5, <2>6, <2>7, AppendOnlySteps
<1> QED BY <1>1, <1>2

\* Control messages are no lines.
LEMMA SentFrame ==
  ASSUME TypeOK, SentInv, NEW q \in Seq(Events), events' = events \o q, \A i \in DOMAIN q : q[i] \in Controls,
         UNCHANGED <<content, lines>>,
         Begun => Begun', Begun' => (Begun /\ Reached' = Reached) \/ Reached' = Len(content)
  PROVE  SentInv'
<1>1. /\ events \in Seq(Events) /\ lines \in Nat /\ \A e \in Events : e \in Int
      /\ content \in Seq(Units) /\ \A u \in Units : u \in Int /\ u >= 0
  BY BoundsAssumption DEF TypeOK, Events, Units, Controls, Timeout, Started
<1>2. /\ \A i \in DOMAIN events' : \/ i \in DOMAIN events /\ events'[i] = events[i] /\ events[i] \in Int
                                   \/ events'[i] \in Int /\ events'[i] < 0
      /\ \A i \in DOMAIN events' : i \in Nat
  <2>1. \A i \in DOMAIN q : q[i] \in Int /\ q[i] < 0
    BY EventTypes, <1>1
  <2> QED BY <1>1, <2>1, EventsConcat
<1>3. Texts(0)' = Texts(0) /\ \A i \in Texts(0) : i \in 1..Len(content) /\ content[i] \in Int /\ content[i] >= 0
  <2>1. \A i \in Texts(0) : i \in 1..Len(content)
    BY DEF Texts
  <2>2. \A i \in 1..Len(content) : content[i] \in Units
    BY <1>1
  <2>3. Texts(0)' = Texts(0)
    BY DEF Texts
  <2> QED BY <1>1, <2>1, <2>2, <2>3
<1>4. Ascend'
  <2> SUFFICES ASSUME NEW i \in DOMAIN events', NEW j \in DOMAIN events', i < j, events'[i] > 0, events'[j] > 0
               PROVE  events'[i] < events'[j]
    BY DEF Ascend
  <2>1. \A k \in DOMAIN events' : events'[k] > 0 => k \in DOMAIN events /\ events'[k] = events[k]
    <3>1. \A x \in Int : x < 0 /\ x > 0 => FALSE
      OBVIOUS
    <3> QED BY <1>2, <3>1
  <2> QED BY <2>1 DEF SentInv, Ascend
<1>5. \A e \in DOMAIN events' : events'[e] <= lines
  BY <1>1, <1>2 DEF SentInv
<1>6. ASSUME ~Begun', NEW e \in DOMAIN events' PROVE events'[e] <= 0
  BY <1>2, <1>6 DEF SentInv
<1>7. ASSUME Begun', NEW i \in Texts(0), Reached' < i, NEW e \in DOMAIN events' PROVE events'[e] < content[i]
  <2>1. Len(content) \in Nat /\ i <= Len(content)
    BY <1>1, <1>3
  <2>2. Begun /\ Reached < i
    BY <1>7, <2>1, <1>3
  <2> QED BY <1>2, <1>3, <2>2 DEF SentInv
<1> QED BY <1>3, <1>4, <1>5, <1>6, <1>7 DEF SentInv

LEMMA SentGrows ==
  ASSUME TypeOK, AppendOnly, FileInv, SentInv, Next, Grows
  PROVE  SentInv'
<1> PICK q \in {<<NL>>, <<lines + 1, NL>>} : Appends(q)
  BY AppendOnlySteps
<1>1. UNCHANGED <<events, pc, pos, saved>>
  BY DEF Grows, WriteLine, WriteText, WriteNewline, WriteBlank, scanner, reader, object
<1>2. lines \in Nat /\ events \in Seq(Events) /\ \A e \in Events : e \in Int
  BY DEF TypeOK, Events, Controls, Timeout, Started
<1>3. \A e \in DOMAIN events : events[e] \in Int /\ events[e] <= lines
  BY <1>2 DEF SentInv
<1>4. lines' \in Nat /\ lines <= lines'
  BY <1>2, Appended
<1>5. \A i \in Texts(0)' : (i \in Texts(0) /\ content'[i] = content[i]) \/ content'[i] = lines + 1
  BY Appended
<1>6. \A e \in DOMAIN events : events[e] <= lines' /\ events[e] < lines + 1
  BY <1>2, <1>3, <1>4
<1>7. Begun' = Begun /\ Reached' = Reached /\ Ascend' = Ascend
  BY <1>1 DEF Begun, Reached, Ascend
<1> QED BY <1>1, <1>5, <1>6, <1>7 DEF SentInv

\* What is read is newer than what was pushed, and comes in its order.
LEMMA SentRead ==
  ASSUME TypeOK, AppendOnly, FileInv, ScanInv, SentInv, Read
  PROVE  SentInv'
<1> PICK at \in InFileOrder(GotLines), q \in Seq(Events) :
      /\ events' = events \o q /\ DOMAIN q = DOMAIN at
      /\ \A i \in DOMAIN at : at[i] \in 1..Len(content) /\ q[i] = content[at[i]] /\ q[i] \in 1..MaxLines
      /\ IF at # <<>> THEN pos' = TellPos(Last(at)) ELSE pos' = pos
  BY ReadPushes
<1>0. /\ events \in Seq(Events) /\ lines \in Nat /\ (\A e \in Events : e \in Int)
      /\ content \in Seq(Units) /\ Len(content) \in Nat
      /\ pc = "read" /\ pc' = "save" /\ pos \in 0..Len(content) /\ UNCHANGED <<content, lines>>
  BY DEF TypeOK, Events, Units, Controls, Timeout, Started, Read, ScanInv, disk
<1>1. GotLines = Texts(pos) /\ GotLines \subseteq 1..Len(content)
  BY <1>0 DEF GotLines, Texts, Failed, FileInv, Exists, NoInode
<1>2. /\ \A i \in DOMAIN at : at[i] \in GotLines
      /\ \A i, j \in DOMAIN at : i < j => at[i] < at[j]
      /\ at = <<>> <=> GotLines = {}
      /\ at # <<>> => Last(at) \in GotLines /\ \A x \in GotLines : x <= Last(at)
  BY <1>0, <1>1, TextsInOrder
<1>3. /\ \A x \in GotLines : x \in Texts(0) /\ pos < x
      /\ \A x \in Texts(0) : x \in GotLines \/ x <= pos
  BY <1>0, <1>1 DEF Texts
<1>4. \A i \in DOMAIN q : /\ q[i] = content[at[i]] /\ q[i] \in Int /\ q[i] > 0 /\ q[i] <= lines
                          /\ \A e \in DOMAIN events : events[e] < q[i]
  <2>1. Begun /\ Reached = pos
    BY <1>0 DEF Begun, Reached
  <2>2. \A x \in GotLines : content[x] <= lines /\ \A e \in DOMAIN events : events[e] < content[x]
    BY <1>3, <2>1 DEF FileInv, SentInv
  <2>3. \A i \in DOMAIN q : q[i] \in 1..MaxLines
    OBVIOUS
  <2>4. \A n \in 1..MaxLines : n \in Int /\ n > 0
    BY LineBounds
  <2> QED BY <1>2, <2>2, <2>3, <2>4
<1>5. \A i, j \in DOMAIN q : i < j => q[i] < q[j]
  <2> SUFFICES ASSUME NEW i \in DOMAIN q, NEW j \in DOMAIN q, i < j
               PROVE  q[i] < q[j]
    OBVIOUS
  <2>1. i \in DOMAIN at /\ j \in DOMAIN at
    OBVIOUS
  <2>2. at[i] \in Texts(0) /\ at[j] \in Texts(0) /\ at[i] < at[j]
    BY <1>2, <1>3, <2>1
  <2>3. content[at[i]] < content[at[j]]
    BY <2>2 DEF FileInv
  <2> QED BY <1>4, <2>3
<1>6. /\ \A i \in DOMAIN events : i \in 1..Len(events) /\ events'[i] = events[i]
      /\ \A i \in DOMAIN events' : \/ i \in DOMAIN events
                                   \/ i - Len(events) \in DOMAIN q /\ events'[i] = q[i - Len(events)] /\ ~(i <= Len(events))
      /\ DOMAIN events' \subseteq Nat /\ Len(events) \in Nat
  <2>1. /\ events \o q \in Seq(Events)
        /\ DOMAIN events = 1..Len(events) /\ DOMAIN q = 1..Len(q) /\ DOMAIN (events \o q) = 1..Len(events) + Len(q)
        /\ Len(events) \in Nat /\ Len(q) \in Nat
        /\ \A i \in 1..Len(events) : (events \o q)[i] = events[i]
        /\ \A i \in 1..Len(q) : (events \o q)[Len(events) + i] = q[i]
        /\ \A i \in DOMAIN (events \o q) : i \in DOMAIN events \/ (i - Len(events) \in DOMAIN q /\ Len(events) + (i - Len(events)) = i)
    BY <1>0, EventsConcat
  <2> QED BY <2>1
<1>7. Ascend'
  <2> SUFFICES ASSUME NEW i \in DOMAIN events', NEW j \in DOMAIN events', i < j, events'[i] > 0, events'[j] > 0
               PROVE  events'[i] < events'[j]
    BY DEF Ascend
  <2>1. i \in Nat /\ j \in Nat /\ Len(events) \in Nat
    BY <1>6
  <2>2. CASE i \in DOMAIN events /\ j \in DOMAIN events
    BY <1>6, <2>2 DEF SentInv, Ascend
  <2>3. CASE i \in DOMAIN events /\ j \notin DOMAIN events
    BY <1>4, <1>6, <2>3
  <2>4. CASE i \notin DOMAIN events /\ j \notin DOMAIN events
    <3>1. i - Len(events) < j - Len(events)
      BY <2>1
    <3> QED BY <1>5, <1>6, <2>4, <3>1
  <2>5. CASE i \notin DOMAIN events /\ j \in DOMAIN events
    <3>1. ~(i <= Len(events)) /\ j <= Len(events)
      BY <1>6, <2>5
    <3> QED BY <2>1, <3>1
  <2> QED BY <2>2, <2>3, <2>4, <2>5
<1>8. \A e \in DOMAIN events' : events'[e] <= lines'
  BY <1>0, <1>4, <1>6 DEF SentInv
<1>9. Begun' /\ Reached' = pos'
  BY <1>0 DEF Begun, Reached
<1>10. ASSUME NEW i \in Texts(0), pos' < i PROVE FALSE
  <2>1. i \in Int
    BY DEF Texts
  <2>2. CASE at = <<>>
    BY <1>0, <1>2, <1>3, <1>10, <2>1, <2>2
  <2>3. CASE at # <<>>
    <3>1. Last(at) \in GotLines /\ \A x \in GotLines : x <= Last(at)
      BY <1>2, <2>3
    <3>2. Last(at) \in 1..Len(content) /\ pos < Last(at) /\ Last(at) # Len(content)
      BY <1>0, <1>1, <1>3, <3>1 DEF FileInv, Texts
    <3>3. pos' = Last(at) + 1
      BY <2>3, <3>2 DEF TellPos
    <3>4. i <= pos \/ i <= Last(at)
      BY <1>3, <3>1
    <3> QED BY <1>0, <1>10, <2>1, <3>2, <3>3, <3>4
  <2> QED BY <2>2, <2>3
<1>11. Texts(0)' = Texts(0)
  BY <1>0 DEF Texts
<1> QED BY <1>7, <1>8, <1>9, <1>10, <1>11 DEF SentInv

LEMMA SentStep ==
  ASSUME TypeOK, AppendOnly, FileInv, ScanInv, SentInv, Next
  PROVE  SentInv'
<1>1. CASE Grows
  BY <1>1, SentGrows
<1>2. CASE Read
  BY <1>2, SentRead
<1>3. CASE ~Grows /\ ~Read
  <2>1. Start \/ Stop \/ Tick \/ CheckAndOpen \/ Stat \/ Reopen \/ SizeSame \/ SizeChanged \/ Save
    BY <1>3, AppendOnlySteps
  <2>2. UNCHANGED <<content, lines>>
    BY <1>3, AppendOnlySteps
  <2> PICK q \in Seq(Events) : events' = events \o q /\ \A i \in DOMAIN q : q[i] \in Controls
    BY <1>3, EventsGrow
  <2>3. inodeNo = 1 /\ Exists
    BY DEF FileInv, Exists, NoInode
  <2>4. CASE Start
    BY <2>2, <2>4, StartContinues, SentFrame DEF Begun, Reached
  <2>5. CASE Stop
    <3>1. pc # "off" /\ pc' = "off" /\ saved'.pos = pos /\ saved'.inode = 1
      BY <2>5 DEF Stop, Entry, ScanInv
    <3>2. saved' # NoState
      BY <3>1 DEF NoState, NoInode
    <3> QED BY <2>2, <3>1, <3>2, SentFrame DEF Begun, Reached
  <2>6. CASE Tick \/ CheckAndOpen \/ Stat \/ Reopen \/ SizeSame \/ SizeChanged \/ Save
    <3>1. /\ (pc = "off" /\ UNCHANGED <<pc, saved>>) \/ (pc # "off" /\ pc' # "off")
          /\ UNCHANGED pos \/ Stat \/ SizeChanged
      BY <2>6 DEF Tick, CheckAndOpen, Stat, Reopen, SizeSame, SizeChanged, Save, object
    <3>2. UNCHANGED pos
      <4>1. Stat => UNCHANGED pos
        BY <2>3 DEF Stat, ScanInv
      <4>2. SizeChanged => UNCHANGED pos
        <5>1. size \in Int /\ statSize \in Int
          BY DEF TypeOK, NoSize
        <5> QED BY <5>1 DEF SizeChanged, ScanInv
      <4> QED BY <3>1, <4>1, <4>2
    <3> QED BY <2>2, <3>1, <3>2, SentFrame DEF Begun, Reached
  <2> QED BY <2>1, <2>4, <2>5, <2>6
<1> QED BY <1>1, <1>2, <1>3

LEMMA OnceStep ==
  ASSUME TypeOK, OnceInv, Next
  PROVE  OnceInv'
<1>1. AppendOnly' = AppendOnly
  BY DEF AppendOnly, Next, Writer, WriteLine, WriteText, WriteNewline, WriteBlank, TruncateFile, ReplaceFile, RemoveFile,
         CreateFile, Start, Stop, Crash, Tick, Scan, CheckAndOpen, StatFails, Stat, Reopen, SizeSame, SizeChanged, Read,
         Save, Change
<1>2. ASSUME AppendOnly PROVE FileInv' /\ ScanInv' /\ SentInv'
  BY <1>2, FileStep, ScanStep, SentStep DEF OnceInv
<1> QED BY <1>1, <1>2 DEF OnceInv

-----------------------------------------------------------------------------
(* The invariant *)

LEMMA InitInv == Init => IInv
<1> SUFFICES ASSUME Init PROVE IInv
  OBVIOUS
<1>1. /\ lines = 1 /\ changes = 0 /\ pc = "off" /\ fd = FALSE /\ down = FALSE /\ pos = 0 /\ inode = NoInode /\ size = NoSize
      /\ triggered = FALSE /\ quiet = TRUE /\ statSize = 0 /\ saved = NoState /\ events = <<>> /\ skipped = {}
      /\ (content = <<1, NL>> /\ inodeNo = 1) \/ (content = <<>> /\ inodeNo = NoInode /\ "remove" \in ops)
  BY DEF Init
<1>2. 0 \in 0..MaxLines /\ 1 \in 0..MaxLines /\ 1 \in 1..MaxLines /\ 0 \in 0..MaxChanges
  BY BoundsAssumption
<1>3. TypeOK
  <2>1. content \in Seq(0..MaxLines)
    <3>1. \A S : 0 \in S /\ 1 \in S => <<1, 0>> \in Seq(S) /\ <<>> \in Seq(S)
      OBVIOUS
    <3> QED BY <1>1, <1>2, <3>1 DEF NL
  <2>2. saved \in [inode : Nat, pos : Nat \cup {Failed}]
    BY <1>1 DEF NoState, NoInode
  <2>3. events \in Seq(1..MaxLines \cup Controls) /\ inodeNo \in Nat /\ inode \in Nat
    BY <1>1 DEF NoInode
  <2>4. ops \in Workloads
    BY DEF Init
  <2> QED BY <1>1, <1>2, <2>1, <2>2, <2>3, <2>4 DEF TypeOK
<1>4. FreshInv
  BY <1>1 DEF FreshInv, Newest, Exists, NoState, NoInode
<1>5. CoverInv
  BY <1>1 DEF CoverInv
<1>6. NewsInv
  BY <1>1 DEF NewsInv, Alternate
<1>7. OnceInv
  <2> SUFFICES ASSUME AppendOnly PROVE FileInv /\ ScanInv /\ SentInv
    BY DEF OnceInv
  <2>1. content = <<1, NL>> /\ inodeNo = 1
    BY <1>1 DEF AppendOnly
  <2>2. Len(content) = 2 /\ content[1] = 1 /\ content[2] = NL
    BY <2>1
  <2>3. Texts(0) = {1}
    BY <2>2 DEF Texts, NL
  <2>4. FileInv
    BY <1>1, <2>1, <2>2, <2>3 DEF FileInv
  <2>5. ScanInv /\ SentInv
    BY <1>1 DEF ScanInv, SentInv, Ascend, Begun
  <2> QED BY <2>4, <2>5
<1> QED BY <1>3, <1>4, <1>5, <1>6, <1>7 DEF IInv

LEMMA Inductive == IInv /\ [Next]_vars => IInv'
<1> SUFFICES ASSUME IInv, [Next]_vars PROVE IInv'
  OBVIOUS
<1>1. CASE Next
  BY <1>1, TypeStep, FreshStep, CoverStep, NewsStep, OnceStep DEF IInv
<1>2. CASE UNCHANGED vars
  <2> USE <1>2 DEF vars, disk, object
  <2>1. TypeOK' = TypeOK
    BY DEF TypeOK
  <2>2. FreshInv' = FreshInv
    BY DEF FreshInv, Newest, Exists
  <2>3. CoverInv' = CoverInv
    BY DEF CoverInv, CoveredTo, Texts, Exists, Forwarded, Emitted
  <2>4. NewsInv' = NewsInv
    BY DEF NewsInv, Alternate, Answered
  <2>5. AppendOnly' = AppendOnly /\ FileInv' = FileInv /\ ScanInv' = ScanInv /\ SentInv' = SentInv
    BY DEF AppendOnly, FileInv, ScanInv, SentInv, Ascend, Begun, Reached, Texts
  <2> QED BY <2>1, <2>2, <2>3, <2>4, <2>5 DEF IInv, OnceInv
<1> QED BY <1>1, <1>2

LEMMA Invariance == Spec => []IInv
BY InitInv, Inductive, PTL DEF Spec

\* The positions, sizes and inodes the scan works with, and what it pushes, keep their
\* ranges (the members of logfile.hpp and logfile_task).
THEOREM TypeCorrect == Spec => []TypeOK
BY Invariance, PTL DEF IInv

\* Whatever happens to the file and to the daemon, no line in front of the position
\* in memory, or of the saved one that a daemon started after a crash continues
\* from, was skipped (logfile_task, save_state and get_state).
THEOREM NoLineIsSkipped == Spec => []NoLineSkipped
<1>1. IInv => NoLineSkipped
  <2> SUFFICES ASSUME IInv PROVE NoLineSkipped
    OBVIOUS
  <2>1. \A p : CoveredTo(p) => \A n \in Before(p) : Forwarded(n)
    BY DEF CoveredTo, Before
  <2> QED BY <2>1 DEF IInv, CoverInv, NoLineSkipped
<1> QED BY <1>1, Invariance, PTL

\* The reports that a file went down and that it came alive alternate, and the last
\* one agrees with what the daemon believes (the loop of logfile_task).
THEOREM ReportsAgree == Spec => []DownAndAliveAgree
<1>1. IInv => DownAndAliveAgree
  <2> SUFFICES ASSUME IInv PROVE DownAndAliveAgree
    OBVIOUS
  <2>1. events \in Seq(Events) /\ fd \in BOOLEAN /\ down \in BOOLEAN
    BY DEF IInv, TypeOK, Events
  <2>2. DOMAIN events = 1..Len(events) /\ Len(events) \in Nat
    BY <2>1
  <2>3. ASSUME NEW i \in DOMAIN events, NEW j \in DOMAIN events, i < j, events[i] = events[j],
               events[i] \in {WentDown, ComingAlive}
        PROVE  \E k \in i..j : events[k] \in News \ {events[i]}
    BY <2>3 DEF IInv, NewsInv, Alternate
  <2>4. ASSUME NEW i \in DOMAIN events, pc # "off", \A k \in i + 1 .. Len(events) : events[k] \notin News,
               NEW e \in {WentDown, ComingAlive}, events[i] = e
        PROVE  ~Answered(events, e)
    <3>1. \A k \in DOMAIN events : i < k => k \in i + 1 .. Len(events)
      BY <2>2
    <3> QED BY <2>4, <3>1 DEF Answered
  <2>5. ASSUME NEW i \in DOMAIN events, pc # "off", \A k \in i + 1 .. Len(events) : events[k] \notin News
        PROVE  (events[i] = WentDown => down \/ ~fd) /\ (events[i] = ComingAlive => fd /\ ~down)
    BY <2>4, <2>5 DEF IInv, NewsInv
  <2> QED BY <2>3, <2>5 DEF DownAndAliveAgree
<1> QED BY <1>1, Invariance, PTL

\* A file that only gets whole lines appended is forwarded line by line, each line
\* once, in order and without gaps, across orderly stops and restarts.
THEOREM LinesAreForwardedOnce == Spec => []ForwardedExactlyOnce
<1>1. IInv => ForwardedExactlyOnce
  <2> SUFFICES ASSUME IInv, AppendOnly
               PROVE  /\ Ascend
                      /\ \A n \in 1..lines : (\E m \in Emitted : n <= m) => Forwarded(n)
    BY DEF ForwardedExactlyOnce, Ascend
  <2>1. FileInv /\ ScanInv /\ SentInv /\ CoverInv /\ TypeOK
    BY DEF IInv, OnceInv
  <2>2. inodeNo = 1 /\ Exists
    BY <2>1 DEF FileInv, Exists, NoInode
  <2>3. ASSUME NEW n \in 1..lines, NEW m \in Emitted, n <= m PROVE Forwarded(n)
    <3> PICK e \in DOMAIN events : events[e] = m /\ m > 0
      BY DEF Emitted, ToSet
    <3>0. n \in Int /\ m \in Int /\ pos \in Int /\ saved.pos \in Int
      <4>1. events[e] \in Int
        BY <2>1 DEF TypeOK, Controls, Timeout, Started
      <4> QED BY <2>1, <4>1 DEF TypeOK, Failed
    <3> PICK i \in Texts(0) : content[i] = n
      BY <2>1 DEF FileInv
    <3>1. Begun
      BY <2>1, <3>0 DEF SentInv
    <3>2. i \in Int /\ Reached \in Int
      BY <3>0 DEF Texts, Reached
    <3>3. i <= Reached
      BY <2>1, <2>3, <3>0, <3>1, <3>2 DEF SentInv
    <3>4. CoveredTo(Reached)
      BY <2>1, <2>2, <3>1 DEF CoverInv, ScanInv, Begun, Reached
    <3> QED BY <3>3, <3>4 DEF CoveredTo
  <2> QED BY <2>1, <2>3 DEF SentInv
<1> QED BY <1>1, Invariance, PTL
================================================================================
