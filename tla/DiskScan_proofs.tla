---------------------------- MODULE DiskScan_proofs ----------------------------
(***************************************************************************)
(* For any directories, objects, changes and faults the blocks of a scan   *)
(* never meet a row of the database, the alerts tell what the database     *)
(* holds, and a scan that nothing interferes with leaves there what the    *)
(* disk holds.                                                             *)
(*                                                                         *)
(* The first two follow from IInv, the last one from IInv and ExactInv: a  *)
(* scan makes a claim about every object, and as long as a claim does not  *)
(* hold there is something in a queue that will make it true, behind       *)
(* whatever could make it false.                                           *)
(***************************************************************************)
EXTENDS DiskScan, FiniteSetTheorems, TLAPS

-----------------------------------------------------------------------------
(* What is read of an object, its row and what is told of it *)

\* Only a readable file has a checksum, only a link that was looked at a target.
WellRead(fd) ==
  /\ fd.type # "file" => fd.sha256 = Unset
  /\ fd.type # "link" \/ ~fd.checked => fd.target = ""

\* AlertsTellDatabase for one object.  A row keeps the sum and the target of what
\* the object has been before, so its type does not matter here.
Tells(tale, row) ==
  /\ tale.type = row.type
  /\ tale.attr = row.attr
  /\ row.sha256 \notin {NotComputed, Unset} => tale.sha256 = row.sha256
  /\ row.target \in {tale.target, ""}

Columns == {"type", "attr", "sha256", "target", "scanned"}

\* construct sets nothing that it has not looked at.
LEMMA ReadsWell ==
  ASSUME NEW object, NEW check
  PROVE  WellRead(Construct(object, check))
BY DEF WellRead, Construct

\* The alert and the row of an object of an earlier run, and of a new object.
LEMMA TellsOld ==
  ASSUME NEW fd, WellRead(fd)
  PROVE  Tells(TellRow(NewRow(fd)), NewRow(fd))
BY DEF WellRead, Tells, TellRow, NewRow

LEMMA TellsNew ==
  ASSUME NEW fd, WellRead(fd)
  PROVE  Tells(TellNew(fd), NewRow(fd))
BY DEF WellRead, Tells, TellNew, NewRow

\* The alert and the row of a changed object, told or not told of before.
LEMMA TellsChange ==
  ASSUME NEW tale, NEW row, NEW fd, Tells(tale, row), WellRead(fd)
  PROVE  Tells(TellChange(tale, row, fd), ChangedRow(row, fd))
BY DEF WellRead, Tells, TellChange, ChangedRow, ShaDiffers, TargetDiffers

\* The mark of a scan changes nothing.
LEMMA TellsMarked ==
  ASSUME NEW tale, NEW row, NEW mark, Tells(tale, row), DOMAIN row = Columns
  PROVE  /\ Tells(tale, [row EXCEPT !.scanned = mark])
         /\ DOMAIN [row EXCEPT !.scanned = mark] = Columns
BY DEF Tells, Columns

-----------------------------------------------------------------------------
(* Queues *)

\* Entries that are flags or paths.
Unread(q) == \E S : q \in Seq(S) /\ \A e \in S : e.kind # "data"

\* Entries whose object, if there is one, was read by construct.
Read(q) == \E S : q \in Seq(S) /\ \A e \in S : e.kind = "data" => WellRead(e.fd)

LEMMA EmptyQueues == Unread(<<>>) /\ Read(<<>>)
<1> DEFINE E == {}
<1>1. <<>> \in Seq(E)
  OBVIOUS
<1>2. \A e \in E : e.kind # "data" /\ WellRead(e.fd)
  OBVIOUS
<1> HIDE DEF E
<1> QED BY <1>1, <1>2 DEF Unread, Read

LEMMA UnreadAppend ==
  ASSUME NEW q, Unread(q), NEW e, e.kind # "data"
  PROVE  Unread(Append(q, e))
<1>1. PICK S : q \in Seq(S) /\ \A x \in S : x.kind # "data"
  BY DEF Unread
<1>2. Append(q, e) \in Seq(S \cup {e})
  BY <1>1
<1> QED BY <1>1, <1>2 DEF Unread

LEMMA UnreadTail ==
  ASSUME NEW q, Unread(q), q # <<>>
  PROVE  Unread(Tail(q)) /\ Head(q).kind # "data"
BY DEF Unread

LEMMA UnreadConcat ==
  ASSUME NEW p, NEW q, Unread(p), Unread(q)
  PROVE  Unread(p \o q)
<1>1. PICK S : p \in Seq(S) /\ \A x \in S : x.kind # "data"
  BY DEF Unread
<1>2. PICK T : q \in Seq(T) /\ \A x \in T : x.kind # "data"
  BY DEF Unread
<1>3. p \in Seq(S \cup T) /\ q \in Seq(S \cup T)
  BY <1>1, <1>2
<1>4. p \o q \in Seq(S \cup T)
  BY <1>3
<1> QED BY <1>1, <1>2, <1>4 DEF Unread

LEMMA ReadAppend ==
  ASSUME NEW q, Read(q), NEW e, e.kind = "data" => WellRead(e.fd)
  PROVE  Read(Append(q, e))
<1>1. PICK S : q \in Seq(S) /\ \A x \in S : x.kind = "data" => WellRead(x.fd)
  BY DEF Read
<1>2. Append(q, e) \in Seq(S \cup {e})
  BY <1>1
<1> QED BY <1>1, <1>2 DEF Read

LEMMA ReadTail ==
  ASSUME NEW q, Read(q), q # <<>>
  PROVE  Read(Tail(q)) /\ (Head(q).kind = "data" => WellRead(Head(q).fd))
BY DEF Read

LEMMA ReadConcat ==
  ASSUME NEW p, NEW q, Read(p), Read(q)
  PROVE  Read(p \o q)
<1>1. PICK S : p \in Seq(S) /\ \A x \in S : x.kind = "data" => WellRead(x.fd)
  BY DEF Read
<1>2. PICK T : q \in Seq(T) /\ \A x \in T : x.kind = "data" => WellRead(x.fd)
  BY DEF Read
<1>3. p \in Seq(S \cup T) /\ q \in Seq(S \cup T)
  BY <1>1, <1>2
<1>4. p \o q \in Seq(S \cup T)
  BY <1>3
<1> QED BY <1>1, <1>2, <1>4 DEF Read

\* The second phase of a scan is a finite sequence of paths.
LEMMA SecondPhaseUnread ==
  ASSUME NEW S, IsFiniteSet(S), NEW rows \in SetToSeqs(S)
  PROVE  Unread(SecondPhase(rows))
<1> DEFINE n == Cardinality(S)
           looks == [i \in DOMAIN rows |-> Look(rows[i], TRUE, TRUE)]
           L == {Look(path, TRUE, TRUE) : path \in S}
<1>1. n \in Nat /\ rows \in [1..n -> S]
  BY FS_CardinalityType DEF SetToSeqs
<1>2. looks \in [1..n -> L]
  BY <1>1
<1>3. looks \in Seq(L)
  <2> HIDE DEF looks, L, n
  <2> QED BY <1>1, <1>2
<1>4. \A e \in L : e.kind # "data"
  BY DEF Look
<1>5. Unread(looks)
  <2> HIDE DEF looks, L
  <2> QED BY <1>3, <1>4 DEF Unread
<1>6. Unread(<<Flag("ENDSCAN")>>)
  <2> DEFINE T == {Flag("ENDSCAN")}
  <2>1. <<Flag("ENDSCAN")>> \in Seq(T)
    OBVIOUS
  <2>2. \A e \in T : e.kind # "data"
    BY DEF Flag
  <2> HIDE DEF T
  <2> QED BY <2>1, <2>2 DEF Unread
<1> QED BY <1>5, <1>6, UnreadConcat DEF SecondPhase

-----------------------------------------------------------------------------
(* The database and what is told of it *)

\* What is told of each path, the rows, and the paths whose rows were rolled back.
Consistent(tales, rows, lost) ==
  /\ IsFiniteSet(DOMAIN rows)
  /\ \A path \in DOMAIN rows : DOMAIN rows[path] = Columns
  /\ Paths \subseteq DOMAIN tales
  /\ \A path \in Paths :
       IF path \in DOMAIN rows THEN Tells(tales[path], rows[path]) ELSE tales[path] = Untold \/ path \in lost

\* New rows with an alert for each of them.
LEMMA Inserting ==
  ASSUME NEW tales, NEW rows, NEW lost, Consistent(tales, rows, lost), NEW set, IsFiniteSet(DOMAIN set), NEW paths \in SUBSET DOMAIN set,
         \A path \in paths : WellRead(set[path])
  PROVE  Consistent(Over([path \in paths |-> TellNew(set[path])], tales), Over([path \in paths |-> NewRow(set[path])], rows), lost)
<1> DEFINE T == Over([path \in paths |-> TellNew(set[path])], tales)
           R == Over([path \in paths |-> NewRow(set[path])], rows)
<1>1. DOMAIN R = paths \cup DOMAIN rows /\ DOMAIN T = paths \cup DOMAIN tales
  BY DEF Over
<1>2. \A path \in DOMAIN R : R[path] = IF path \in paths THEN NewRow(set[path]) ELSE rows[path]
  BY DEF Over
<1>3. \A path \in DOMAIN T : T[path] = IF path \in paths THEN TellNew(set[path]) ELSE tales[path]
  BY DEF Over
<1>4. IsFiniteSet(DOMAIN R)
  BY <1>1, FS_Union, FS_Subset DEF Consistent
<1>5. \A path \in paths : DOMAIN NewRow(set[path]) = Columns
  BY DEF NewRow, Columns
<1>6. \A path \in paths : Tells(TellNew(set[path]), NewRow(set[path]))
  BY TellsNew
<1>7. Consistent(T, R, lost)
  <2> HIDE DEF T, R
  <2>1. \A path \in DOMAIN R : DOMAIN R[path] = Columns
    BY <1>1, <1>2, <1>5 DEF Consistent
  <2>2. Paths \subseteq DOMAIN T
    BY <1>1 DEF Consistent
  <2>3. ASSUME NEW path \in Paths
        PROVE  IF path \in DOMAIN R THEN Tells(T[path], R[path]) ELSE T[path] = Untold \/ path \in lost
    <3>1. CASE path \in paths
      BY <3>1, <1>1, <1>2, <1>3, <1>6
    <3>2. CASE path \notin paths
      <4>1. T[path] = tales[path] /\ (path \in DOMAIN R => R[path] = rows[path])
        BY <3>2, <2>2, <1>1, <1>2, <1>3
      <4> QED BY <3>2, <4>1, <1>1 DEF Consistent
    <3> QED BY <3>1, <3>2
  <2> QED BY <1>4, <2>1, <2>2, <2>3 DEF Consistent
<1> QED BY <1>7

\* The marks of a scan.
LEMMA Marking ==
  ASSUME NEW tales, NEW rows, NEW lost, Consistent(tales, rows, lost), NEW paths
  PROVE  Consistent(tales, Scanned(rows, paths), lost) /\ DOMAIN Scanned(rows, paths) = DOMAIN rows
<1>1. \A path \in DOMAIN rows :
        Scanned(rows, paths)[path] = [rows[path] EXCEPT !.scanned = rows[path].scanned \/ path \in paths]
  BY DEF Scanned
<1>2. DOMAIN Scanned(rows, paths) = DOMAIN rows
  BY DEF Scanned
<1>3. \A path \in DOMAIN rows : DOMAIN Scanned(rows, paths)[path] = Columns
  BY <1>1 DEF Consistent
<1>4. \A path \in Paths \cap DOMAIN rows : Tells(tales[path], Scanned(rows, paths)[path])
  <2> TAKE path \in Paths \cap DOMAIN rows
  <2> DEFINE mark == rows[path].scanned \/ path \in paths
  <2>1. Scanned(rows, paths)[path] = [rows[path] EXCEPT !.scanned = mark]
    BY <1>1
  <2>2. Tells(tales[path], rows[path]) /\ DOMAIN rows[path] = Columns
    BY DEF Consistent
  <2> HIDE DEF mark
  <2> QED BY <2>1, <2>2, TellsMarked
<1> QED BY <1>2, <1>3, <1>4 DEF Consistent

-----------------------------------------------------------------------------
(* The invariant *)

QueuesInv ==
  /\ Unread(eventQ)
  /\ Read(dataQ)
  /\ DOMAIN read = {"event", "rtevent"}
  /\ Read(read.event) /\ Read(read.rtevent)

BlockInv ==
  /\ IsFiniteSet(DOMAIN insertSet)
  /\ \A path \in DOMAIN insertSet : WellRead(insertSet[path])

DatabaseInv == Consistent(told, db, unsaved) /\ UnwrittenIsUnknown

IInv == QueuesInv /\ BlockInv /\ DatabaseInv

\* The database of an earlier run.
LEMMA InitInv == Init => IInv
<1> SUFFICES ASSUME Init PROVE IInv
  OBVIOUS
<1>1. PICK start \in Starts : db = [path \in DOMAIN start.known |-> NewRow(Construct(start.known[path], TRUE))]
  BY DEF Init
<1>2. IsFiniteSet(DOMAIN db)
  <2>1. Watched \subseteq Paths
    BY DirectoriesAssumption DEF Watched, Range
  <2>2. DOMAIN db \subseteq Paths
    BY <1>1, <2>1, StartsAssumption
  <2> QED BY <2>2, PathsAssumption, FS_Subset
<1>3. \A path \in DOMAIN db : DOMAIN db[path] = Columns
  BY <1>1 DEF NewRow, Columns
<1>4. \A path \in DOMAIN db : Tells(TellRow(db[path]), db[path])
  BY <1>1, ReadsWell, TellsOld
<1>5. told = [path \in Paths |-> IF path \in DOMAIN db THEN TellRow(db[path]) ELSE Untold]
  BY DEF Init
<1>6. Consistent(told, db, unsaved)
  BY <1>2, <1>3, <1>4, <1>5 DEF Consistent
<1>7. insertSet = <<>> /\ updateQ = <<>> /\ eventQ = <<>> /\ dataQ = <<>> /\ read = NoRead
  BY DEF Init
<1>8. IsFiniteSet(DOMAIN insertSet) /\ DOMAIN insertSet = {}
  BY <1>7, FS_EmptySet
<1> QED BY <1>6, <1>7, <1>8, EmptyQueues DEF IInv, QueuesInv, BlockInv, DatabaseInv, UnwrittenIsUnknown, NoRead

-----------------------------------------------------------------------------
(* The steps of the threads *)

\* What neither reads, pushes nor looks changes nothing of the invariant.
LEMMA Frame ==
  ASSUME IInv, UNCHANGED <<eventQ, dataQ, read, db, inScan, insertSet, updateQ, told, unsaved>>
  PROVE  IInv'
BY DEF IInv, QueuesInv, BlockInv, DatabaseInv, UnwrittenIsUnknown

\* main, the file system, the watch and the output thread.
LEMMA OtherThreads ==
  ASSUME IInv, \/ Main \/ MainScans \/ MainSignal \/ WatchEnds \/ OutputEnds \/ UNCHANGED vars
               \/ \E path \in Paths : Change(path)
  PROVE  IInv'
<1>1. UNCHANGED <<eventQ, dataQ, read, db, inScan, insertSet, updateQ, told, unsaved>>
  BY DEF Main, MainStarts, MainPolls, MainStops, MainAwaitsScan, MainExits, MainScans, MainSignal, Change, WatchEnds,
         OutputEnds, vars, queues, alertVars
<1> QED BY <1>1, Frame

\* scan_task pushes flags and paths.
LEMMA Scanning ==
  ASSUME IInv, Scan
  PROVE  IInv'
<1> USE DEF IInv, QueuesInv, BlockInv, DatabaseInv, UnwrittenIsUnknown
<1>1. Unread(eventQ') => IInv'
  BY DEF Scan, ScanEnds, ScanPasses, ScanOpens, ScanLists, ScanFails, queues, alertVars
<1>2. CASE ScanEnds
  BY <1>1, <1>2, UnreadAppend DEF ScanEnds, KILL, Flag
<1>3. CASE ScanPasses
  BY <1>1, <1>3, UnreadAppend DEF ScanPasses, Flag
<1>4. CASE ScanOpens
  BY <1>1, <1>4 DEF ScanOpens
<1>5. CASE \E path \in Paths : ScanLists(path)
  BY <1>1, <1>5, UnreadAppend DEF ScanLists, Look
<1>6. CASE ScanFails
  BY <1>1, <1>6 DEF ScanFails, queues
<1> QED BY <1>2, <1>3, <1>4, <1>5, <1>6 DEF Scan

\* What construct returns.
LEMMA ReadsRead ==
  ASSUME NEW look
  PROVE  Read(ReadObject(look))
<1> DEFINE e == Data(look.path, Construct(disk[look.path], look.check), look.force)
           S == {e}
<1>1. e.kind = "data" => WellRead(e.fd)
  BY ReadsWell DEF Data
<1>2. <<e>> \in Seq(S) /\ \A x \in S : x.kind = "data" => WellRead(x.fd)
  BY <1>1
<1>3. ReadObject(look) = <<e>>
  BY DEF ReadObject
<1> HIDE DEF e, S
<1> QED BY <1>2, <1>3 DEF Read

\* event_task and rtevent_task take flags and paths, read and push.
LEMMA Reading ==
  ASSUME IInv, Event \/ RtEvent
  PROVE  IInv'
<1> USE DEF IInv, QueuesInv, BlockInv, DatabaseInv, UnwrittenIsUnknown
<1>1. QueuesInv' => IInv'
  BY DEF Event, RtEvent, EventEnds, EventPasses, EventReads, EventPushes, EventThrows,
         RtEventEnds, RtEventReads, RtEventPushes, RtEventThrows, alertVars
<1>2. ASSUME NEW flag, flag # "data"
      PROVE  Read(Append(dataQ, Flag(flag)))
  BY <1>2, ReadAppend DEF Flag
<1>3. CASE EventEnds
  BY <1>1, <1>2, <1>3, UnreadTail DEF EventEnds, EventReady
<1>4. CASE EventPasses
  BY <1>1, <1>2, <1>4, UnreadTail DEF EventPasses, EventReady, Flag
<1>5. CASE EventReads
  BY <1>1, <1>5, UnreadTail, ReadsRead DEF EventReads, EventReady
<1>6. CASE EventPushes
  BY <1>1, <1>6, ReadConcat, EmptyQueues DEF EventPushes
<1>7. CASE EventThrows
  BY <1>1, <1>2, <1>7, UnreadTail DEF EventThrows, EventReady, KILL
<1>8. CASE RtEventEnds
  BY <1>1, <1>2, <1>8 DEF RtEventEnds, KILL
<1>9. CASE RtEventReads
  BY <1>1, <1>9, ReadsRead DEF RtEventReads
<1>10. CASE RtEventPushes
  BY <1>1, <1>10, ReadConcat, EmptyQueues DEF RtEventPushes
<1>11. CASE RtEventThrows
  BY <1>1, <1>2, <1>11 DEF RtEventThrows, KILL
<1> QED BY <1>3, <1>4, <1>5, <1>6, <1>7, <1>8, <1>9, <1>10, <1>11 DEF Event, RtEvent

-----------------------------------------------------------------------------
(* alert_task *)

\* The rest of dataQ, and the object at its head.
LEMMA Taking ==
  ASSUME IInv, AlertReady, dataQ' = Tail(dataQ)
  PROVE  Read(dataQ') /\ (Head(dataQ).kind = "data" => WellRead(Head(dataQ).fd))
BY ReadTail DEF IInv, QueuesInv, AlertReady

\* What the blocks of the next step hold was read by construct.
LEMMA Blocks ==
  ASSUME IInv, AlertReady
  PROVE  /\ IsFiniteSet(DOMAIN Flushing) /\ \A path \in DOMAIN Flushing : WellRead(Flushing[path])
         /\ Head(dataQ).kind = "data" =>
              IsFiniteSet(DOMAIN Collected) /\ \A path \in DOMAIN Collected : WellRead(Collected[path])
<1>1. ASSUME Head(dataQ).kind = "data"
      PROVE  IsFiniteSet(DOMAIN Collected) /\ \A path \in DOMAIN Collected : WellRead(Collected[path])
  <2>1. WellRead(Head(dataQ).fd)
    BY <1>1, ReadTail DEF IInv, QueuesInv, AlertReady
  <2>2. DOMAIN Collected = {Head(dataQ).path} \cup DOMAIN insertSet
    BY DEF Collected, Object, Over
  <2>3. \A path \in DOMAIN Collected :
          Collected[path] = IF path = Head(dataQ).path THEN Head(dataQ).fd ELSE insertSet[path]
    BY DEF Collected, Object, Over
  <2>4. IsFiniteSet(DOMAIN Collected)
    <3>1. IsFiniteSet(DOMAIN insertSet \cup {Head(dataQ).path})
      BY FS_AddElement DEF IInv, BlockInv
    <3> QED BY <3>1, <2>2
  <2> QED BY <2>1, <2>2, <2>3, <2>4 DEF IInv, BlockInv
<1>2. Flushing \in {insertSet, <<>>} \/ (Head(dataQ).kind = "data" /\ Flushing = Collected)
  BY DEF Flushing
<1>3. IsFiniteSet(DOMAIN <<>>) /\ DOMAIN <<>> = {}
  BY FS_EmptySet
<1> QED BY <1>1, <1>2, <1>3 DEF IInv, BlockInv

\* Rows and alerts of what a block holds.
LEMMA Writing ==
  ASSUME IInv, NEW set, IsFiniteSet(DOMAIN set), NEW paths \in SUBSET DOMAIN set,
         \A path \in paths : WellRead(set[path]), InsertRows(set, paths), UNCHANGED unsaved
  PROVE  Consistent(told', db', unsaved') /\ DOMAIN db' = paths \cup DOMAIN db
<1>1. Consistent(told', db', unsaved')
  BY Inserting DEF IInv, DatabaseInv, InsertRows
<1> QED BY <1>1 DEF InsertRows, Over

\* A signal, !KILL, a flag of a scan.
LEMMA AlertFlags ==
  ASSUME IInv, AlertEnds \/ AlertStartsScan \/ AlertMidScan \/ AlertEndsScan
  PROVE  IInv'
<1> USE DEF IInv, QueuesInv, BlockInv, DatabaseInv, UnwrittenIsUnknown
<1>1. IsFiniteSet(DOMAIN <<>>) /\ DOMAIN <<>> = {}
  BY FS_EmptySet
<1>2. CASE AlertEnds
  BY <1>1, <1>2, Taking DEF AlertEnds, AlertReturns
<1>3. CASE AlertStartsScan
  <2>1. Consistent(told, db', unsaved) /\ DOMAIN db' = DOMAIN db
    <3>1. db' = [path \in DOMAIN db |-> [db[path] EXCEPT !.scanned = FALSE]]
      BY <1>3 DEF AlertStartsScan
    <3>2. \A path \in DOMAIN db : DOMAIN [db[path] EXCEPT !.scanned = FALSE] = Columns
      BY DEF Consistent
    <3>3. ASSUME NEW path \in Paths \cap DOMAIN db
          PROVE  Tells(told[path], [db[path] EXCEPT !.scanned = FALSE])
      BY TellsMarked DEF Consistent
    <3>4. DOMAIN db' = DOMAIN db /\ \A path \in DOMAIN db : db'[path] = [db[path] EXCEPT !.scanned = FALSE]
      BY <3>1
    <3> QED BY <3>2, <3>3, <3>4 DEF Consistent
  <2> QED BY <1>3, <2>1, Taking DEF AlertStartsScan, AlertTakes, otherThreads
<1>4. CASE AlertMidScan
  <2> DEFINE R == Over([path \in DOMAIN insertSet |-> NewRow(insertSet[path])], db)
             T == Over([path \in DOMAIN insertSet |-> TellNew(insertSet[path])], told)
  <2>1. Consistent(T, R, unsaved)
    BY Inserting
  <2>2. Consistent(told', db', unsaved')
    <3> HIDE DEF T, R
    <3>1. Consistent(T, Scanned(R, Range(updateQ)), unsaved)
      BY <2>1, Marking
    <3>2. told' = T /\ db' = Scanned(R, Range(updateQ)) /\ unsaved' = unsaved
      BY <1>4 DEF AlertMidScan, otherThreads, T, R
    <3> QED BY <3>1, <3>2
  <2>3. PICK rows \in SetToSeqs({path \in DOMAIN db : ~db[path].scanned}) : eventQ' = eventQ \o SecondPhase(rows)
    BY <1>4 DEF AlertMidScan
  <2>4. IsFiniteSet({path \in DOMAIN db : ~db[path].scanned})
    BY FS_Subset DEF Consistent
  <2>5. Unread(eventQ')
    BY <2>3, <2>4, SecondPhaseUnread, UnreadConcat
  <2> QED BY <1>1, <1>4, <2>2, <2>5, Taking DEF AlertMidScan, AlertTakes, otherThreads
<1>5. CASE AlertEndsScan
  BY <1>5, Taking DEF AlertEndsScan, AlertTakes, otherThreads, alertVars
<1> QED BY <1>2, <1>3, <1>4, <1>5

\* What has neither a row nor got an alert before is told of, and has no row.
LEMMA RollingBack ==
  ASSUME IInv, AlertReady, NEW paths \in SUBSET DOMAIN Flushing, RollBack(paths)
  PROVE  Consistent(told', db', unsaved')
<1>1. paths \cap DOMAIN db = {}
  <2>1. DOMAIN insertSet \cap DOMAIN db = {}
    BY DEF IInv, DatabaseInv, UnwrittenIsUnknown
  <2>2. DOMAIN Collected = {Head(dataQ).path} \cup DOMAIN insertSet
    BY DEF Collected, Object, Over
  <2>3. DOMAIN <<>> = {}
    BY FS_EmptySet
  <2>4. \/ Flushing = insertSet \/ Flushing = <<>>
        \/ Flushing = Collected /\ Head(dataQ).path \notin DOMAIN db
    BY DEF Flushing
  <2> QED BY <2>1, <2>2, <2>3, <2>4
<1>2. db' = db /\ unsaved' = unsaved \cup paths
  BY DEF RollBack
<1>3. Paths \subseteq DOMAIN told' /\ \A path \in Paths \ paths : told'[path] = told[path]
  BY DEF RollBack, Over, IInv, DatabaseInv, Consistent
<1> QED BY <1>1, <1>2, <1>3 DEF IInv, DatabaseInv, Consistent

\* An exception: some rows of a block are written, with their alerts, or rolled
\* back.
LEMMA AlertFails ==
  ASSUME IInv, AlertThrows
  PROVE  IInv'
<1> USE DEF IInv, QueuesInv, BlockInv, DatabaseInv, UnwrittenIsUnknown
<1>1. PICK paths \in SUBSET DOMAIN Flushing : InsertSome(paths) \/ RollBack(paths)
  BY DEF AlertThrows
<1>2. Consistent(told', db', unsaved')
  <2>1. CASE InsertSome(paths)
    BY <2>1, Blocks, Writing DEF AlertThrows, AlertTakes, InsertSome
  <2>2. CASE RollBack(paths)
    BY <2>2, RollingBack DEF AlertThrows, AlertTakes
  <2> QED BY <1>1, <2>1, <2>2
<1>3. IsFiniteSet(DOMAIN <<>>) /\ DOMAIN <<>> = {}
  BY FS_EmptySet
<1>4. Unread(eventQ')
  <2>1. ASSUME NEW rows \in SetToSeqs({path \in DOMAIN db : ~db[path].scanned}), eventQ' = eventQ \o SecondPhase(rows)
        PROVE  Unread(eventQ')
    <3>1. IsFiniteSet({path \in DOMAIN db : ~db[path].scanned})
      BY FS_Subset DEF Consistent
    <3> QED BY <2>1, <3>1, SecondPhaseUnread, UnreadConcat
  <2> QED BY <2>1 DEF AlertThrows
<1> QED BY <1>2, <1>3, <1>4, Taking DEF AlertThrows, AlertTakes, AlertReturns

\* What every look at an object leaves alone.
LEMMA Looking ==
  ASSUME IInv, NEW known, NEW exists, AlertLooks(known, exists), BlockInv', DatabaseInv'
  PROVE  IInv'
<1>1. Read(dataQ')
  BY Taking DEF AlertLooks, AlertTakes
<1> QED BY <1>1 DEF AlertLooks, AlertTakes, otherThreads, IInv, QueuesInv

\* A look rolls nothing back.
LEMMA LooksSave ==
  ASSUME NEW known, NEW exists, AlertLooks(known, exists)
  PROVE  unsaved' = unsaved
BY DEF AlertLooks, otherThreads

\* An object that the database knows: gone, changed, or as it was.
LEMMA AlertKnown ==
  ASSUME IInv, AlertDeletes \/ AlertChanges \/ AlertRefreshes
  PROVE  IInv'
<1> DEFINE at == Head(dataQ).path
           fd == Head(dataQ).fd
<1>1. CASE AlertDeletes
  <2>1. db' = [path \in DOMAIN db \ {at} |-> db[path]] /\ told' = [told EXCEPT ![at] = Untold] /\ unsaved' = unsaved
    BY <1>1, LooksSave DEF AlertDeletes
  <2>2. IsFiniteSet(DOMAIN db')
    BY <2>1, FS_Subset DEF IInv, DatabaseInv, Consistent
  <2>3. Consistent(told', db', unsaved')
    <3> HIDE DEF at
    <3> QED BY <2>1, <2>2 DEF IInv, DatabaseInv, Consistent
  <2>4. BlockInv' /\ DatabaseInv'
    BY <1>1, <2>1, <2>3 DEF AlertDeletes, AlertLooks, IInv, BlockInv, DatabaseInv, UnwrittenIsUnknown
  <2> QED BY <1>1, <2>4, Looking DEF AlertDeletes
<1>2. CASE AlertChanges
  <2>1. /\ db' = [db EXCEPT ![at] = ChangedRow(db[at], fd)]
        /\ told' = [told EXCEPT ![at] = TellChange(told[at], db[at], fd)]
        /\ at \in DOMAIN db /\ unsaved' = unsaved
    BY <1>2, LooksSave DEF AlertChanges, AlertLooks
  <2>2. WellRead(fd)
    BY <1>2, Taking DEF AlertChanges, AlertLooks, AlertTakes
  <2>3. DOMAIN ChangedRow(db[at], fd) = Columns
    BY DEF ChangedRow, Columns
  <2>4. at \in Paths => Tells(TellChange(told[at], db[at], fd), ChangedRow(db[at], fd))
    BY <2>1, <2>2, TellsChange DEF IInv, DatabaseInv, Consistent
  <2>5. Consistent(told', db', unsaved')
    <3> HIDE DEF at, fd
    <3> QED BY <2>1, <2>3, <2>4 DEF IInv, DatabaseInv, Consistent
  <2>6. BlockInv' /\ DatabaseInv'
    BY <1>2, <2>1, <2>5 DEF AlertChanges, AlertLooks, IInv, BlockInv, DatabaseInv, UnwrittenIsUnknown
  <2> QED BY <1>2, <2>6, Looking DEF AlertChanges
<1>3. CASE AlertRefreshes
  <2>1. /\ \/ db' = db
           \/ \E paths : db' = Scanned(db, paths)
        /\ UNCHANGED <<told, insertSet, inScan, unsaved>>
    BY <1>3, LooksSave DEF AlertRefreshes, AlertLooks
  <2>2. Consistent(told', db', unsaved') /\ DOMAIN db' = DOMAIN db
    BY <2>1, Marking DEF IInv, DatabaseInv
  <2>3. ~inScan => updateQ' = updateQ
    BY <1>3 DEF AlertRefreshes
  <2>4. BlockInv' /\ DatabaseInv'
    BY <2>1, <2>2, <2>3 DEF IInv, BlockInv, DatabaseInv, UnwrittenIsUnknown
  <2> QED BY <1>3, <2>4, Looking DEF AlertRefreshes
<1> QED BY <1>1, <1>2, <1>3

\* An object that the database does not know: gone again, written at once, or
\* collected.
LEMMA AlertUnknown ==
  ASSUME IInv, AlertIgnores \/ AlertInserts \/ AlertCollects
  PROVE  IInv'
<1> DEFINE at == Head(dataQ).path
<1>1. CASE AlertIgnores
  <2>1. BlockInv' /\ DatabaseInv'
    BY <1>1, LooksSave DEF AlertIgnores, AlertLooks, IInv, BlockInv, DatabaseInv, UnwrittenIsUnknown
  <2> QED BY <1>1, <2>1, Looking DEF AlertIgnores
<1>2. CASE AlertInserts
  <2>1. DOMAIN Object = {at} /\ Object[at] = Head(dataQ).fd /\ IsFiniteSet({at})
    BY FS_Singleton DEF Object
  <2>2. WellRead(Head(dataQ).fd)
    BY <1>2, Taking DEF AlertInserts, AlertLooks, AlertTakes
  <2>3. Consistent(told', db', unsaved')
    BY <1>2, <2>1, <2>2, Writing, LooksSave DEF AlertInserts
  <2>4. BlockInv' /\ DatabaseInv'
    BY <1>2, <2>3 DEF AlertInserts, AlertLooks, IInv, BlockInv, DatabaseInv, UnwrittenIsUnknown
  <2> QED BY <1>2, <2>4, Looking DEF AlertInserts
<1>3. CASE AlertCollects
  <2>1. /\ IsFiniteSet(DOMAIN Collected)
        /\ \A path \in DOMAIN Collected : WellRead(Collected[path])
    BY <1>3, Blocks DEF AlertCollects, AlertLooks, AlertTakes
  <2>2. DOMAIN Collected = {at} \cup DOMAIN insertSet /\ at \notin DOMAIN db /\ unsaved' = unsaved
    BY <1>3, LooksSave DEF Collected, Object, Over, AlertCollects, AlertLooks
  <2>3. CASE BlockIsFull(Collected)
    <3>1. InsertRows(Collected, DOMAIN Collected) /\ insertSet' = <<>>
      BY <1>3, <2>3 DEF AlertCollects, Rest
    <3>2. Consistent(told', db', unsaved')
      BY <3>1, <2>1, <2>2, Writing
    <3>3. IsFiniteSet(DOMAIN <<>>) /\ DOMAIN <<>> = {}
      BY FS_EmptySet
    <3>4. BlockInv' /\ DatabaseInv'
      BY <1>3, <3>1, <3>2, <3>3 DEF AlertCollects, AlertLooks, IInv, BlockInv, DatabaseInv, UnwrittenIsUnknown
    <3> QED BY <1>3, <3>4, Looking DEF AlertCollects
  <2>4. CASE ~BlockIsFull(Collected)
    <3>1. UNCHANGED <<db, told>> /\ insertSet' = Collected
      BY <1>3, <2>4 DEF AlertCollects, Rest
    <3>2. BlockInv' /\ DatabaseInv'
      BY <1>3, <2>1, <2>2, <3>1 DEF AlertCollects, AlertLooks, IInv, BlockInv, DatabaseInv, UnwrittenIsUnknown
    <3> QED BY <1>3, <3>2, Looking DEF AlertCollects
  <2> QED BY <2>3, <2>4
<1> QED BY <1>1, <1>2, <1>3

-----------------------------------------------------------------------------
(* What a scan puts right *)

\* The entries of the queues, without !KILL.
Looks(paths) == {Look(path, check, force) : path \in paths, check \in BOOLEAN, force \in BOOLEAN}
Marks == {Flag("STARTSCAN"), Flag("MIDSCAN"), Flag("ENDSCAN")}
Lists == {List(d) : d \in DOMAIN Directories}
Datas == {Data(path, Construct(object, check), force) :
            path \in Paths, object \in Objects \cup {Gone}, check \in BOOLEAN, force \in BOOLEAN}

\* No thread has been told to end; or the scan of a single run is over, after which
\* main pushes !KILL.
Working == running /\ ~errors /\ (singlerun => scanRunning)
Ended   == running /\ ~errors /\ singlerun /\ ~scanRunning

\* A claim of a scan about an object as it is: its shape (whether it is there, its
\* type and its attributes), or its content.  Below the watched directories there
\* is one about every path, elsewhere only about paths with nothing.
Claims ==
  {[path |-> path, object |-> disk[path], about |-> about] :
     path \in {path \in Paths : path \in Watched \/ ~Exists(disk[path])}, about \in {"shape", "content"}}

\* What was read of an object does not contradict a claim.
Right(fd, claim) ==
  IF claim.about = "shape"
  THEN fd.exists = Exists(claim.object) /\ fd.type = claim.object.type /\ fd.attr = claim.object.attr
  ELSE /\ claim.object.type = "file" /\ fd.checked => fd.sha256 \in {claim.object.content, NotComputed, Unset}
       /\ claim.object.type = "link" => fd.target \in {claim.object.content, ""}
Wrong(e, claim) == e.kind = "data" /\ e.path = claim.path /\ ~Right(e.fd, claim)

\* An entry of a queue that makes a claim true: the object as it is, a look at
\* it, its directory, or the flag that starts the search for rows without objects.
Fixes(e, claim) ==
  \/ /\ e.kind = "data" /\ e.path = claim.path
     /\ \E check \in BOOLEAN : e.fd = Construct(claim.object, check) /\ (claim.about = "content" => check)
  \/ e.kind = "look" /\ e.path = claim.path /\ (claim.about = "content" => e.check)
  \/ e.kind = "list" /\ Exists(claim.object) /\ claim.path \in Directories[e.dir]
  \/ e = Flag("STARTSCAN") /\ ~Exists(claim.object)
FixIn(q, claim) == \E i \in DOMAIN q : Fixes(q[i], claim)
\* Behind whatever is wrong there is something that fixes it, in the queue or as fix says.
Clean(q, claim, fix) ==
  \A i \in DOMAIN q : Wrong(q[i], claim) => fix \/ \E j \in DOMAIN q : j > i /\ Fixes(q[j], claim)

\* What the alert thread has of an object agrees with a claim.
Holds(claim) ==
  LET stored == claim.path \in DOMAIN db
      kept   == claim.path \in DOMAIN insertSet
      row    == db[claim.path]
      fd     == insertSet[claim.path]
  IN  IF claim.about = "content"
      THEN /\ stored /\ claim.object.type = "file" /\ claim.object.readable =>
                row.sha256 \in {claim.object.content, NotComputed, Unset}
           /\ stored /\ claim.object.type = "link" /\ claim.object.readable => row.target \in {claim.object.content, ""}
           /\ kept => Right(fd, claim)
      ELSE IF Exists(claim.object)
      THEN \/ stored /\ row.type = claim.object.type /\ row.attr = claim.object.attr
           \/ kept /\ Right(fd, claim)
      ELSE (stored \/ kept) => claim.path \in overlooked

\* The row of an object that is gone is going to be looked for by AlertMidScan.
Unfound(claim) ==
  inScan /\ ~Exists(claim.object) /\ claim.path \in DOMAIN db \ Range(updateQ) /\ ~db[claim.path].scanned

\* What fixes a claim behind what event_task has read, and behind dataQ.
BehindEvent(claim) ==
  FixIn(eventQ, claim) \/ FixIn(scanQ, claim) \/ (Exists(claim.object) /\ claim.path \in listing)
BehindData(claim) ==
  FixIn(read.event, claim) \/ FixIn(read.rtevent, claim) \/ FixIn(rtQ, claim) \/ BehindEvent(claim)

\* A claim holds or will; and nothing wrong in dataQ or about to be pushed there is
\* the last that is said of its object.
ClaimKept(claim) ==
  /\ Holds(claim) \/ Unfound(claim) \/ FixIn(dataQ, claim) \/ BehindData(claim)
  /\ Clean(dataQ, claim, BehindData(claim))
  /\ \A i \in DOMAIN read.event : Wrong(read.event[i], claim) => BehindEvent(claim)

\* Whether alert_task is in the first phase of a scan, before and after an entry.
Turns(before, e, after) ==
  IF e = Flag("STARTSCAN") THEN ~before /\ after
  ELSE IF e = Flag("MIDSCAN") THEN before /\ ~after
  ELSE before = after
\* STARTSCAN and MIDSCAN take turns in all queues, from what alert_task does now
\* to the end of the last scan that was requested.
Run(before, q, after) ==
  \E phase \in [0..Len(q) -> BOOLEAN] :
    phase[0] = before /\ phase[Len(q)] = after /\ \A i \in 1..Len(q) : Turns(phase[i-1], q[i], phase[i])
PhasesInv ==
  \E m, n \in BOOLEAN : Run(inScan, dataQ, m) /\ Run(m, eventQ, n) /\ Run(n, scanQ, FALSE)

\* Nothing is behind a flag, neither in its queue nor in those before it.
LastIn(q, flag, rest) == \A i \in DOMAIN q : q[i] = flag => i = Len(q) /\ rest
IsLast(flag) ==
  /\ LastIn(dataQ, flag, read.event = <<>> /\ eventQ = <<>> /\ listing = {} /\ scanQ = <<>>)
  /\ LastIn(eventQ, flag, listing = {} /\ scanQ = <<>>)
  /\ LastIn(scanQ, flag, TRUE)

\* An event thread holds one object at most.
OneRead(reads) == reads = <<>> \/ \E d \in Datas : reads = <<d>>

EntriesInv ==
  /\ scanQ \in Seq(Lists \cup Marks)
  /\ eventQ \in Seq(Looks(Paths) \cup Marks)
  /\ rtQ \in Seq(Looks(Realtime))
  /\ dataQ \in Seq(Datas \cup Marks)
  /\ OneRead(read.event)
  /\ read.rtevent = <<>> \/ \E d \in Datas : d.path \in Realtime /\ read.rtevent = <<d>>

\* Nobody has ended.  A single run has no realtime events and only one scan.
ThreadsInv ==
  /\ done = {} /\ ~killed
  /\ main = "waiting" \/ (main = "starting" /\ ~singlerun)
  /\ main = "starting" \/ singlerun => rtQ = <<>> /\ read.rtevent = <<>>
  /\ singlerun => IsLast(Flag("MIDSCAN")) /\ IsLast(Flag("ENDSCAN"))

\* Behind what rtevent_task has read of an object that has changed since, there is
\* an event.
RtInv ==
  \A i \in DOMAIN read.rtevent, about \in {"shape", "content"} :
    LET d == read.rtevent[i]
        claim == [path |-> d.path, object |-> disk[d.path], about |-> about]
    IN  Wrong(d, claim) => FixIn(rtQ, claim)

StateInv ==
  /\ disk \in [Paths -> Objects \cup {Gone}] /\ changes \in [Paths -> Seq(Objects \cup {Gone})]
  /\ singlerun \in BOOLEAN /\ quiet \in BOOLEAN /\ inScan \in BOOLEAN /\ running \in BOOLEAN /\ errors \in BOOLEAN
  /\ scanRunning \in BOOLEAN
  /\ running /\ ~errors =>
       listing \subseteq Paths /\ DOMAIN db \subseteq Paths /\ DOMAIN insertSet \subseteq Paths /\ updateQ \in Seq(Paths)

AllHold == \A claim \in Claims : Holds(claim)
WorkInv == EntriesInv /\ ThreadsInv /\ RtInv /\ PhasesInv

\* After the scan of a single run !KILL is all that passes through the queues.
EndInv ==
  /\ scanQ \in Seq({KILL}) /\ eventQ \in Seq({KILL}) /\ dataQ \in Seq({KILL})
  /\ rtQ = <<>> /\ read.event = <<>> /\ read.rtevent = <<>> /\ listing = {} /\ ~inScan
  /\ quiet => AllHold
ClaimsInv == quiet => \A claim \in Claims : ClaimKept(claim)

ExactInv == StateInv /\ (Working => WorkInv /\ ClaimsInv) /\ (Ended => EndInv)

-----------------------------------------------------------------------------
(* Queues and claims *)

\* What fixes a claim in a queue that has grown or shrunk.
LEMMA FixAppend ==
  ASSUME NEW S, NEW q \in Seq(S), NEW e, NEW claim
  PROVE  FixIn(Append(q, e), claim) <=> FixIn(q, claim) \/ Fixes(e, claim)
<1>1. /\ Len(q) \in Nat /\ DOMAIN q = 1..Len(q) /\ DOMAIN Append(q, e) = 1..Len(q) + 1
      /\ \A i \in 1..Len(q) : Append(q, e)[i] = q[i]
      /\ Append(q, e)[Len(q) + 1] = e
  <2>1. q \in Seq(S \cup {e})
    OBVIOUS
  <2> QED BY <2>1
<1>2. \A i \in DOMAIN Append(q, e) : i \in DOMAIN q \/ i = Len(q) + 1
  BY <1>1
<1>3. Len(q) + 1 \in DOMAIN Append(q, e) /\ \A i \in DOMAIN q : i \in DOMAIN Append(q, e)
  BY <1>1
<1> QED BY <1>1, <1>2, <1>3 DEF FixIn

LEMMA FixTail ==
  ASSUME NEW S, NEW q \in Seq(S), q # <<>>, NEW claim
  PROVE  FixIn(q, claim) <=> Fixes(Head(q), claim) \/ FixIn(Tail(q), claim)
<1>1. /\ Len(q) \in Nat \ {0} /\ DOMAIN q = 1..Len(q) /\ DOMAIN Tail(q) = 1..Len(q) - 1
      /\ Head(q) = q[1] /\ \A i \in 1..Len(q) - 1 : Tail(q)[i] = q[i + 1]
  OBVIOUS
<1>2. \A i \in DOMAIN q : i = 1 \/ (i - 1 \in DOMAIN Tail(q) /\ Tail(q)[i - 1] = q[i])
  BY <1>1
<1>3. 1 \in DOMAIN q /\ \A i \in DOMAIN Tail(q) : i + 1 \in DOMAIN q
  BY <1>1
<1> QED BY <1>1, <1>2, <1>3 DEF FixIn

LEMMA FixConcat ==
  ASSUME NEW S, NEW p \in Seq(S), NEW q \in Seq(S), NEW claim
  PROVE  FixIn(p \o q, claim) <=> FixIn(p, claim) \/ FixIn(q, claim)
<1>1. /\ Len(p) \in Nat /\ DOMAIN p = 1..Len(p) /\ Len(q) \in Nat /\ DOMAIN q = 1..Len(q)
      /\ DOMAIN (p \o q) = 1..Len(p) + Len(q)
      /\ \A i \in 1..Len(p) : (p \o q)[i] = p[i]
      /\ \A i \in 1..Len(q) : (p \o q)[Len(p) + i] = q[i]
  OBVIOUS
<1>2. \A i \in DOMAIN (p \o q) : i \in DOMAIN p \/ (i - Len(p) \in DOMAIN q /\ (p \o q)[i] = q[i - Len(p)])
  BY <1>1
<1>3. /\ \A i \in DOMAIN p : i \in DOMAIN (p \o q)
      /\ \A i \in DOMAIN q : Len(p) + i \in DOMAIN (p \o q)
  BY <1>1
<1> QED BY <1>1, <1>2, <1>3 DEF FixIn

\* What is pushed either is right, or there is something that fixes it later.
LEMMA CleanAppend ==
  ASSUME NEW S, NEW q \in Seq(S), NEW e, NEW claim, NEW fix \in BOOLEAN, NEW later \in BOOLEAN,
         Clean(q, claim, fix), fix => later \/ Fixes(e, claim), Wrong(e, claim) => later
  PROVE  Clean(Append(q, e), claim, later)
<1>1. /\ Len(q) \in Nat /\ DOMAIN q = 1..Len(q) /\ DOMAIN Append(q, e) = 1..Len(q) + 1
      /\ \A i \in 1..Len(q) : Append(q, e)[i] = q[i]
      /\ Append(q, e)[Len(q) + 1] = e
  <2>1. q \in Seq(S \cup {e})
    OBVIOUS
  <2> QED BY <2>1
<1>2. SUFFICES ASSUME NEW i \in DOMAIN Append(q, e), Wrong(Append(q, e)[i], claim), ~later
               PROVE  \E j \in DOMAIN Append(q, e) : j > i /\ Fixes(Append(q, e)[j], claim)
  BY DEF Clean
<1>3. i \in 1..Len(q) /\ Wrong(q[i], claim)
  BY <1>1, <1>2
<1>4. CASE fix
  <2>1. Fixes(Append(q, e)[Len(q) + 1], claim) /\ Len(q) + 1 > i /\ Len(q) + 1 \in DOMAIN Append(q, e)
    BY <1>1, <1>2, <1>3, <1>4
  <2> QED BY <2>1
<1>5. CASE ~fix
  <2>1. PICK j \in DOMAIN q : j > i /\ Fixes(q[j], claim)
    BY <1>1, <1>3, <1>5 DEF Clean
  <2>2. j \in DOMAIN Append(q, e) /\ Append(q, e)[j] = q[j]
    BY <1>1
  <2> QED BY <2>1, <2>2
<1> QED BY <1>4, <1>5

\* What is taken is right, or there is something that fixes it in the rest.
LEMMA CleanTail ==
  ASSUME NEW S, NEW q \in Seq(S), q # <<>>, NEW claim, NEW fix \in BOOLEAN, Clean(q, claim, fix)
  PROVE  /\ Clean(Tail(q), claim, fix)
         /\ Wrong(Head(q), claim) => fix \/ FixIn(Tail(q), claim)
<1>1. /\ Len(q) \in Nat \ {0} /\ DOMAIN q = 1..Len(q) /\ DOMAIN Tail(q) = 1..Len(q) - 1
      /\ Head(q) = q[1] /\ \A i \in 1..Len(q) - 1 : Tail(q)[i] = q[i + 1]
  OBVIOUS
<1>2. \A i \in DOMAIN q : i > 1 => i - 1 \in DOMAIN Tail(q) /\ Tail(q)[i - 1] = q[i]
  BY <1>1
<1>3. ASSUME NEW i \in DOMAIN Tail(q), Wrong(Tail(q)[i], claim), ~fix
      PROVE  \E j \in DOMAIN Tail(q) : j > i /\ Fixes(Tail(q)[j], claim)
  <2>1. i + 1 \in DOMAIN q /\ Wrong(q[i + 1], claim)
    BY <1>1, <1>3
  <2>2. PICK j \in DOMAIN q : j > i + 1 /\ Fixes(q[j], claim)
    BY <1>3, <2>1 DEF Clean
  <2>3. j - 1 \in DOMAIN Tail(q) /\ Tail(q)[j - 1] = q[j] /\ j - 1 > i
    BY <1>1, <1>2, <2>2
  <2> QED BY <2>2, <2>3
<1>4. ASSUME Wrong(Head(q), claim), ~fix
      PROVE  FixIn(Tail(q), claim)
  <2>1. PICK j \in DOMAIN q : j > 1 /\ Fixes(q[j], claim)
    BY <1>1, <1>4 DEF Clean
  <2> QED BY <1>2, <2>1 DEF FixIn
<1> QED BY <1>3, <1>4 DEF Clean

\* More that is fixed.
LEMMA CleanMore ==
  ASSUME NEW q, NEW claim, NEW fix \in BOOLEAN, NEW later \in BOOLEAN, Clean(q, claim, fix), fix => later
  PROVE  Clean(q, claim, later)
BY DEF Clean

-----------------------------------------------------------------------------
(* The phases of alert_task *)

\* The phases of a queue that has grown or shrunk.
LEMMA RunEmpty ==
  ASSUME NEW before, NEW after
  PROVE  Run(before, <<>>, after) => before = after
BY DEF Run

LEMMA RunAppend ==
  ASSUME NEW S, NEW q \in Seq(S), NEW e, NEW before \in BOOLEAN, NEW m \in BOOLEAN, NEW after \in BOOLEAN,
         Run(before, q, m), Turns(m, e, after)
  PROVE  Run(before, Append(q, e), after)
<1>1. /\ Len(q) \in Nat /\ Len(Append(q, e)) = Len(q) + 1
      /\ \A i \in 1..Len(q) : Append(q, e)[i] = q[i]
      /\ Append(q, e)[Len(q) + 1] = e
  <2>1. q \in Seq(S \cup {e})
    OBVIOUS
  <2> QED BY <2>1
<1>2. PICK f \in [0..Len(q) -> BOOLEAN] : f[0] = before /\ f[Len(q)] = m /\ \A i \in 1..Len(q) : Turns(f[i-1], q[i], f[i])
  BY DEF Run
<1> DEFINE g == [i \in 0..Len(q) + 1 |-> IF i = Len(q) + 1 THEN after ELSE f[i]]
<1>3. g \in [0..Len(q) + 1 -> BOOLEAN] /\ g[0] = before /\ g[Len(q) + 1] = after
  BY <1>1, <1>2
<1>4. ASSUME NEW i \in 1..Len(q) + 1
      PROVE  Turns(g[i - 1], Append(q, e)[i], g[i])
  <2>1. CASE i \in 1..Len(q)
    <3>1. g[i - 1] = f[i - 1] /\ g[i] = f[i]
      BY <1>1, <2>1
    <3> HIDE DEF g
    <3> QED BY <1>1, <1>2, <2>1, <3>1
  <2>2. CASE i = Len(q) + 1
    <3>1. g[i - 1] = m /\ g[i] = after
      BY <1>1, <1>2, <2>2
    <3> HIDE DEF g
    <3> QED BY <1>1, <2>2, <3>1
  <2> QED BY <1>1, <2>1, <2>2
<1> HIDE DEF g
<1> QED BY <1>1, <1>3, <1>4 DEF Run

LEMMA RunTail ==
  ASSUME NEW S, NEW q \in Seq(S), q # <<>>, NEW before \in BOOLEAN, NEW after \in BOOLEAN, Run(before, q, after)
  PROVE  \E m \in BOOLEAN : Turns(before, Head(q), m) /\ Run(m, Tail(q), after)
<1>1. /\ Len(q) \in Nat \ {0} /\ Len(Tail(q)) = Len(q) - 1
      /\ Head(q) = q[1] /\ \A i \in 1..Len(q) - 1 : Tail(q)[i] = q[i + 1]
  OBVIOUS
<1>2. PICK f \in [0..Len(q) -> BOOLEAN] :
        f[0] = before /\ f[Len(q)] = after /\ \A i \in 1..Len(q) : Turns(f[i-1], q[i], f[i])
  BY DEF Run
<1> DEFINE g == [i \in 0..Len(q) - 1 |-> f[i + 1]]
<1>3. g \in [0..Len(q) - 1 -> BOOLEAN] /\ g[0] = f[1] /\ g[Len(q) - 1] = after
  BY <1>1, <1>2
<1>4. ASSUME NEW i \in 1..Len(q) - 1
      PROVE  Turns(g[i - 1], Tail(q)[i], g[i])
  <2>1. g[i - 1] = f[(i + 1) - 1] /\ g[i] = f[i + 1] /\ i + 1 \in 1..Len(q)
    BY <1>1
  <2> HIDE DEF g
  <2> QED BY <1>1, <1>2, <2>1
<1>5. Run(f[1], Tail(q), after)
  <2> HIDE DEF g
  <2> QED BY <1>1, <1>3, <1>4 DEF Run
<1>6. Turns(before, Head(q), f[1]) /\ f[1] \in BOOLEAN
  BY <1>1, <1>2
<1> QED BY <1>5, <1>6

LEMMA RunConcat ==
  ASSUME NEW S, NEW p \in Seq(S), NEW q \in Seq(S), NEW before \in BOOLEAN, NEW m \in BOOLEAN, NEW after \in BOOLEAN,
         Run(before, p, m), Run(m, q, after)
  PROVE  Run(before, p \o q, after)
<1>1. /\ Len(p) \in Nat /\ Len(q) \in Nat /\ Len(p \o q) = Len(p) + Len(q)
      /\ \A i \in 1..Len(p) : (p \o q)[i] = p[i]
      /\ \A i \in 1..Len(p) + Len(q) : i > Len(p) => (p \o q)[i] = q[i - Len(p)]
  OBVIOUS
<1>2. PICK f \in [0..Len(p) -> BOOLEAN] : f[0] = before /\ f[Len(p)] = m /\ \A i \in 1..Len(p) : Turns(f[i-1], p[i], f[i])
  BY DEF Run
<1>3. PICK g \in [0..Len(q) -> BOOLEAN] : g[0] = m /\ g[Len(q)] = after /\ \A i \in 1..Len(q) : Turns(g[i-1], q[i], g[i])
  BY DEF Run
<1> DEFINE h == [i \in 0..Len(p) + Len(q) |-> IF i <= Len(p) THEN f[i] ELSE g[i - Len(p)]]
<1>4. h \in [0..Len(p) + Len(q) -> BOOLEAN] /\ h[0] = before
  BY <1>1, <1>2, <1>3
<1>5. h[Len(p) + Len(q)] = after
  <2>1. CASE Len(q) = 0
    BY <1>1, <1>2, <1>3, <2>1
  <2>2. CASE Len(q) > 0
    BY <1>1, <1>3, <2>2
  <2> QED BY <1>1, <2>1, <2>2
<1>6. ASSUME NEW i \in 1..Len(p) + Len(q)
      PROVE  Turns(h[i - 1], (p \o q)[i], h[i])
  <2>1. CASE i <= Len(p)
    <3>1. h[i - 1] = f[i - 1] /\ h[i] = f[i] /\ i \in 1..Len(p)
      BY <1>1, <2>1
    <3> HIDE DEF h
    <3> QED BY <1>1, <1>2, <3>1
  <2>2. CASE i > Len(p)
    <3> DEFINE k == i - Len(p)
    <3>1. k \in 1..Len(q) /\ k - 1 \in 0..Len(q)
      BY <1>1, <2>2
    <3>2. h[i] = g[k]
      BY <1>1, <2>2
    <3>3. h[i - 1] = g[k - 1]
      <4>1. CASE i - 1 = Len(p)
        BY <1>1, <1>2, <1>3, <4>1
      <4>2. CASE i - 1 > Len(p)
        BY <1>1, <4>2
      <4>3. i - 1 = Len(p) \/ i - 1 > Len(p)
        <5>1. i \in Nat /\ Len(p) \in Nat
          BY <1>1
        <5> QED BY <2>2, <5>1
      <4> QED BY <4>1, <4>2, <4>3
    <3>4. (p \o q)[i] = q[k]
      BY <1>1, <2>2
    <3> HIDE DEF h, k
    <3> QED BY <1>3, <3>1, <3>2, <3>3, <3>4
  <2> QED BY <1>1, <2>1, <2>2
<1> HIDE DEF h
<1> QED BY <1>1, <1>4, <1>5, <1>6 DEF Run

\* Entries that turn nothing.
LEMMA RunSteady ==
  ASSUME NEW S, NEW q \in Seq(S), \A e \in S : e \notin {Flag("STARTSCAN"), Flag("MIDSCAN")}, NEW m \in BOOLEAN
  PROVE  Run(m, q, m)
<1> DEFINE f == [i \in 0..Len(q) |-> m]
<1>1. Len(q) \in Nat /\ \A i \in 1..Len(q) : q[i] \in S
  OBVIOUS
<1>2. f \in [0..Len(q) -> BOOLEAN] /\ \A i \in 0..Len(q) : f[i] = m
  OBVIOUS
<1>3. \A i \in 1..Len(q) : i - 1 \in 0..Len(q) /\ i \in 0..Len(q)
  BY <1>1
<1> HIDE DEF f
<1>4. \A i \in 1..Len(q) : Turns(f[i - 1], q[i], f[i])
  BY <1>1, <1>2, <1>3 DEF Turns
<1> QED BY <1>1, <1>2, <1>4 DEF Run

\* The last entry of a queue that has grown or shrunk, or of what is behind it.
LEMMA LastTail ==
  ASSUME NEW S, NEW q \in Seq(S), q # <<>>, NEW flag, NEW rest \in BOOLEAN, LastIn(q, flag, rest)
  PROVE  LastIn(Tail(q), flag, rest) /\ (Head(q) = flag => Tail(q) = <<>> /\ rest)
<1>1. /\ Len(q) \in Nat \ {0} /\ DOMAIN q = 1..Len(q) /\ DOMAIN Tail(q) = 1..Len(q) - 1 /\ Len(Tail(q)) = Len(q) - 1
      /\ Head(q) = q[1] /\ \A i \in 1..Len(q) - 1 : Tail(q)[i] = q[i + 1]
      /\ Len(q) = 1 => Tail(q) = <<>>
  <2>1. Tail(q) \in Seq(S) /\ \A r \in Seq(S) : Len(r) = 0 => r = <<>>
    OBVIOUS
  <2>2. Len(q) = 1 => Len(Tail(q)) = 0
    OBVIOUS
  <2> QED BY <2>1, <2>2
<1>2. LastIn(Tail(q), flag, rest)
  <2> SUFFICES ASSUME NEW i \in DOMAIN Tail(q), Tail(q)[i] = flag PROVE i = Len(Tail(q)) /\ rest
    BY DEF LastIn
  <2>1. i \in Nat /\ i + 1 \in DOMAIN q /\ q[i + 1] = flag
    BY <1>1
  <2>2. i + 1 = Len(q) /\ rest
    BY <2>1 DEF LastIn
  <2>3. i = Len(q) - 1
    <3>1. i \in Nat /\ Len(q) \in Nat
      BY <1>1
    <3> QED BY <2>2, <3>1
  <2> QED BY <1>1, <2>2, <2>3
<1>3. Head(q) = flag => Tail(q) = <<>> /\ rest
  BY <1>1 DEF LastIn
<1> QED BY <1>2, <1>3

LEMMA LastAppend ==
  ASSUME NEW S, NEW q \in Seq(S), NEW e, NEW flag, NEW rest \in BOOLEAN, NEW later \in BOOLEAN,
         LastIn(q, flag, rest), ~rest, e = flag => later
  PROVE  LastIn(Append(q, e), flag, later)
<1>1. /\ Len(q) \in Nat /\ DOMAIN q = 1..Len(q) /\ DOMAIN Append(q, e) = 1..Len(q) + 1 /\ Len(Append(q, e)) = Len(q) + 1
      /\ \A i \in 1..Len(q) : Append(q, e)[i] = q[i]
      /\ Append(q, e)[Len(q) + 1] = e
  <2>1. q \in Seq(S \cup {e})
    OBVIOUS
  <2> QED BY <2>1
<1> SUFFICES ASSUME NEW i \in DOMAIN Append(q, e), Append(q, e)[i] = flag PROVE i = Len(Append(q, e)) /\ later
  BY DEF LastIn
<1>2. i \notin DOMAIN q
  BY <1>1 DEF LastIn
<1>3. i = Len(q) + 1
  BY <1>1, <1>2
<1> QED BY <1>1, <1>3

LEMMA LastNowhere ==
  ASSUME NEW q, NEW flag, NEW rest \in BOOLEAN, NEW later \in BOOLEAN, LastIn(q, flag, rest), rest => later
  PROVE  LastIn(q, flag, later)
BY DEF LastIn

-----------------------------------------------------------------------------
(* The threads while nothing has ended *)

\* What kind of entries the queues have.
LEMMA Kinds ==
  /\ \A paths : \A e \in Looks(paths) : e.kind = "look" /\ e.path \in paths /\ e.check \in BOOLEAN /\ e.force \in BOOLEAN
  /\ \A e \in Lists : e.kind = "list" /\ e.dir \in DOMAIN Directories
  /\ \A e \in Datas :
       /\ e.kind = "data" /\ e.path \in Paths /\ e.force \in BOOLEAN
       /\ \E object \in Objects \cup {Gone}, check \in BOOLEAN : e.fd = Construct(object, check)
  /\ \A e \in Marks : e.kind \in {"STARTSCAN", "MIDSCAN", "ENDSCAN"} /\ e = Flag(e.kind)
  /\ KILL.kind = "KILL"
  /\ \A flag : Flag(flag).kind = flag
<1>1. \A paths : \A e \in Looks(paths) : e.kind = "look" /\ e.path \in paths /\ e.check \in BOOLEAN /\ e.force \in BOOLEAN
  BY DEF Looks, Look
<1>2. \A e \in Lists : e.kind = "list" /\ e.dir \in DOMAIN Directories
  BY DEF Lists, List
<1>3. ASSUME NEW e \in Datas
      PROVE  /\ e.kind = "data" /\ e.path \in Paths /\ e.force \in BOOLEAN
             /\ \E object \in Objects \cup {Gone}, check \in BOOLEAN : e.fd = Construct(object, check)
  BY DEF Datas, Data
<1>4. \A flag : Flag(flag).kind = flag
  BY DEF Flag
<1>5. \A e \in Marks : e.kind \in {"STARTSCAN", "MIDSCAN", "ENDSCAN"} /\ e = Flag(e.kind)
  BY DEF Marks, Flag
<1>6. KILL.kind = "KILL"
  BY <1>4 DEF KILL
<1> QED BY <1>1, <1>2, <1>3, <1>4, <1>5, <1>6

\* What is at the head of a queue is no !KILL.
LEMMA Heads ==
  ASSUME EntriesInv
  PROVE  /\ scanQ # <<>> => Head(scanQ) \in Lists \cup Marks /\ Head(scanQ) # KILL
         /\ eventQ # <<>> => Head(eventQ) \in Looks(Paths) \cup Marks /\ Head(eventQ) # KILL
         /\ rtQ # <<>> => Head(rtQ) \in Looks(Realtime) /\ Head(rtQ) # KILL
         /\ dataQ # <<>> => Head(dataQ) \in Datas \cup Marks /\ Head(dataQ) # KILL
<1>1. KILL \notin Lists \cup Marks \cup Looks(Paths) \cup Looks(Realtime) \cup Datas
  <2>1. KILL \notin Lists
    BY Kinds
  <2>2. KILL \notin Marks
    BY Kinds
  <2>3. KILL \notin Looks(Paths) /\ KILL \notin Looks(Realtime)
    BY Kinds
  <2>4. KILL \notin Datas
    BY Kinds
  <2> QED BY <2>1, <2>2, <2>3, <2>4
<1>2. \A S : \A q \in Seq(S) : q # <<>> => Head(q) \in S
  OBVIOUS
<1>3. scanQ # <<>> => Head(scanQ) \in Lists \cup Marks
  BY <1>2 DEF EntriesInv
<1>4. eventQ # <<>> => Head(eventQ) \in Looks(Paths) \cup Marks
  BY <1>2 DEF EntriesInv
<1>5. rtQ # <<>> => Head(rtQ) \in Looks(Realtime)
  BY <1>2 DEF EntriesInv
<1>6. dataQ # <<>> => Head(dataQ) \in Datas \cup Marks
  BY <1>2 DEF EntriesInv
<1> QED BY <1>1, <1>3, <1>4, <1>5, <1>6

\* The steps that end no thread.
WorkStep ==
  \/ MainStarts \/ MainScans \/ (\E path \in Paths : Change(path))
  \/ ScanPasses \/ ScanOpens \/ (\E path \in Paths : ScanLists(path)) \/ ScanFails
  \/ EventPasses \/ EventReads \/ EventPushes \/ RtEventReads \/ RtEventPushes
  \/ AlertStartsScan \/ AlertMidScan \/ (AlertEndsScan /\ ~singlerun)
  \/ AlertIgnores \/ AlertDeletes \/ AlertChanges \/ AlertRefreshes \/ AlertInserts \/ AlertCollects
  \/ UNCHANGED vars

\* What ends a run, a daemon or a scan is never taken back.
LEMMA Before ==
  ASSUME [Next]_vars
  PROVE  singlerun' = singlerun /\ (running' => running) /\ (errors => errors')
<1>1. CASE Main \/ MainScans \/ MainSignal
  BY <1>1 DEF Main, MainStarts, MainPolls, MainSignal, MainStops, MainAwaitsScan, MainExits, MainScans, constVars
<1>2. CASE WatchEnds \/ OutputEnds
  BY <1>2 DEF WatchEnds, OutputEnds, mainVars, constVars
<1>3. CASE \E path \in Paths : Change(path) \/ ScanLists(path)
  <2>1. UNCHANGED <<singlerun, running, errors>>
    BY <1>3 DEF Change, ScanLists, mainVars, constVars
  <2> QED BY <2>1
<1>4. CASE ScanEnds \/ ScanPasses \/ ScanOpens \/ ScanFails
  BY <1>4 DEF ScanEnds, ScanPasses, ScanOpens, ScanFails, mainVars, constVars
<1>5. CASE Event
  BY <1>5 DEF Event, EventEnds, EventPasses, EventReads, EventPushes, EventThrows, mainVars, constVars
<1>6. CASE RtEvent
  BY <1>6 DEF RtEvent, RtEventEnds, RtEventReads, RtEventPushes, RtEventThrows, mainVars, constVars
<1>7. CASE AlertEnds \/ AlertStartsScan \/ AlertMidScan \/ AlertEndsScan \/ AlertThrows
  BY <1>7 DEF AlertEnds, AlertStartsScan, AlertMidScan, AlertEndsScan, AlertThrows, otherThreads, mainVars, constVars
<1>8. CASE AlertIgnores \/ AlertDeletes \/ AlertChanges \/ AlertRefreshes \/ AlertInserts \/ AlertCollects
  <2>1. \E known, exists : AlertLooks(known, exists)
    BY <1>8 DEF AlertIgnores, AlertDeletes, AlertChanges, AlertRefreshes, AlertInserts, AlertCollects
  <2> QED BY <2>1 DEF AlertLooks, otherThreads, mainVars, constVars
<1>9. CASE UNCHANGED vars
  BY <1>9 DEF vars, mainVars, constVars
<1> QED BY <1>1, <1>2, <1>3, <1>4, <1>5, <1>6, <1>7, <1>8, <1>9 DEF Next, Scan, Alert

\* Who sets scan_is_running.
LEMMA ScanRuns ==
  ASSUME [Next]_vars, ~AlertEndsScan, ~MainScans
  PROVE  UNCHANGED scanRunning
<1>1. CASE Main \/ MainSignal
  BY <1>1 DEF Main, MainStarts, MainPolls, MainSignal, MainStops, MainAwaitsScan, MainExits
<1>2. CASE WatchEnds \/ OutputEnds \/ (\E path \in Paths : Change(path)) \/ UNCHANGED vars
  <2>1. UNCHANGED scanRunning
    BY <1>2 DEF WatchEnds, OutputEnds, Change, vars
  <2> QED BY <2>1
<1>3. CASE Scan
  <2>1. UNCHANGED scanRunning
    BY <1>3 DEF Scan, ScanEnds, ScanPasses, ScanOpens, ScanFails, ScanLists
  <2> QED BY <2>1
<1>4. CASE Event
  BY <1>4 DEF Event, EventEnds, EventPasses, EventReads, EventPushes, EventThrows
<1>5. CASE RtEvent
  BY <1>5 DEF RtEvent, RtEventEnds, RtEventReads, RtEventPushes, RtEventThrows
<1>6. CASE AlertEnds \/ AlertStartsScan \/ AlertMidScan \/ AlertThrows
  BY <1>6 DEF AlertEnds, AlertStartsScan, AlertMidScan, AlertThrows
<1>7. CASE AlertIgnores \/ AlertDeletes \/ AlertChanges \/ AlertRefreshes \/ AlertInserts \/ AlertCollects
  BY <1>7 DEF AlertIgnores, AlertDeletes, AlertChanges, AlertRefreshes, AlertInserts, AlertCollects, AlertLooks
<1> QED BY <1>1, <1>2, <1>3, <1>4, <1>5, <1>6, <1>7 DEF Next, Alert

\* A step after which the threads still work is one of these.
LEMMA WorkGoesOn ==
  ASSUME ExactInv, [Next]_vars, Working'
  PROVE  Working /\ WorkStep
<1>1. Working
  <2>1. AlertEndsScan => ~scanRunning'
    BY DEF AlertEndsScan
  <2>2. MainScans => ~singlerun
    BY DEF MainScans
  <2> QED BY <2>1, <2>2, Before, ScanRuns DEF Working
<1>2. EntriesInv /\ ThreadsInv
  BY <1>1 DEF ExactInv, WorkInv
<1>3. ~(MainPolls \/ MainSignal \/ MainAwaitsScan \/ MainExits)
  BY <1>1, <1>2 DEF MainPolls, MainSignal, MainStops, MainAwaitsScan, MainExits, Working, ThreadsInv
<1>4. ~(WatchEnds \/ OutputEnds)
  BY <1>1, <1>2 DEF WatchEnds, OutputEnds, Working, ThreadsInv
<1>5. ~(ScanEnds \/ EventEnds \/ EventThrows \/ RtEventEnds \/ RtEventThrows)
  <2>1. ~(EventThrows \/ RtEventThrows)
    BY DEF EventThrows, RtEventThrows, Working
  <2>2. ~ScanEnds
    BY <1>1, <1>2, Heads DEF ScanEnds, ScanReady, Working, EntriesInv
  <2>3. ~EventEnds
    BY <1>1, <1>2, Heads DEF EventEnds, EventReady, Working, EntriesInv
  <2>4. ~RtEventEnds
    BY <1>1, <1>2, Heads DEF RtEventEnds, RtEventReady, Working, EntriesInv
  <2> QED BY <2>1, <2>2, <2>3, <2>4
<1>6. ~AlertThrows
  BY DEF AlertThrows, Working
<1>7. ~AlertEnds
  BY <1>1, <1>2, Heads DEF AlertEnds, AlertReady, Working, EntriesInv
<1>8. AlertEndsScan => ~singlerun
  BY <1>1 DEF AlertEndsScan, Working, otherThreads, mainVars, constVars
<1> QED BY <1>1, <1>3, <1>4, <1>5, <1>6, <1>7, <1>8 DEF Next, Main, Scan, Event, RtEvent, Alert, WorkStep

-----------------------------------------------------------------------------
(* Claims *)

\* A claim is about the object as it is.
LEMMA ClaimsAre ==
  \A claim \in Claims :
    /\ claim = [path |-> claim.path, object |-> disk[claim.path], about |-> claim.about]
    /\ claim.path \in Paths /\ claim.object = disk[claim.path] /\ claim.about \in {"shape", "content"}
    /\ claim.path \in Watched \/ ~Exists(claim.object)
BY DEF Claims

LEMMA ClaimsSame ==
  ASSUME UNCHANGED disk
  PROVE  Claims' = Claims
BY DEF Claims

\* What was read is one object or nothing.
LEMMA FixOne ==
  ASSUME NEW claim
  PROVE  ~FixIn(<<>>, claim) /\ \A e : FixIn(<<e>>, claim) <=> Fixes(e, claim)
BY DEF FixIn

\* What is read of an object as it is.
LEMMA ReadsRight ==
  ASSUME NEW claim, NEW check
  PROVE  Right(Construct(claim.object, check), claim)
<1> DEFINE fd == Construct(claim.object, check)
<1>1. fd.exists = Exists(claim.object) /\ fd.type = claim.object.type /\ fd.attr = claim.object.attr
  BY DEF Construct
<1>2. claim.object.type = "file" /\ fd.checked => fd.sha256 = claim.object.content
  BY DEF Construct
<1>3. claim.object.type = "link" => fd.target \in {claim.object.content, ""}
  BY DEF Construct
<1>4. Right(fd, claim)
  <2> HIDE DEF fd
  <2> QED BY <1>1, <1>2, <1>3 DEF Right
<1> QED BY <1>4

\* What is read now fixes what the event would have fixed, and is not wrong.
LEMMA Fresh ==
  ASSUME NEW claim, claim.about \in {"shape", "content"}, claim.object = disk[claim.path],
         NEW look, look.kind = "look", look.check \in BOOLEAN, NEW d, ReadObject(look) = <<d>>
  PROVE  ~Wrong(d, claim) /\ (Fixes(look, claim) => Fixes(d, claim))
<1>1. d = Data(look.path, Construct(disk[look.path], look.check), look.force)
  BY DEF ReadObject
<1>2. d.kind = "data" /\ d.path = look.path /\ d.fd = Construct(disk[look.path], look.check)
  BY <1>1 DEF Data
<1>3. ASSUME claim.path = look.path
      PROVE  Right(d.fd, claim)
  BY <1>2, <1>3, ReadsRight
<1>4. Fixes(look, claim) => claim.path = look.path /\ (claim.about = "content" => look.check)
  BY DEF Fixes, Flag
<1> QED BY <1>2, <1>3, <1>4 DEF Wrong, Fixes

\* What is read can be taken by alert_task.
LEMMA ReadsData ==
  ASSUME disk \in [Paths -> Objects \cup {Gone}], NEW look \in Looks(Paths)
  PROVE  \E d \in Datas : ReadObject(look) = <<d>> /\ d.path = look.path
<1> DEFINE d == Data(look.path, Construct(disk[look.path], look.check), look.force)
<1>1. look.path \in Paths /\ look.check \in BOOLEAN /\ look.force \in BOOLEAN
  BY Kinds
<1>2. disk[look.path] \in Objects \cup {Gone}
  BY <1>1
<1>3. d \in Datas
  BY <1>1, <1>2 DEF Datas
<1>4. d.path = look.path
  BY DEF Data
<1> QED BY <1>3, <1>4 DEF ReadObject

LEMMA BehindIsBoolean ==
  \A claim : BehindData(claim) \in BOOLEAN /\ BehindEvent(claim) \in BOOLEAN
BY DEF BehindData, BehindEvent

\* Nothing of alert_task has changed, and what fixes a claim is still there.
LEMMA ClaimStays ==
  ASSUME NEW claim, ClaimKept(claim), UNCHANGED <<dataQ, alertVars>>,
         BehindData(claim) => BehindData(claim)',
         \A i \in DOMAIN read'.event : Wrong(read'.event[i], claim) => BehindEvent(claim)'
  PROVE  ClaimKept(claim)'
<1>1. Holds(claim)' = Holds(claim)
  BY DEF Holds, alertVars
<1>2. Unfound(claim)' = Unfound(claim)
  BY DEF Unfound, alertVars
<1>3. Clean(dataQ, claim, BehindData(claim)) => Clean(dataQ, claim, BehindData(claim)')
  BY DEF Clean
<1>4. dataQ' = dataQ
  OBVIOUS
<1> QED BY <1>1, <1>2, <1>3, <1>4 DEF ClaimKept

\* The same when something is pushed to alert_task.
LEMMA ClaimPushed ==
  ASSUME NEW S, dataQ \in Seq(S), NEW e, dataQ' = Append(dataQ, e), UNCHANGED alertVars,
         NEW claim, ClaimKept(claim),
         BehindData(claim) => BehindData(claim)' \/ Fixes(e, claim),
         Wrong(e, claim) => BehindData(claim)',
         \A i \in DOMAIN read'.event : Wrong(read'.event[i], claim) => BehindEvent(claim)'
  PROVE  ClaimKept(claim)'
<1>1. Holds(claim)' = Holds(claim)
  BY DEF Holds, alertVars
<1>2. Unfound(claim)' = Unfound(claim)
  BY DEF Unfound, alertVars
<1>3. BehindData(claim)' \in BOOLEAN
  BY DEF BehindData, BehindEvent
<1>4. Clean(Append(dataQ, e), claim, BehindData(claim)')
  BY <1>3, CleanAppend, BehindIsBoolean DEF ClaimKept
<1>5. FixIn(dataQ', claim) <=> FixIn(dataQ, claim) \/ Fixes(e, claim)
  BY FixAppend
<1> QED BY <1>1, <1>2, <1>4, <1>5 DEF ClaimKept

-----------------------------------------------------------------------------
(* The steps of the threads in front of alert_task *)

\* scan_task hands a flag over.
LEMMA ScanPassing ==
  ASSUME StateInv, WorkInv, ClaimsInv, ScanPasses
  PROVE  WorkInv' /\ ClaimsInv'
<1> DEFINE x == Head(scanQ)
<1>1. /\ scanQ # <<>> /\ listing = {} /\ scanQ' = Tail(scanQ) /\ eventQ' = Append(eventQ, x)
      /\ x \in {Flag("STARTSCAN"), Flag("MIDSCAN")} /\ x \in Marks
      /\ UNCHANGED <<disk, singlerun, main, done, rtQ, dataQ, listing, read, alertVars, quiet>>
  BY DEF ScanPasses, ScanReady, envVars, mainVars, constVars, Marks
<1> HIDE DEF x
<1>2. scanQ \in Seq(Lists \cup Marks) /\ eventQ \in Seq(Looks(Paths) \cup Marks)
  BY DEF WorkInv, EntriesInv
<1>3. EntriesInv'
  <2>1. scanQ' \in Seq(Lists \cup Marks)
    BY <1>1, <1>2
  <2>2. eventQ' \in Seq(Looks(Paths) \cup Marks)
    BY <1>1, <1>2
  <2> QED BY <1>1, <2>1, <2>2 DEF WorkInv, EntriesInv, OneRead
<1>4. ASSUME NEW flag, IsLast(flag)
      PROVE  IsLast(flag)'
  <2>1. LastIn(scanQ', flag, TRUE) /\ (x = flag => scanQ' = <<>>)
    BY <1>1, <1>2, <1>4, LastTail DEF IsLast, x
  <2>2. LastIn(eventQ', flag, listing' = {} /\ scanQ' = <<>>)
    BY <1>1, <1>2, <1>4, <2>1, LastAppend DEF IsLast
  <2>3. LastIn(dataQ', flag, read'.event = <<>> /\ eventQ' = <<>> /\ listing' = {} /\ scanQ' = <<>>)
    BY <1>1, <1>4, LastNowhere DEF IsLast
  <2> QED BY <2>1, <2>2, <2>3 DEF IsLast
<1>5. ThreadsInv'
  BY <1>1, <1>4 DEF WorkInv, ThreadsInv, alertVars
<1>6. RtInv'
  BY <1>1 DEF WorkInv, RtInv
<1>7. PhasesInv'
  <2>1. PICK m, n \in BOOLEAN : Run(inScan, dataQ, m) /\ Run(m, eventQ, n) /\ Run(n, scanQ, FALSE)
    BY DEF WorkInv, PhasesInv
  <2>2. PICK k \in BOOLEAN : Turns(n, x, k) /\ Run(k, scanQ', FALSE)
    BY <1>1, <1>2, <2>1, RunTail DEF x
  <2>3. Run(m, eventQ', k)
    BY <1>1, <1>2, <2>1, <2>2, RunAppend
  <2> QED BY <1>1, <2>1, <2>2, <2>3 DEF PhasesInv, alertVars
<1>8. ASSUME quiet, NEW claim \in Claims
      PROVE  ClaimKept(claim)'
  <2>1. ClaimKept(claim)
    BY <1>8 DEF ClaimsInv
  <2>2. FixIn(scanQ, claim) <=> Fixes(x, claim) \/ FixIn(scanQ', claim)
    BY <1>1, <1>2, FixTail DEF x
  <2>3. FixIn(eventQ', claim) <=> FixIn(eventQ, claim) \/ Fixes(x, claim)
    BY <1>1, <1>2, FixAppend
  <2>4. BehindEvent(claim) => BehindEvent(claim)'
    BY <1>1, <2>2, <2>3 DEF BehindEvent
  <2>5. BehindData(claim) => BehindData(claim)'
    BY <1>1, <2>4 DEF BehindData
  <2>6. \A i \in DOMAIN read'.event : Wrong(read'.event[i], claim) => BehindEvent(claim)'
    BY <1>1, <2>1, <2>4 DEF ClaimKept
  <2> QED BY <1>1, <2>1, <2>5, <2>6, ClaimStays
<1> QED BY <1>1, <1>3, <1>5, <1>6, <1>7, <1>8, ClaimsSame DEF WorkInv, ClaimsInv

\* scan_task opens a directory: its entries are to be listed.
LEMMA ScanOpening ==
  ASSUME StateInv, WorkInv, ClaimsInv, ScanOpens
  PROVE  WorkInv' /\ ClaimsInv'
<1> DEFINE x == Head(scanQ)
<1>1. /\ scanQ # <<>> /\ listing = {} /\ scanQ' = Tail(scanQ) /\ x.kind = "list" /\ listing' = Directories[x.dir]
      /\ UNCHANGED <<disk, singlerun, main, done, eventQ, rtQ, dataQ, read, alertVars, quiet>>
  BY DEF ScanOpens, ScanReady, envVars, mainVars, constVars
<1> HIDE DEF x
<1>2. scanQ \in Seq(Lists \cup Marks)
  BY DEF WorkInv, EntriesInv
<1>3. x \notin {Flag("STARTSCAN"), Flag("MIDSCAN"), Flag("ENDSCAN")}
  BY <1>1, Kinds
<1>4. EntriesInv'
  BY <1>1, <1>2 DEF WorkInv, EntriesInv, OneRead
<1>5. ASSUME NEW flag, IsLast(flag)
      PROVE  IsLast(flag)'
  <2>1. LastIn(scanQ', flag, TRUE)
    BY <1>1, <1>2, <1>5, LastTail DEF IsLast
  <2>2. LastIn(eventQ', flag, listing' = {} /\ scanQ' = <<>>)
    BY <1>1, <1>5, LastNowhere DEF IsLast
  <2>3. LastIn(dataQ', flag, read'.event = <<>> /\ eventQ' = <<>> /\ listing' = {} /\ scanQ' = <<>>)
    BY <1>1, <1>5, LastNowhere DEF IsLast
  <2> QED BY <2>1, <2>2, <2>3 DEF IsLast
<1>6. ThreadsInv'
  BY <1>1, <1>5 DEF WorkInv, ThreadsInv, alertVars
<1>7. RtInv'
  BY <1>1 DEF WorkInv, RtInv
<1>8. PhasesInv'
  <2>1. PICK m, n \in BOOLEAN : Run(inScan, dataQ, m) /\ Run(m, eventQ, n) /\ Run(n, scanQ, FALSE)
    BY DEF WorkInv, PhasesInv
  <2>2. PICK k \in BOOLEAN : Turns(n, x, k) /\ Run(k, scanQ', FALSE)
    BY <1>1, <1>2, <2>1, RunTail DEF x
  <2>3. k = n
    BY <1>3, <2>2 DEF Turns
  <2> QED BY <1>1, <2>1, <2>2, <2>3 DEF PhasesInv, alertVars
<1>9. ASSUME quiet, NEW claim \in Claims
      PROVE  ClaimKept(claim)'
  <2>1. ClaimKept(claim)
    BY <1>9 DEF ClaimsInv
  <2>2. FixIn(scanQ, claim) <=> Fixes(x, claim) \/ FixIn(scanQ', claim)
    BY <1>1, <1>2, FixTail DEF x
  <2>3. Fixes(x, claim) => Exists(claim.object) /\ claim.path \in listing'
    BY <1>1, <1>3 DEF Fixes
  <2>4. BehindEvent(claim) => BehindEvent(claim)'
    BY <1>1, <2>2, <2>3 DEF BehindEvent
  <2>5. BehindData(claim) => BehindData(claim)'
    BY <1>1, <2>4 DEF BehindData
  <2>6. \A i \in DOMAIN read'.event : Wrong(read'.event[i], claim) => BehindEvent(claim)'
    BY <1>1, <2>1, <2>4 DEF ClaimKept
  <2> QED BY <1>1, <2>1, <2>5, <2>6, ClaimStays
<1> QED BY <1>1, <1>4, <1>6, <1>7, <1>8, <1>9, ClaimsSame DEF WorkInv, ClaimsInv

\* scan_task lists an entry: what is there gets an event.
LEMMA ScanListing ==
  ASSUME StateInv, WorkInv, ClaimsInv, NEW path \in Paths, ScanLists(path)
  PROVE  WorkInv' /\ ClaimsInv'
<1> DEFINE x == Look(path, TRUE, TRUE)
<1>1. /\ path \in listing /\ listing' = listing \ {path}
      /\ eventQ' = IF Exists(disk[path]) THEN Append(eventQ, x) ELSE eventQ
      /\ UNCHANGED <<disk, singlerun, main, done, scanQ, rtQ, dataQ, read, alertVars, quiet>>
  BY DEF ScanLists, envVars, mainVars, constVars
<1>2. x \in Looks(Paths) /\ x.kind = "look" /\ x.path = path /\ x.check = TRUE
  <2>1. \A p \in Paths, c \in BOOLEAN, f \in BOOLEAN : Look(p, c, f) \in Looks(Paths)
    BY DEF Looks
  <2>2. x \in Looks(Paths)
    BY <2>1
  <2>3. x.kind = "look" /\ x.path = path /\ x.check = TRUE
    BY DEF Look
  <2> QED BY <2>2, <2>3
<1> HIDE DEF x
<1>3. eventQ \in Seq(Looks(Paths) \cup Marks)
  BY DEF WorkInv, EntriesInv
<1>4. x \notin {Flag("STARTSCAN"), Flag("MIDSCAN"), Flag("ENDSCAN")}
  BY <1>2, Kinds
<1>5. EntriesInv'
  <2>1. Append(eventQ, x) \in Seq(Looks(Paths) \cup Marks)
    BY <1>2, <1>3
  <2> QED BY <1>1, <2>1, <1>3 DEF WorkInv, EntriesInv, OneRead
<1>6. ASSUME NEW flag, flag # x, IsLast(flag)
      PROVE  IsLast(flag)'
  <2>1. LastIn(scanQ', flag, TRUE)
    BY <1>1, <1>6 DEF IsLast
  <2>2. LastIn(eventQ, flag, listing' = {} /\ scanQ' = <<>>)
    BY <1>1, <1>6, LastNowhere DEF IsLast
  <2>3. LastIn(Append(eventQ, x), flag, listing' = {} /\ scanQ' = <<>>)
    BY <1>1, <1>3, <1>6, LastAppend DEF IsLast
  <2>4. LastIn(eventQ', flag, listing' = {} /\ scanQ' = <<>>)
    BY <1>1, <2>2, <2>3
  <2>5. LastIn(dataQ', flag, read'.event = <<>> /\ eventQ' = <<>> /\ listing' = {} /\ scanQ' = <<>>)
    BY <1>1, <1>6, LastNowhere DEF IsLast
  <2> QED BY <2>1, <2>4, <2>5 DEF IsLast
<1>7. ThreadsInv'
  BY <1>1, <1>4, <1>6 DEF WorkInv, ThreadsInv, alertVars
<1>8. RtInv'
  BY <1>1 DEF WorkInv, RtInv
<1>9. PhasesInv'
  <2>1. PICK m, n \in BOOLEAN : Run(inScan, dataQ, m) /\ Run(m, eventQ, n) /\ Run(n, scanQ, FALSE)
    BY DEF WorkInv, PhasesInv
  <2>2. Turns(n, x, n)
    BY <1>4 DEF Turns
  <2>3. Run(m, Append(eventQ, x), n)
    BY <1>3, <2>1, <2>2, RunAppend
  <2>4. Run(m, eventQ', n)
    BY <1>1, <2>1, <2>3
  <2> QED BY <1>1, <2>1, <2>4 DEF PhasesInv, alertVars
<1>10. ASSUME quiet, NEW claim \in Claims
       PROVE  ClaimKept(claim)'
  <2>1. ClaimKept(claim)
    BY <1>10 DEF ClaimsInv
  <2>2. FixIn(Append(eventQ, x), claim) <=> FixIn(eventQ, claim) \/ Fixes(x, claim)
    BY <1>3, FixAppend
  <2>3. claim.path = path => Fixes(x, claim)
    BY <1>2 DEF Fixes
  <2>4. claim.object = disk[claim.path]
    BY ClaimsAre
  <2>5. BehindEvent(claim) => BehindEvent(claim)'
    BY <1>1, <2>2, <2>3, <2>4 DEF BehindEvent
  <2>6. BehindData(claim) => BehindData(claim)'
    BY <1>1, <2>5 DEF BehindData
  <2>7. \A i \in DOMAIN read'.event : Wrong(read'.event[i], claim) => BehindEvent(claim)'
    BY <1>1, <2>1, <2>5 DEF ClaimKept
  <2> QED BY <1>1, <2>1, <2>6, <2>7, ClaimStays
<1> QED BY <1>1, <1>5, <1>7, <1>8, <1>9, <1>10, ClaimsSame DEF WorkInv, ClaimsInv

\* A listing that fails is not quiet.
LEMMA ScanFailing ==
  ASSUME StateInv, WorkInv, ClaimsInv, ScanFails
  PROVE  WorkInv' /\ ClaimsInv'
<1>1. /\ listing # {} /\ ~quiet'
      /\ UNCHANGED <<disk, singlerun, main, done, scanQ, eventQ, rtQ, dataQ, read, alertVars>>
  BY DEF ScanFails, envVars, mainVars, constVars, queues
<1>2. EntriesInv' /\ RtInv' /\ PhasesInv'
  BY <1>1 DEF WorkInv, EntriesInv, OneRead, RtInv, PhasesInv, alertVars
<1>3. ASSUME NEW flag, IsLast(flag)
      PROVE  IsLast(flag)'
  <2>1. LastIn(scanQ', flag, TRUE)
    BY <1>1, <1>3 DEF IsLast
  <2>2. LastIn(eventQ', flag, listing' = {} /\ scanQ' = <<>>)
    BY <1>1, <1>3, LastNowhere DEF IsLast
  <2>3. LastIn(dataQ', flag, read'.event = <<>> /\ eventQ' = <<>> /\ listing' = {} /\ scanQ' = <<>>)
    BY <1>1, <1>3, LastNowhere DEF IsLast
  <2> QED BY <2>1, <2>2, <2>3 DEF IsLast
<1>4. ThreadsInv'
  BY <1>1, <1>3 DEF WorkInv, ThreadsInv, alertVars
<1> QED BY <1>1, <1>2, <1>4 DEF WorkInv, ClaimsInv

\* event_task hands a flag over.
LEMMA EventPassing ==
  ASSUME StateInv, WorkInv, ClaimsInv, EventPasses
  PROVE  WorkInv' /\ ClaimsInv'
<1> DEFINE x == Head(eventQ)
<1>1. /\ eventQ # <<>> /\ read.event = <<>> /\ eventQ' = Tail(eventQ) /\ dataQ' = Append(dataQ, x)
      /\ x \in Marks
      /\ UNCHANGED <<disk, singlerun, main, done, scanQ, rtQ, listing, read, alertVars, quiet>>
  BY DEF EventPasses, EventReady, envVars, mainVars, constVars, Marks
<1> HIDE DEF x
<1>2. eventQ \in Seq(Looks(Paths) \cup Marks) /\ dataQ \in Seq(Datas \cup Marks)
  BY DEF WorkInv, EntriesInv
<1>3. EntriesInv'
  <2>1. eventQ' \in Seq(Looks(Paths) \cup Marks)
    BY <1>1, <1>2
  <2>2. dataQ' \in Seq(Datas \cup Marks)
    BY <1>1, <1>2
  <2> QED BY <1>1, <2>1, <2>2 DEF WorkInv, EntriesInv, OneRead
<1>4. ASSUME NEW flag, IsLast(flag)
      PROVE  IsLast(flag)'
  <2>1. LastIn(scanQ', flag, TRUE)
    BY <1>1, <1>4 DEF IsLast
  <2>2. LastIn(eventQ', flag, listing' = {} /\ scanQ' = <<>>) /\ (x = flag => eventQ' = <<>> /\ listing' = {} /\ scanQ' = <<>>)
    BY <1>1, <1>2, <1>4, LastTail DEF IsLast, x
  <2>3. LastIn(dataQ', flag, read'.event = <<>> /\ eventQ' = <<>> /\ listing' = {} /\ scanQ' = <<>>)
    BY <1>1, <1>2, <1>4, <2>2, LastAppend DEF IsLast
  <2> QED BY <2>1, <2>2, <2>3 DEF IsLast
<1>5. ThreadsInv'
  BY <1>1, <1>4 DEF WorkInv, ThreadsInv, alertVars
<1>6. RtInv'
  BY <1>1 DEF WorkInv, RtInv
<1>7. PhasesInv'
  <2>1. PICK m, n \in BOOLEAN : Run(inScan, dataQ, m) /\ Run(m, eventQ, n) /\ Run(n, scanQ, FALSE)
    BY DEF WorkInv, PhasesInv
  <2>2. PICK k \in BOOLEAN : Turns(m, x, k) /\ Run(k, eventQ', n)
    BY <1>1, <1>2, <2>1, RunTail DEF x
  <2>3. Run(inScan, dataQ', k)
    BY <1>1, <1>2, <2>1, <2>2, RunAppend DEF StateInv
  <2> QED BY <1>1, <2>1, <2>2, <2>3 DEF PhasesInv, alertVars
<1>8. ASSUME quiet, NEW claim \in Claims
      PROVE  ClaimKept(claim)'
  <2>1. ClaimKept(claim)
    BY <1>8 DEF ClaimsInv
  <2>2. FixIn(eventQ, claim) <=> Fixes(x, claim) \/ FixIn(eventQ', claim)
    BY <1>1, <1>2, FixTail DEF x
  <2>3. BehindData(claim) => BehindData(claim)' \/ Fixes(x, claim)
    BY <1>1, <2>2 DEF BehindData, BehindEvent
  <2>4. ~Wrong(x, claim)
    BY <1>1, Kinds DEF Wrong
  <2>5. DOMAIN read'.event = {}
    BY <1>1
  <2> QED BY <1>1, <1>2, <2>1, <2>3, <2>4, <2>5, ClaimPushed
<1> QED BY <1>1, <1>3, <1>5, <1>6, <1>7, <1>8, ClaimsSame DEF WorkInv, ClaimsInv

\* event_task reads an object as it is.
LEMMA EventReading ==
  ASSUME StateInv, WorkInv, ClaimsInv, QueuesInv, EventReads
  PROVE  WorkInv' /\ ClaimsInv'
<1> DEFINE x == Head(eventQ)
<1>1. /\ eventQ # <<>> /\ read.event = <<>> /\ eventQ' = Tail(eventQ) /\ x.kind = "look"
      /\ read' = [read EXCEPT !.event = ReadObject(x)]
      /\ UNCHANGED <<disk, singlerun, main, done, scanQ, rtQ, dataQ, listing, alertVars, quiet>>
  BY DEF EventReads, EventReady, envVars, mainVars, constVars
<1>2. eventQ \in Seq(Looks(Paths) \cup Marks)
  BY DEF WorkInv, EntriesInv
<1>3. x \in Looks(Paths)
  <2>1. x \in Looks(Paths) \cup Marks
    BY <1>1, <1>2
  <2> QED BY <1>1, <2>1, Kinds
<1> HIDE DEF x
<1>4. PICK d \in Datas : ReadObject(x) = <<d>> /\ d.path = x.path
  BY <1>3, ReadsData DEF StateInv
<1>5. read'.event = <<d>> /\ read'.rtevent = read.rtevent
  BY <1>1, <1>4 DEF QueuesInv
<1>6. x \notin {Flag("STARTSCAN"), Flag("MIDSCAN"), Flag("ENDSCAN")}
  BY <1>1, Kinds
<1>7. EntriesInv'
  <2>1. eventQ' \in Seq(Looks(Paths) \cup Marks)
    BY <1>1, <1>2
  <2> QED BY <1>1, <1>5, <2>1 DEF WorkInv, EntriesInv, OneRead
<1>8. ASSUME NEW flag, IsLast(flag)
      PROVE  IsLast(flag)'
  <2>1. LastIn(scanQ', flag, TRUE)
    BY <1>1, <1>8 DEF IsLast
  <2>2. LastIn(eventQ', flag, listing' = {} /\ scanQ' = <<>>)
    BY <1>1, <1>2, <1>8, LastTail DEF IsLast
  <2>3. LastIn(dataQ', flag, read'.event = <<>> /\ eventQ' = <<>> /\ listing' = {} /\ scanQ' = <<>>)
    BY <1>1, <1>8, LastNowhere DEF IsLast
  <2> QED BY <2>1, <2>2, <2>3 DEF IsLast
<1>9. ThreadsInv'
  BY <1>1, <1>5, <1>8 DEF WorkInv, ThreadsInv, alertVars
<1>10. RtInv'
  BY <1>1, <1>5 DEF WorkInv, RtInv
<1>11. PhasesInv'
  <2>1. PICK m, n \in BOOLEAN : Run(inScan, dataQ, m) /\ Run(m, eventQ, n) /\ Run(n, scanQ, FALSE)
    BY DEF WorkInv, PhasesInv
  <2>2. PICK k \in BOOLEAN : Turns(m, x, k) /\ Run(k, eventQ', n)
    BY <1>1, <1>2, <2>1, RunTail DEF x
  <2>3. k = m
    BY <1>6, <2>2 DEF Turns
  <2> QED BY <1>1, <2>1, <2>2, <2>3 DEF PhasesInv, alertVars
<1>12. ASSUME quiet, NEW claim \in Claims
       PROVE  ClaimKept(claim)'
  <2>1. ClaimKept(claim)
    BY <1>12 DEF ClaimsInv
  <2>2. FixIn(eventQ, claim) <=> Fixes(x, claim) \/ FixIn(eventQ', claim)
    BY <1>1, <1>2, FixTail DEF x
  <2>3. ~Wrong(d, claim) /\ (Fixes(x, claim) => Fixes(d, claim))
    <3>1. x.check \in BOOLEAN
      BY <1>3, Kinds
    <3> QED BY <1>1, <1>4, <3>1, ClaimsAre, Fresh
  <2>4. FixIn(read'.event, claim) <=> Fixes(d, claim)
    BY <1>5, FixOne
  <2>5. BehindData(claim) => BehindData(claim)'
    BY <1>1, <1>5, <2>2, <2>3, <2>4, FixOne DEF BehindData, BehindEvent
  <2>6. \A i \in DOMAIN read'.event : Wrong(read'.event[i], claim) => BehindEvent(claim)'
    BY <1>5, <2>3
  <2> QED BY <1>1, <2>1, <2>5, <2>6, ClaimStays
<1> QED BY <1>1, <1>7, <1>9, <1>10, <1>11, <1>12, ClaimsSame DEF WorkInv, ClaimsInv

\* event_task hands over what it has read, which may have become wrong.
LEMMA EventPushing ==
  ASSUME StateInv, WorkInv, ClaimsInv, QueuesInv, EventPushes
  PROVE  WorkInv' /\ ClaimsInv'
<1>1. /\ read.event # <<>> /\ dataQ' = dataQ \o read.event /\ read' = [read EXCEPT !.event = <<>>]
      /\ UNCHANGED <<disk, singlerun, main, done, scanQ, eventQ, rtQ, listing, alertVars, quiet>>
  BY DEF EventPushes, envVars, mainVars, constVars
<1>2. PICK d \in Datas : read.event = <<d>>
  BY <1>1 DEF WorkInv, EntriesInv, OneRead
<1>3. dataQ \in Seq(Datas \cup Marks)
  BY DEF WorkInv, EntriesInv
<1>4. dataQ' = Append(dataQ, d)
  <2>1. dataQ \o <<d>> = Append(dataQ, d)
    BY <1>3
  <2> QED BY <1>1, <1>2, <2>1
<1>5. read'.event = <<>> /\ read'.rtevent = read.rtevent
  BY <1>1 DEF QueuesInv
<1>6. d \notin {Flag("STARTSCAN"), Flag("MIDSCAN"), Flag("ENDSCAN")}
  BY Kinds
<1>7. EntriesInv'
  <2>1. dataQ' \in Seq(Datas \cup Marks)
    BY <1>3, <1>4
  <2> QED BY <1>1, <1>5, <2>1 DEF WorkInv, EntriesInv, OneRead
<1>8. ASSUME NEW flag, flag # d, IsLast(flag)
      PROVE  IsLast(flag)'
  <2>1. LastIn(scanQ', flag, TRUE) /\ LastIn(eventQ', flag, listing' = {} /\ scanQ' = <<>>)
    BY <1>1, <1>8 DEF IsLast
  <2>2. LastIn(dataQ', flag, read'.event = <<>> /\ eventQ' = <<>> /\ listing' = {} /\ scanQ' = <<>>)
    BY <1>1, <1>3, <1>4, <1>8, LastAppend DEF IsLast
  <2> QED BY <2>1, <2>2 DEF IsLast
<1>9. ThreadsInv'
  BY <1>1, <1>5, <1>6, <1>8 DEF WorkInv, ThreadsInv, alertVars
<1>10. RtInv'
  BY <1>1, <1>5 DEF WorkInv, RtInv
<1>11. PhasesInv'
  <2>1. PICK m, n \in BOOLEAN : Run(inScan, dataQ, m) /\ Run(m, eventQ, n) /\ Run(n, scanQ, FALSE)
    BY DEF WorkInv, PhasesInv
  <2>2. Turns(m, d, m)
    BY <1>6 DEF Turns
  <2>3. Run(inScan, dataQ', m)
    BY <1>3, <1>4, <2>1, <2>2, RunAppend DEF StateInv
  <2> QED BY <1>1, <2>1, <2>3 DEF PhasesInv, alertVars
<1>12. ASSUME quiet, NEW claim \in Claims
       PROVE  ClaimKept(claim)'
  <2>1. ClaimKept(claim)
    BY <1>12 DEF ClaimsInv
  <2>2. FixIn(read.event, claim) <=> Fixes(d, claim)
    BY <1>2, FixOne
  <2>3. BehindEvent(claim)' = BehindEvent(claim)
    BY <1>1 DEF BehindEvent
  <2>4. BehindData(claim) => BehindData(claim)' \/ Fixes(d, claim)
    BY <1>1, <1>5, <2>2, <2>3 DEF BehindData
  <2>5. Wrong(d, claim) => BehindEvent(claim)
    BY <1>2, <2>1 DEF ClaimKept
  <2>6. Wrong(d, claim) => BehindData(claim)'
    BY <2>3, <2>5 DEF BehindData
  <2>7. DOMAIN read'.event = {}
    BY <1>5
  <2> QED BY <1>1, <1>3, <1>4, <2>1, <2>4, <2>6, <2>7, ClaimPushed
<1> QED BY <1>1, <1>7, <1>9, <1>10, <1>11, <1>12, ClaimsSame DEF WorkInv, ClaimsInv

\* rtevent_task reads an object as it is.
LEMMA RtEventReading ==
  ASSUME StateInv, WorkInv, ClaimsInv, QueuesInv, RtEventReads
  PROVE  WorkInv' /\ ClaimsInv'
<1> DEFINE x == Head(rtQ)
<1>1. /\ rtQ # <<>> /\ read.rtevent = <<>> /\ rtQ' = Tail(rtQ) /\ main # "starting" /\ ~singlerun
      /\ read' = [read EXCEPT !.rtevent = ReadObject(x)]
      /\ UNCHANGED <<disk, singlerun, main, done, scanQ, eventQ, dataQ, listing, alertVars, quiet>>
  BY DEF RtEventReads, RtEventReady, envVars, mainVars, constVars
<1>2. rtQ \in Seq(Looks(Realtime))
  BY DEF WorkInv, EntriesInv
<1>3. x \in Looks(Realtime) /\ x \in Looks(Paths)
  <2>1. x \in Looks(Realtime)
    BY <1>1, <1>2
  <2>2. Looks(Realtime) \subseteq Looks(Paths)
    BY RealtimeAssumption DEF Looks
  <2> QED BY <2>1, <2>2
<1> HIDE DEF x
<1>4. PICK d \in Datas : ReadObject(x) = <<d>> /\ d.path = x.path
  BY <1>3, ReadsData DEF StateInv
<1>5. read'.rtevent = <<d>> /\ read'.event = read.event
  BY <1>1, <1>4 DEF QueuesInv
<1>6. x.kind = "look" /\ x.check \in BOOLEAN /\ x.path \in Realtime
  BY <1>3, Kinds
<1>7. EntriesInv'
  <2>1. rtQ' \in Seq(Looks(Realtime))
    BY <1>1, <1>2
  <2> QED BY <1>1, <1>4, <1>5, <1>6, <2>1 DEF WorkInv, EntriesInv, OneRead
<1>8. ThreadsInv'
  BY <1>1 DEF WorkInv, ThreadsInv, alertVars
<1>9. RtInv'
  <2> SUFFICES ASSUME NEW about \in {"shape", "content"}
               PROVE  ~Wrong(d, [path |-> d.path, object |-> disk[d.path], about |-> about])
    BY <1>1, <1>5 DEF RtInv
  <2> DEFINE claim == [path |-> d.path, object |-> disk[d.path], about |-> about]
  <2>1. claim.about \in {"shape", "content"} /\ claim.object = disk[claim.path]
    OBVIOUS
  <2> HIDE DEF claim
  <2>2. ~Wrong(d, claim)
    BY <1>4, <1>6, <2>1, Fresh
  <2> QED BY <2>2 DEF claim
<1>10. PhasesInv'
  BY <1>1 DEF WorkInv, PhasesInv, alertVars
<1>11. ASSUME quiet, NEW claim \in Claims
       PROVE  ClaimKept(claim)'
  <2>1. ClaimKept(claim)
    BY <1>11 DEF ClaimsInv
  <2>2. FixIn(rtQ, claim) <=> Fixes(x, claim) \/ FixIn(rtQ', claim)
    BY <1>1, <1>2, FixTail DEF x
  <2>3. Fixes(x, claim) => Fixes(d, claim)
    BY <1>4, <1>6, ClaimsAre, Fresh
  <2>4. FixIn(read'.rtevent, claim) <=> Fixes(d, claim)
    BY <1>5, FixOne
  <2>5. BehindEvent(claim)' = BehindEvent(claim)
    BY <1>1 DEF BehindEvent
  <2>6. BehindData(claim) => BehindData(claim)'
    BY <1>1, <1>5, <2>2, <2>3, <2>4, <2>5, FixOne DEF BehindData
  <2>7. \A i \in DOMAIN read'.event : Wrong(read'.event[i], claim) => BehindEvent(claim)'
    BY <1>5, <2>1, <2>5 DEF ClaimKept
  <2> QED BY <1>1, <2>1, <2>6, <2>7, ClaimStays
<1> QED BY <1>1, <1>7, <1>8, <1>9, <1>10, <1>11, ClaimsSame DEF WorkInv, ClaimsInv

\* rtevent_task hands over what it has read: if it has become wrong, an event is behind it.
LEMMA RtEventPushing ==
  ASSUME StateInv, WorkInv, ClaimsInv, QueuesInv, RtEventPushes
  PROVE  WorkInv' /\ ClaimsInv'
<1>1. /\ read.rtevent # <<>> /\ dataQ' = dataQ \o read.rtevent /\ read' = [read EXCEPT !.rtevent = <<>>]
      /\ UNCHANGED <<disk, singlerun, main, done, scanQ, eventQ, rtQ, listing, alertVars, quiet>>
  BY DEF RtEventPushes, envVars, mainVars, constVars
<1>2. PICK d \in Datas : read.rtevent = <<d>>
  BY <1>1 DEF WorkInv, EntriesInv
<1>3. dataQ \in Seq(Datas \cup Marks)
  BY DEF WorkInv, EntriesInv
<1>4. dataQ' = Append(dataQ, d)
  <2>1. dataQ \o <<d>> = Append(dataQ, d)
    BY <1>3
  <2> QED BY <1>1, <1>2, <2>1
<1>5. read'.rtevent = <<>> /\ read'.event = read.event
  BY <1>1 DEF QueuesInv
<1>6. d \notin {Flag("STARTSCAN"), Flag("MIDSCAN"), Flag("ENDSCAN")}
  BY Kinds
<1>7. EntriesInv'
  <2>1. dataQ' \in Seq(Datas \cup Marks)
    BY <1>3, <1>4
  <2> QED BY <1>1, <1>5, <2>1 DEF WorkInv, EntriesInv, OneRead
<1>8. ~singlerun
  BY <1>1 DEF WorkInv, ThreadsInv
<1>9. ThreadsInv'
  BY <1>1, <1>5, <1>8 DEF WorkInv, ThreadsInv, alertVars
<1>10. RtInv'
  <2>1. DOMAIN read'.rtevent = {}
    BY <1>5
  <2> QED BY <2>1 DEF RtInv
<1>11. PhasesInv'
  <2>1. PICK m, n \in BOOLEAN : Run(inScan, dataQ, m) /\ Run(m, eventQ, n) /\ Run(n, scanQ, FALSE)
    BY DEF WorkInv, PhasesInv
  <2>2. Turns(m, d, m)
    BY <1>6 DEF Turns
  <2>3. Run(inScan, dataQ', m)
    BY <1>3, <1>4, <2>1, <2>2, RunAppend DEF StateInv
  <2> QED BY <1>1, <2>1, <2>3 DEF PhasesInv, alertVars
<1>12. ASSUME quiet, NEW claim \in Claims
       PROVE  ClaimKept(claim)'
  <2>1. ClaimKept(claim)
    BY <1>12 DEF ClaimsInv
  <2>2. FixIn(read.rtevent, claim) <=> Fixes(d, claim)
    BY <1>2, FixOne
  <2>3. BehindEvent(claim)' = BehindEvent(claim)
    BY <1>1 DEF BehindEvent
  <2>4. BehindData(claim) => BehindData(claim)' \/ Fixes(d, claim)
    BY <1>1, <1>5, <2>2, <2>3 DEF BehindData
  <2>5. Wrong(d, claim) => FixIn(rtQ, claim)
    <3> SUFFICES ASSUME Wrong(d, claim) PROVE FixIn(rtQ, claim)
      OBVIOUS
    <3>1. claim = [path |-> d.path, object |-> disk[d.path], about |-> claim.about] /\ claim.about \in {"shape", "content"}
      BY ClaimsAre DEF Wrong
    <3>2. 1 \in DOMAIN read.rtevent /\ read.rtevent[1] = d
      BY <1>2
    <3> QED BY <3>1, <3>2 DEF WorkInv, RtInv
  <2>6. Wrong(d, claim) => BehindData(claim)'
    BY <1>1, <2>5 DEF BehindData
  <2>7. \A i \in DOMAIN read'.event : Wrong(read'.event[i], claim) => BehindEvent(claim)'
    BY <1>5, <2>1, <2>3 DEF ClaimKept
  <2> QED BY <1>1, <1>3, <1>4, <2>1, <2>4, <2>6, <2>7, ClaimPushed
<1> QED BY <1>1, <1>7, <1>9, <1>10, <1>11, <1>12, ClaimsSame DEF WorkInv, ClaimsInv

-----------------------------------------------------------------------------
(* The steps of main and of the file system *)

\* main starts the threads of realtime.
LEMMA MainStarting ==
  ASSUME StateInv, WorkInv, ClaimsInv, MainStarts
  PROVE  WorkInv' /\ ClaimsInv'
<1>1. /\ main = "starting" /\ main' = "waiting"
      /\ UNCHANGED <<disk, singlerun, done, scanQ, eventQ, rtQ, dataQ, listing, read, alertVars, quiet>>
  BY DEF MainStarts, envVars, constVars, queues
<1>2. EntriesInv' /\ RtInv' /\ PhasesInv'
  BY <1>1 DEF WorkInv, EntriesInv, OneRead, RtInv, PhasesInv, alertVars
<1>3. \A flag : IsLast(flag)' = IsLast(flag)
  BY <1>1 DEF IsLast
<1>4. ThreadsInv'
  BY <1>1, <1>3 DEF WorkInv, ThreadsInv, alertVars
<1>5. ASSUME quiet, NEW claim \in Claims
      PROVE  ClaimKept(claim)'
  <2>1. ClaimKept(claim)
    BY <1>5 DEF ClaimsInv
  <2>2. BehindEvent(claim)' = BehindEvent(claim)
    BY <1>1 DEF BehindEvent
  <2>3. BehindData(claim)' = BehindData(claim)
    BY <1>1, <2>2 DEF BehindData
  <2> QED BY <1>1, <2>1, <2>2, <2>3, ClaimStays DEF ClaimKept
<1> QED BY <1>1, <1>2, <1>4, <1>5, ClaimsSame DEF WorkInv, ClaimsInv

\* What is asked of a scan.
LEMMA Request ==
  /\ ScanRequest \in Seq(Lists \cup Marks)
  /\ Run(FALSE, ScanRequest, FALSE)
  /\ \A claim \in Claims : FixIn(ScanRequest, claim)
<1> DEFINE lists == [d \in DOMAIN Directories |-> List(d)]
           start == <<Flag("STARTSCAN")>>
           mid   == <<Flag("MIDSCAN")>>
           S == Lists \cup Marks
<1>1. ScanRequest = start \o lists \o mid
  BY DEF ScanRequest
<1>2. lists \in Seq(Lists) /\ lists \in Seq(S)
  <2>1. Len(Directories) \in Nat /\ DOMAIN Directories = 1..Len(Directories)
    BY DirectoriesAssumption
  <2>2. \A d \in DOMAIN Directories : List(d) \in Lists
    BY DEF Lists
  <2>3. lists \in [1..Len(Directories) -> Lists]
    BY <2>1, <2>2
  <2>4. lists \in [1..Len(Directories) -> S]
    BY <2>1, <2>2
  <2> HIDE DEF lists, S
  <2> QED BY <2>1, <2>3, <2>4
<1>3. start \in Seq(S) /\ mid \in Seq(S)
  <2>1. Flag("STARTSCAN") \in S /\ Flag("MIDSCAN") \in S
    BY DEF Marks
  <2> HIDE DEF S
  <2> QED BY <2>1
<1>4. start \o lists \in Seq(S) /\ ScanRequest \in Seq(S)
  <2> HIDE DEF start, lists, mid, S
  <2> QED BY <1>1, <1>2, <1>3
<1>5. Run(FALSE, start, TRUE)
  <2>1. Turns(FALSE, Flag("STARTSCAN"), TRUE)
    BY DEF Turns
  <2>2. Run(FALSE, <<>>, FALSE)
    <3> DEFINE E == {}
    <3>1. <<>> \in Seq(E)
      OBVIOUS
    <3>2. \A e \in E : e \notin {Flag("STARTSCAN"), Flag("MIDSCAN")}
      OBVIOUS
    <3> HIDE DEF E
    <3> QED BY <3>1, <3>2, RunSteady
  <2>3. <<>> \in Seq(S) /\ Append(<<>>, Flag("STARTSCAN")) = start
    OBVIOUS
  <2> HIDE DEF start, S
  <2> QED BY <2>1, <2>2, <2>3, RunAppend
<1>6. Run(TRUE, lists, TRUE)
  <2>1. \A e \in Lists : e \notin {Flag("STARTSCAN"), Flag("MIDSCAN")}
    BY Kinds
  <2> HIDE DEF lists
  <2> QED BY <1>2, <2>1, RunSteady
<1>7. Run(FALSE, start \o lists, TRUE)
  <2> HIDE DEF start, lists, S
  <2> QED BY <1>2, <1>3, <1>5, <1>6, RunConcat
<1>8. Run(FALSE, ScanRequest, FALSE)
  <2>1. Turns(TRUE, Flag("MIDSCAN"), FALSE)
    BY DEF Turns, Flag
  <2>2. Append(start \o lists, Flag("MIDSCAN")) = ScanRequest
    <3> HIDE DEF start, lists, S
    <3> QED BY <1>1, <1>2, <1>3, <1>4 DEF mid
  <2> HIDE DEF start, lists, S
  <2> QED BY <1>4, <1>7, <2>1, <2>2, RunAppend
<1>9. ASSUME NEW claim \in Claims
      PROVE  FixIn(ScanRequest, claim)
  <2>1. CASE ~Exists(claim.object)
    <3>1. Fixes(Flag("STARTSCAN"), claim)
      BY <2>1 DEF Fixes
    <3>2. FixIn(start, claim)
      BY <3>1, FixOne
    <3> HIDE DEF start, lists, mid, S
    <3>3. FixIn(start \o lists, claim)
      BY <1>2, <1>3, <3>2, FixConcat
    <3> QED BY <1>1, <1>3, <1>4, <3>3, FixConcat
  <2>2. CASE Exists(claim.object)
    <3>1. claim.path \in Watched
      BY <2>2, ClaimsAre
    <3>2. PICK d \in DOMAIN Directories : claim.path \in Directories[d]
      BY <3>1 DEF Watched, Range
    <3>3. Fixes(lists[d], claim)
      BY <2>2, <3>2 DEF Fixes, List
    <3>4. FixIn(lists, claim)
      BY <3>3 DEF FixIn
    <3> HIDE DEF start, lists, mid, S
    <3>5. FixIn(start \o lists, claim)
      BY <1>2, <1>3, <3>4, FixConcat
    <3> QED BY <1>1, <1>3, <1>4, <3>5, FixConcat
  <2> QED BY <2>1, <2>2
<1> QED BY <1>4, <1>8, <1>9

\* main requests a scan, which fixes whatever there is.
LEMMA MainScanning ==
  ASSUME StateInv, WorkInv, MainScans
  PROVE  WorkInv' /\ ClaimsInv'
<1>1. /\ ~singlerun /\ scanQ' = scanQ \o ScanRequest
      /\ UNCHANGED <<disk, singlerun, main, done, eventQ, rtQ, dataQ, listing, read, alertVars>>
  BY DEF MainScans, envVars, constVars
<1>2. scanQ \in Seq(Lists \cup Marks) /\ ScanRequest \in Seq(Lists \cup Marks)
  BY Request DEF WorkInv, EntriesInv
<1>3. EntriesInv'
  <2>1. scanQ' \in Seq(Lists \cup Marks)
    BY <1>1, <1>2
  <2> QED BY <1>1, <2>1 DEF WorkInv, EntriesInv, OneRead
<1>4. ThreadsInv' /\ RtInv'
  BY <1>1 DEF WorkInv, ThreadsInv, RtInv, alertVars
<1>5. PhasesInv'
  <2>1. PICK m, n \in BOOLEAN : Run(inScan, dataQ, m) /\ Run(m, eventQ, n) /\ Run(n, scanQ, FALSE)
    BY DEF WorkInv, PhasesInv
  <2>2. Run(n, scanQ', FALSE)
    BY <1>1, <1>2, <2>1, Request, RunConcat
  <2> QED BY <1>1, <2>1, <2>2 DEF PhasesInv, alertVars
<1>6. ASSUME NEW claim \in Claims
      PROVE  ClaimKept(claim)'
  <2>1. FixIn(scanQ', claim)
    BY <1>1, <1>2, Request, FixConcat
  <2>2. BehindEvent(claim)' /\ BehindData(claim)'
    BY <2>1 DEF BehindEvent, BehindData
  <2> QED BY <2>2 DEF ClaimKept, Clean
<1> QED BY <1>1, <1>3, <1>4, <1>5, <1>6, ClaimsSame DEF WorkInv, ClaimsInv

\* An object changes: what has been read of it is followed by an event.
LEMMA Changing ==
  ASSUME StateInv, WorkInv, NEW path \in Paths, Change(path)
  PROVE  WorkInv' /\ ClaimsInv'
<1> DEFINE x == Look(path, ContentEvent(disk[path], disk'[path]), FALSE)
<1>1. /\ disk' = [disk EXCEPT ![path] = Head(changes[path])] /\ ~quiet'
      /\ UNCHANGED <<singlerun, main, done, scanQ, eventQ, dataQ, listing, read, alertVars>>
  BY DEF Change, mainVars, constVars
<1>2. rtQ' = IF path \in Realtime /\ main # "starting" /\ ~singlerun THEN Append(rtQ, x) ELSE rtQ
  BY DEF Change, WorkInv, ThreadsInv
<1>3. x.kind = "look" /\ x.path = path /\ x.check = ContentEvent(disk[path], disk'[path])
  BY DEF Look
<1>4. path \in Realtime => x \in Looks(Realtime)
  <2>1. \A p \in Realtime, c \in BOOLEAN, f \in BOOLEAN : Look(p, c, f) \in Looks(Realtime)
    BY DEF Looks
  <2>2. ContentEvent(disk[path], disk'[path]) \in BOOLEAN
    BY DEF ContentEvent
  <2> QED BY <2>1, <2>2
<1> HIDE DEF x
<1>5. rtQ \in Seq(Looks(Realtime))
  BY DEF WorkInv, EntriesInv
<1>6. EntriesInv'
  <2>1. rtQ' \in Seq(Looks(Realtime))
    BY <1>2, <1>4, <1>5
  <2> QED BY <1>1, <2>1 DEF WorkInv, EntriesInv, OneRead
<1>7. ThreadsInv'
  <2>1. \A flag : IsLast(flag)' = IsLast(flag)
    BY <1>1 DEF IsLast
  <2> QED BY <1>1, <1>2, <2>1 DEF WorkInv, ThreadsInv, alertVars
<1>8. PhasesInv'
  BY <1>1 DEF WorkInv, PhasesInv, alertVars
<1>9. RtInv'
  <2> SUFFICES ASSUME NEW i \in DOMAIN read.rtevent, NEW about \in {"shape", "content"}, NEW d, d = read.rtevent[i],
                      Wrong(d, [path |-> d.path, object |-> disk'[d.path], about |-> about])
               PROVE  FixIn(rtQ', [path |-> d.path, object |-> disk'[d.path], about |-> about])
    BY <1>1 DEF RtInv
  <2> DEFINE old == [path |-> d.path, object |-> disk[d.path], about |-> about]
             new == [path |-> d.path, object |-> disk'[d.path], about |-> about]
  <2>1. Wrong(d, old) => FixIn(rtQ, old)
    BY DEF WorkInv, RtInv
  <2>2. d \in Datas /\ d.path \in Realtime /\ main # "starting" /\ ~singlerun /\ d.path \in Paths
    BY RealtimeAssumption DEF WorkInv, EntriesInv, ThreadsInv
  <2>3. \A e \in Looks(Realtime) : Fixes(e, old) => Fixes(e, new)
    BY Kinds DEF Fixes, Flag
  <2>4. FixIn(rtQ, old) => FixIn(rtQ, new)
    BY <1>5, <2>3 DEF FixIn
  <2>5. CASE d.path # path
    <3>1. disk'[d.path] = disk[d.path]
      BY <1>1, <2>2, <2>5 DEF StateInv
    <3>2. FixIn(rtQ, new)
      BY <2>1, <3>1
    <3>3. FixIn(Append(rtQ, x), new)
      BY <1>5, <3>2, FixAppend
    <3> QED BY <1>2, <3>2, <3>3
  <2>6. CASE d.path = path
    <3>1. rtQ' = Append(rtQ, x)
      BY <1>2, <2>2, <2>6
    <3>2. CASE about = "shape" \/ x.check
      <4>1. Fixes(x, new)
        BY <1>3, <2>6, <3>2 DEF Fixes
      <4> QED BY <1>5, <3>1, <4>1, FixAppend
    <3>3. CASE about = "content" /\ ~x.check
      <4>1. disk'[d.path].type = disk[d.path].type /\ disk'[d.path].content = disk[d.path].content
        BY <1>3, <2>6, <3>3 DEF ContentEvent
      <4>2. Right(d.fd, new) = Right(d.fd, old)
        BY <3>3, <4>1 DEF Right
      <4>3. Wrong(d, old)
        BY <4>2 DEF Wrong
      <4>4. FixIn(rtQ, new)
        BY <2>1, <2>4, <4>3
      <4> QED BY <1>5, <3>1, <4>4, FixAppend
    <3> QED BY <3>2, <3>3
  <2> QED BY <2>5, <2>6
<1> QED BY <1>1, <1>6, <1>7, <1>8, <1>9 DEF WorkInv, ClaimsInv

-----------------------------------------------------------------------------
(* The steps of alert_task *)

\* What it takes from its queue.
LEMMA TakingWork ==
  ASSUME StateInv, WorkInv, dataQ # <<>>, dataQ' = Tail(dataQ), UNCHANGED <<otherThreads, killed, eventQ>>,
         inScan' \in BOOLEAN, Turns(inScan, Head(dataQ), inScan')
  PROVE  WorkInv'
<1> DEFINE x == Head(dataQ)
<1>1. UNCHANGED <<disk, singlerun, main, done, scanQ, eventQ, rtQ, listing, read, killed, quiet>>
  BY DEF otherThreads, envVars, mainVars, constVars
<1>2. dataQ \in Seq(Datas \cup Marks)
  BY DEF WorkInv, EntriesInv
<1> HIDE DEF x
<1>3. EntriesInv'
  <2>1. dataQ' \in Seq(Datas \cup Marks)
    BY <1>2
  <2> QED BY <1>1, <2>1 DEF WorkInv, EntriesInv, OneRead
<1>4. ASSUME NEW flag, IsLast(flag)
      PROVE  IsLast(flag)'
  <2>1. LastIn(scanQ', flag, TRUE) /\ LastIn(eventQ', flag, listing' = {} /\ scanQ' = <<>>)
    BY <1>1, <1>4 DEF IsLast
  <2>2. LastIn(dataQ', flag, read'.event = <<>> /\ eventQ' = <<>> /\ listing' = {} /\ scanQ' = <<>>)
    BY <1>1, <1>2, <1>4, LastTail DEF IsLast
  <2> QED BY <2>1, <2>2 DEF IsLast
<1>5. ThreadsInv'
  BY <1>1, <1>4 DEF WorkInv, ThreadsInv
<1>6. RtInv'
  BY <1>1 DEF WorkInv, RtInv
<1>7. PhasesInv'
  <2>1. PICK m, n \in BOOLEAN : Run(inScan, dataQ, m) /\ Run(m, eventQ, n) /\ Run(n, scanQ, FALSE)
    BY DEF WorkInv, PhasesInv
  <2>2. PICK k \in BOOLEAN : Turns(inScan, x, k) /\ Run(k, dataQ', m)
    BY <1>2, <2>1, RunTail DEF x, StateInv
  <2>3. k = inScan'
    BY <2>2 DEF Turns, x
  <2> QED BY <1>1, <2>1, <2>2, <2>3 DEF PhasesInv
<1> QED BY <1>3, <1>5, <1>6, <1>7 DEF WorkInv

\* A claim is kept if it holds after the object has been taken that holds or fixes
\* it, and that is not wrong.
LEMMA TakingClaim ==
  ASSUME WorkInv, dataQ # <<>>, dataQ' = Tail(dataQ), UNCHANGED <<rtQ, read>>,
         NEW claim, ClaimKept(claim), BehindEvent(claim) => BehindEvent(claim)',
         ~Wrong(Head(dataQ), claim) /\ (Fixes(Head(dataQ), claim) \/ Holds(claim) \/ Unfound(claim)) =>
           Holds(claim)' \/ Unfound(claim)' \/ BehindData(claim)'
  PROVE  ClaimKept(claim)'
<1>1. dataQ \in Seq(Datas \cup Marks)
  BY DEF WorkInv, EntriesInv
<1>2. BehindData(claim) => BehindData(claim)'
  BY DEF BehindData
<1>3. /\ Clean(dataQ', claim, BehindData(claim))
      /\ Wrong(Head(dataQ), claim) => BehindData(claim) \/ FixIn(dataQ', claim)
  BY <1>1, CleanTail, BehindIsBoolean DEF ClaimKept
<1>4. FixIn(dataQ, claim) <=> Fixes(Head(dataQ), claim) \/ FixIn(dataQ', claim)
  BY <1>1, FixTail
<1>5. Clean(dataQ', claim, BehindData(claim)')
  BY <1>2, <1>3 DEF Clean
<1>6. \A i \in DOMAIN read'.event : Wrong(read'.event[i], claim) => BehindEvent(claim)'
  BY DEF ClaimKept
<1>7. Holds(claim)' \/ Unfound(claim)' \/ FixIn(dataQ', claim) \/ BehindData(claim)'
  BY <1>2, <1>3, <1>4 DEF ClaimKept
<1> QED BY <1>5, <1>6, <1>7 DEF ClaimKept

\* The row of an object and what is kept of it stay as they are.
SameRow(path) ==
  /\ path \in DOMAIN db' <=> path \in DOMAIN db
  /\ path \in DOMAIN db => /\ db'[path].type = db[path].type /\ db'[path].attr = db[path].attr
                           /\ db'[path].sha256 = db[path].sha256 /\ db'[path].target = db[path].target
SameKept(path) ==
  /\ path \in DOMAIN insertSet' <=> path \in DOMAIN insertSet
  /\ path \in DOMAIN insertSet => insertSet'[path] = insertSet[path]

\* What changes nothing of an object changes no claim about it.
LEMMA HoldsStill ==
  ASSUME NEW claim, SameRow(claim.path), SameKept(claim.path), claim.path \in overlooked => claim.path \in overlooked',
         Holds(claim)
  PROVE  Holds(claim)'
<1>1. CASE claim.about = "content"
  BY <1>1 DEF Holds, SameRow, SameKept
<1>2. CASE claim.about # "content" /\ Exists(claim.object)
  BY <1>2 DEF Holds, SameRow, SameKept
<1>3. CASE claim.about # "content" /\ ~Exists(claim.object)
  BY <1>3 DEF Holds, SameRow, SameKept
<1> QED BY <1>1, <1>2, <1>3

\* An object gets a row, and nothing more is kept of it.
Written(path, fd) ==
  /\ path \in DOMAIN db' /\ path \notin DOMAIN insertSet'
  /\ db'[path].type = NewRow(fd).type /\ db'[path].attr = NewRow(fd).attr
  /\ db'[path].sha256 = NewRow(fd).sha256 /\ db'[path].target = NewRow(fd).target

\* The row of a new object says what was read.
LEMMA HoldsNew ==
  ASSUME NEW claim, claim.about \in {"shape", "content"}, NEW fd, Right(fd, claim), Written(claim.path, fd),
         claim.about = "shape" => Exists(claim.object) \/ claim.path \in overlooked'
  PROVE  Holds(claim)'
<1>1. CASE claim.about = "content"
  <2>1. /\ claim.object.type = "file" => NewRow(fd).sha256 \in {claim.object.content, NotComputed, Unset}
        /\ claim.object.type = "link" => NewRow(fd).target \in {claim.object.content, ""}
    BY <1>1 DEF Right, NewRow
  <2> QED BY <1>1, <2>1 DEF Holds, Written
<1>2. CASE claim.about # "content" /\ Exists(claim.object)
  <2>1. NewRow(fd).type = claim.object.type /\ NewRow(fd).attr = claim.object.attr
    BY <1>2 DEF Right, NewRow
  <2> QED BY <1>2, <2>1 DEF Holds, Written
<1>3. CASE claim.about # "content" /\ ~Exists(claim.object)
  BY <1>3 DEF Holds
<1> QED BY <1>1, <1>2, <1>3

\* Nothing is said of the content of an object that is gone.
LEMMA HoldsGone ==
  ASSUME NEW claim, ~Exists(claim.object), claim.about = "content"
  PROVE  Holds(claim)'
<1>1. claim.object.type = "unknown"
  <2>1. claim.object = Gone
    BY DEF Exists
  <2>2. Gone.type = "unknown"
    BY DEF Gone
  <2> QED BY <2>1, <2>2
<1>2. \A fd : Right(fd, claim)
  BY <1>1 DEF Right
<1> QED BY <1>1, <1>2 DEF Holds

\* An entry of insert_set gets its row.
LEMMA HoldsWritten ==
  ASSUME NEW claim, claim.about \in {"shape", "content"}, Holds(claim),
         claim.path \notin DOMAIN db, claim.path \in DOMAIN insertSet, Written(claim.path, insertSet[claim.path]),
         claim.path \in overlooked => claim.path \in overlooked'
  PROVE  Holds(claim)'
<1>1. CASE claim.about = "content" \/ Exists(claim.object)
  <2>1. Right(insertSet[claim.path], claim)
    BY <1>1 DEF Holds
  <2> QED BY <1>1, <2>1, HoldsNew
<1>2. CASE claim.about = "shape" /\ ~Exists(claim.object)
  BY <1>2 DEF Holds
<1> QED BY <1>1, <1>2

\* A mark of a scan is all that Scanned changes.
LEMMA ScannedRows ==
  ASSUME NEW rows, NEW paths, \A path \in DOMAIN rows : DOMAIN rows[path] = Columns
  PROVE  /\ DOMAIN Scanned(rows, paths) = DOMAIN rows
         /\ \A path \in DOMAIN rows :
              /\ Scanned(rows, paths)[path].type = rows[path].type
              /\ Scanned(rows, paths)[path].attr = rows[path].attr
              /\ Scanned(rows, paths)[path].sha256 = rows[path].sha256
              /\ Scanned(rows, paths)[path].target = rows[path].target
              /\ Scanned(rows, paths)[path].scanned <=> rows[path].scanned \/ path \in paths
<1>1. DOMAIN Scanned(rows, paths) = DOMAIN rows
  BY DEF Scanned
<1>2. ASSUME NEW path \in DOMAIN rows
      PROVE  /\ Scanned(rows, paths)[path].type = rows[path].type
             /\ Scanned(rows, paths)[path].attr = rows[path].attr
             /\ Scanned(rows, paths)[path].sha256 = rows[path].sha256
             /\ Scanned(rows, paths)[path].target = rows[path].target
             /\ Scanned(rows, paths)[path].scanned <=> rows[path].scanned \/ path \in paths
  <2> DEFINE row == rows[path]
             mark == row.scanned \/ path \in paths
  <2>1. Scanned(rows, paths)[path] = [row EXCEPT !.scanned = mark]
    BY DEF Scanned
  <2>2. DOMAIN row = Columns
    OBVIOUS
  <2> HIDE DEF row
  <2>3. /\ [row EXCEPT !.scanned = mark].type = row.type
        /\ [row EXCEPT !.scanned = mark].attr = row.attr
        /\ [row EXCEPT !.scanned = mark].sha256 = row.sha256
        /\ [row EXCEPT !.scanned = mark].target = row.target
    BY <2>2 DEF Columns
  <2>4. [row EXCEPT !.scanned = mark].scanned = mark
    <3> HIDE DEF mark
    <3> QED BY <2>2 DEF Columns
  <2> QED BY <2>1, <2>3, <2>4 DEF row, mark
<1> QED BY <1>1, <1>2

\* The objects: what is taken of them, and what remains to be shown.
LEMMA DataTaken ==
  ASSUME StateInv, WorkInv, ClaimsInv, NEW known, NEW exists, AlertLooks(known, exists),
         ASSUME NEW claim \in Claims,
                IF claim.path = Head(dataQ).path
                THEN Right(Head(dataQ).fd, claim) /\ (Fixes(Head(dataQ), claim) \/ Holds(claim) \/ Unfound(claim))
                ELSE Holds(claim) \/ Unfound(claim)
         PROVE  Holds(claim)' \/ Unfound(claim)'
  PROVE  WorkInv' /\ ClaimsInv'
<1> DEFINE e == Head(dataQ)
<1>1. dataQ # <<>> /\ dataQ' = Tail(dataQ) /\ e.kind = "data" /\ UNCHANGED <<otherThreads, killed, eventQ, inScan>>
  BY DEF AlertLooks, AlertTakes, AlertReady
<1>2. UNCHANGED <<disk, scanQ, rtQ, listing, read, quiet>>
  BY <1>1 DEF otherThreads, envVars
<1>3. e \notin {Flag("STARTSCAN"), Flag("MIDSCAN"), Flag("ENDSCAN")}
  BY <1>1, Kinds
<1>4. WorkInv'
  <2>1. Turns(inScan, e, inScan') /\ inScan' \in BOOLEAN
    BY <1>1, <1>3 DEF Turns, StateInv
  <2> QED BY <1>1, <2>1, TakingWork
<1>5. ASSUME quiet, NEW claim \in Claims
      PROVE  ClaimKept(claim)'
  <2>1. ClaimKept(claim)
    BY <1>5 DEF ClaimsInv
  <2>2. BehindEvent(claim)' = BehindEvent(claim)
    BY <1>1, <1>2 DEF BehindEvent
  <2>3. Fixes(e, claim) => claim.path = e.path
    BY <1>1, <1>3 DEF Fixes
  <2>4. ~Wrong(e, claim) /\ claim.path = e.path => Right(e.fd, claim)
    BY <1>1 DEF Wrong
  <2>5. ~Wrong(e, claim) /\ (Fixes(e, claim) \/ Holds(claim) \/ Unfound(claim)) => Holds(claim)' \/ Unfound(claim)'
    BY <2>3, <2>4
  <2> QED BY <1>1, <1>2, <2>1, <2>2, <2>5, TakingClaim
<1> QED BY <1>2, <1>4, <1>5, ClaimsSame DEF ClaimsInv

\* What construct has looked at.
LEMMA Constructed ==
  ASSUME NEW object, NEW check
  PROVE  /\ Construct(object, check).exists = Exists(object)
         /\ Construct(object, check).type = object.type
         /\ Construct(object, check).checked = ContentChecked(object, check)
         /\ ContentChecked(object, check) /\ object.type = "file" => Construct(object, check).sha256 = object.content
         /\ ContentChecked(object, check) /\ object.type = "link" => Construct(object, check).target = object.content
<1>1. Construct(object, check).exists = Exists(object)
  BY DEF Construct
<1>2. Construct(object, check).checked = ContentChecked(object, check)
  BY DEF Construct
<1>3. /\ Construct(object, check).type = object.type
      /\ ContentChecked(object, check) /\ object.type = "file" => Construct(object, check).sha256 = object.content
  BY DEF Construct
<1>4. ContentChecked(object, check) /\ object.type = "link" => Construct(object, check).target = object.content
  BY DEF Construct
<1> QED BY <1>1, <1>2, <1>3, <1>4

\* What fixes a claim about the content of an object has looked at it.
LEMMA DataFixes ==
  ASSUME NEW e, e.kind = "data", NEW claim, Fixes(e, claim)
  PROVE  /\ e.path = claim.path
         /\ claim.about = "content" /\ claim.object.readable =>
              /\ claim.object.type = "file" => e.fd.type = "file" /\ e.fd.checked /\ e.fd.sha256 = claim.object.content
              /\ claim.object.type = "link" => e.fd.type = "link" /\ e.fd.checked /\ e.fd.target = claim.object.content
<1>1. e.path = claim.path
  BY Kinds DEF Fixes
<1>2. PICK check : e.fd = Construct(claim.object, check) /\ (claim.about = "content" => check)
  BY Kinds DEF Fixes
<1>3. claim.about = "content" /\ claim.object.readable /\ claim.object.type \in {"file", "link"} =>
        ContentChecked(claim.object, check)
  BY <1>2 DEF ContentChecked
<1>4. /\ e.fd.type = claim.object.type
      /\ e.fd.checked = ContentChecked(claim.object, check)
      /\ ContentChecked(claim.object, check) /\ claim.object.type = "file" => e.fd.sha256 = claim.object.content
      /\ ContentChecked(claim.object, check) /\ claim.object.type = "link" => e.fd.target = claim.object.content
  BY <1>2, Constructed
<1> QED BY <1>1, <1>3, <1>4

\* A row that stays is still to be looked at.
LEMMA UnfoundStill ==
  ASSUME NEW claim, Unfound(claim), inScan', SameRow(claim.path), claim.path \notin Range(updateQ'),
         ~db'[claim.path].scanned
  PROVE  Unfound(claim)'
BY DEF Unfound, SameRow

\* The object is gone and has no row: what was collected of it is overlooked.
LEMMA Ignoring ==
  ASSUME StateInv, WorkInv, ClaimsInv, AlertIgnores
  PROVE  WorkInv' /\ ClaimsInv'
<1> DEFINE e == Head(dataQ)
<1>1. /\ AlertLooks(FALSE, FALSE) /\ e.path \notin DOMAIN db /\ ~e.fd.exists
      /\ overlooked' = overlooked \cup ({e.path} \cap DOMAIN insertSet)
      /\ UNCHANGED <<db, insertSet, updateQ, inScan>>
  BY DEF AlertIgnores, AlertLooks
<1> HIDE DEF e
<1>2. ASSUME NEW claim \in Claims,
             IF claim.path = e.path THEN Right(e.fd, claim) /\ (Fixes(e, claim) \/ Holds(claim) \/ Unfound(claim))
             ELSE Holds(claim) \/ Unfound(claim)
      PROVE  Holds(claim)' \/ Unfound(claim)'
  <2>1. CASE claim.path = e.path /\ claim.about = "shape"
    <3>1. ~Exists(claim.object)
      BY <1>1, <1>2, <2>1 DEF Right
    <3>2. claim.path \notin DOMAIN db' /\ (claim.path \in DOMAIN insertSet' => claim.path \in overlooked')
      BY <1>1, <2>1
    <3> QED BY <2>1, <3>1, <3>2 DEF Holds
  <2>2. CASE Holds(claim)
    <3>1. SameRow(claim.path) /\ SameKept(claim.path)
      BY <1>1 DEF SameRow, SameKept
    <3> QED BY <1>1, <2>2, <3>1, HoldsStill
  <2>3. CASE claim.about = "content" /\ ~Exists(claim.object)
    BY <2>3, HoldsGone
  <2>4. CASE Unfound(claim)
    BY <1>1, <2>4 DEF Unfound
  <2>5. CASE claim.path = e.path /\ claim.about = "content" /\ Fixes(e, claim)
    <3>1. ~Exists(claim.object)
      <4>1. e.kind = "data"
        BY <1>1 DEF AlertLooks, e
      <4>2. PICK check : e.fd = Construct(claim.object, check)
        BY <2>5, <4>1, Kinds DEF Fixes
      <4> QED BY <1>1, <4>2, Constructed
    <3> QED BY <2>5, <3>1, HoldsGone
  <2>6. claim.about \in {"shape", "content"}
    BY ClaimsAre
  <2> QED BY <1>2, <2>1, <2>2, <2>3, <2>4, <2>5, <2>6
<1> QED BY <1>1, <1>2, DataTaken DEF e

\* The object is gone and loses its row.
LEMMA Deleting ==
  ASSUME StateInv, IInv, WorkInv, ClaimsInv, AlertDeletes
  PROVE  WorkInv' /\ ClaimsInv'
<1> DEFINE e == Head(dataQ)
<1>1. /\ AlertLooks(TRUE, FALSE) /\ e.path \in DOMAIN db /\ ~e.fd.exists
      /\ db' = [path \in DOMAIN db \ {e.path} |-> db[path]]
      /\ overlooked' = overlooked \ {e.path}
      /\ UNCHANGED <<insertSet, updateQ, inScan>>
  BY DEF AlertDeletes, AlertLooks
<1> HIDE DEF e
<1>2. e.path \notin DOMAIN insertSet
  BY <1>1 DEF IInv, DatabaseInv, UnwrittenIsUnknown
<1>3. DOMAIN db' = DOMAIN db \ {e.path} /\ \A path \in DOMAIN db' : db'[path] = db[path]
  BY <1>1
<1>4. ASSUME NEW claim \in Claims,
             IF claim.path = e.path THEN Right(e.fd, claim) /\ (Fixes(e, claim) \/ Holds(claim) \/ Unfound(claim))
             ELSE Holds(claim) \/ Unfound(claim)
      PROVE  Holds(claim)' \/ Unfound(claim)'
  <2>1. CASE claim.path = e.path /\ claim.about = "shape"
    <3>1. ~Exists(claim.object)
      BY <1>1, <1>4, <2>1 DEF Right
    <3> QED BY <1>1, <1>2, <1>3, <2>1, <3>1 DEF Holds
  <2>2. CASE claim.path = e.path /\ claim.about = "content"
    BY <1>1, <1>2, <1>3, <2>2 DEF Holds
  <2>3. CASE claim.path # e.path
    <3>1. SameRow(claim.path) /\ SameKept(claim.path)
      BY <1>1, <1>3, <2>3 DEF SameRow, SameKept
    <3>2. CASE Holds(claim)
      BY <1>1, <2>3, <3>1, <3>2, HoldsStill
    <3>3. CASE Unfound(claim)
      BY <1>1, <1>3, <2>3, <3>1, <3>3, UnfoundStill DEF Unfound
    <3> QED BY <1>4, <2>3, <3>2, <3>3
  <2>4. claim.about \in {"shape", "content"}
    BY ClaimsAre
  <2> QED BY <2>1, <2>2, <2>3, <2>4
<1> QED BY <1>1, <1>4, DataTaken DEF e

\* The row becomes what was read, but for what was not looked at.
LEMMA ChangingRow ==
  ASSUME StateInv, IInv, WorkInv, ClaimsInv, AlertChanges
  PROVE  WorkInv' /\ ClaimsInv'
<1> DEFINE e == Head(dataQ)
<1>1. /\ AlertLooks(TRUE, TRUE) /\ e.kind = "data" /\ e.path \in DOMAIN db /\ e.fd.exists
      /\ db' = [db EXCEPT ![e.path] = ChangedRow(db[e.path], e.fd)]
      /\ UNCHANGED <<insertSet, updateQ, overlooked, inScan>>
  BY DEF AlertChanges, AlertLooks
<1> HIDE DEF e
<1>2. e.path \notin DOMAIN insertSet
  BY <1>1 DEF IInv, DatabaseInv, UnwrittenIsUnknown
<1> DEFINE row == ChangedRow(db[e.path], e.fd)
<1>3. /\ DOMAIN db' = DOMAIN db /\ \A path \in DOMAIN db : path # e.path => db'[path] = db[path]
      /\ db'[e.path] = row
  BY <1>1
<1>4. /\ row.type = e.fd.type /\ row.attr = e.fd.attr /\ row.target = e.fd.target
      /\ row.sha256 = IF e.fd.checked THEN e.fd.sha256 ELSE db[e.path].sha256
  BY DEF ChangedRow
<1> HIDE DEF row
<1>5. ASSUME NEW claim \in Claims,
             IF claim.path = e.path THEN Right(e.fd, claim) /\ (Fixes(e, claim) \/ Holds(claim) \/ Unfound(claim))
             ELSE Holds(claim) \/ Unfound(claim)
      PROVE  Holds(claim)' \/ Unfound(claim)'
  <2>1. CASE claim.path = e.path /\ claim.about = "shape"
    <3>1. Exists(claim.object) /\ row.type = claim.object.type /\ row.attr = claim.object.attr
      BY <1>1, <1>4, <1>5, <2>1 DEF Right
    <3> QED BY <1>1, <1>3, <2>1, <3>1 DEF Holds
  <2>2. CASE claim.about = "content" /\ ~Exists(claim.object)
    BY <2>2, HoldsGone
  <2>3. CASE claim.path = e.path /\ claim.about = "content" /\ Exists(claim.object)
    <3>1. Fixes(e, claim) \/ Holds(claim)
      BY <1>5, <2>3 DEF Unfound
    <3>2. ASSUME claim.object.type = "file", claim.object.readable
          PROVE  row.sha256 \in {claim.object.content, NotComputed, Unset}
      <4>1. CASE e.fd.checked
        BY <1>4, <1>5, <2>3, <3>2, <4>1 DEF Right
      <4>2. CASE ~e.fd.checked
        <5>1. Holds(claim)
          BY <1>1, <2>3, <3>1, <3>2, <4>2, DataFixes
        <5>2. db[e.path].sha256 \in {claim.object.content, NotComputed, Unset}
          BY <1>1, <2>3, <3>2, <5>1 DEF Holds
        <5> QED BY <1>4, <4>2, <5>2
      <4> QED BY <4>1, <4>2
    <3>3. ASSUME claim.object.type = "link"
          PROVE  row.target \in {claim.object.content, ""}
      BY <1>4, <1>5, <2>3, <3>3 DEF Right
    <3>4. claim.path \notin DOMAIN insertSet'
      BY <1>1, <1>2, <2>3
    <3>5. db'[claim.path] = row
      BY <1>3, <2>3
    <3> QED BY <2>3, <3>2, <3>3, <3>4, <3>5 DEF Holds
  <2>4. CASE claim.path # e.path
    <3>1. SameRow(claim.path) /\ SameKept(claim.path)
      BY <1>1, <1>3, <2>4 DEF SameRow, SameKept
    <3>2. CASE Holds(claim)
      BY <1>1, <3>1, <3>2, HoldsStill
    <3>3. CASE Unfound(claim)
      BY <1>1, <1>3, <2>4, <3>1, <3>3, UnfoundStill DEF Unfound
    <3> QED BY <1>5, <2>4, <3>2, <3>3
  <2>5. claim.about \in {"shape", "content"}
    BY ClaimsAre
  <2> QED BY <2>1, <2>2, <2>3, <2>4, <2>5
<1> QED BY <1>1, <1>5, DataTaken DEF e

\* The row agrees with what was read, and is marked at once or later.
LEMMA Refreshing ==
  ASSUME StateInv, IInv, WorkInv, ClaimsInv, running, ~errors, AlertRefreshes
  PROVE  WorkInv' /\ ClaimsInv'
<1> DEFINE e == Head(dataQ)
           waiting == Append(updateQ, e.path)
           row == db[e.path]
<1>1. /\ AlertLooks(TRUE, TRUE) /\ e.kind = "data" /\ e.path \in DOMAIN db /\ e.fd.exists /\ ~Differs(row, e.fd)
      /\ UNCHANGED <<insertSet, overlooked, inScan>>
  BY DEF AlertRefreshes, AlertLooks
<1>2. \/ UNCHANGED <<db, updateQ>>
      \/ ~inScan /\ db' = Scanned(db, {e.path}) /\ UNCHANGED updateQ
      \/ updateQ' = waiting /\ UNCHANGED db
      \/ updateQ' = <<>> /\ db' = Scanned(db, Range(waiting))
  BY DEF AlertRefreshes
<1>3. e.path \notin DOMAIN insertSet /\ \A path \in DOMAIN db : DOMAIN db[path] = Columns
  BY <1>1 DEF IInv, DatabaseInv, UnwrittenIsUnknown, Consistent
<1>4. updateQ \in Seq(Paths)
  BY DEF StateInv
<1>5. Range(waiting) = Range(updateQ) \cup {e.path} /\ Range(<<>>) = {}
  <2>1. /\ Len(updateQ) \in Nat /\ DOMAIN updateQ = 1..Len(updateQ) /\ DOMAIN waiting = 1..Len(updateQ) + 1
        /\ \A i \in 1..Len(updateQ) : waiting[i] = updateQ[i]
        /\ waiting[Len(updateQ) + 1] = e.path
    <3>1. updateQ \in Seq(Paths \cup {e.path})
      BY <1>4
    <3> QED BY <3>1
  <2>2. \A i \in DOMAIN waiting : i \in DOMAIN updateQ \/ i = Len(updateQ) + 1
    BY <2>1
  <2>3. Len(updateQ) + 1 \in DOMAIN waiting /\ \A i \in DOMAIN updateQ : i \in DOMAIN waiting
    BY <2>1
  <2> HIDE DEF waiting, e
  <2> QED BY <2>1, <2>2, <2>3 DEF Range
<1> HIDE DEF e, waiting
<1>6. \A path : SameRow(path) /\ SameKept(path)
  <2> TAKE path
  <2>1. SameKept(path)
    BY <1>1 DEF SameKept
  <2>2. SameRow(path)
    <3>1. UNCHANGED db \/ db' = Scanned(db, {e.path}) \/ db' = Scanned(db, Range(waiting))
      BY <1>2
    <3> QED BY <1>3, <3>1, ScannedRows DEF SameRow
  <2> QED BY <2>1, <2>2
<1>7. ASSUME NEW claim \in Claims,
             IF claim.path = e.path THEN Right(e.fd, claim) /\ (Fixes(e, claim) \/ Holds(claim) \/ Unfound(claim))
             ELSE Holds(claim) \/ Unfound(claim)
      PROVE  Holds(claim)' \/ Unfound(claim)'
  <2>1. CASE claim.path = e.path /\ claim.about = "shape"
    <3>1. Exists(claim.object) /\ row.type = claim.object.type /\ row.attr = claim.object.attr
      BY <1>1, <1>7, <2>1 DEF Right, Differs
    <3>2. claim.path \in DOMAIN db' /\ db'[claim.path].type = row.type /\ db'[claim.path].attr = row.attr
      BY <1>1, <1>6, <2>1 DEF SameRow
    <3> QED BY <2>1, <3>1, <3>2 DEF Holds
  <2>2. CASE claim.about = "content" /\ ~Exists(claim.object)
    BY <2>2, HoldsGone
  <2>3. CASE claim.path = e.path /\ claim.about = "content" /\ Exists(claim.object) /\ Fixes(e, claim)
    <3>1. claim.object.type = "file" /\ claim.object.readable => row.sha256 = claim.object.content
      BY <1>1, <2>3, DataFixes DEF Differs, ShaDiffers
    <3>2. claim.object.type = "link" /\ claim.object.readable => row.target = claim.object.content
      BY <1>1, <2>3, DataFixes DEF Differs, TargetDiffers
    <3>3. db'[claim.path].sha256 = row.sha256 /\ db'[claim.path].target = row.target /\ claim.path \notin DOMAIN insertSet'
      BY <1>1, <1>3, <1>6, <2>3 DEF SameRow
    <3> QED BY <2>3, <3>1, <3>2, <3>3 DEF Holds
  <2>4. CASE Holds(claim)
    BY <1>1, <1>6, <2>4, HoldsStill
  <2>5. CASE claim.path # e.path /\ Unfound(claim)
    <3>1. /\ inScan /\ claim.path \in DOMAIN db /\ claim.path \notin Range(updateQ) /\ ~db[claim.path].scanned
          /\ claim.path \notin Range(waiting) /\ claim.path \notin Range(<<>>)
      BY <1>5, <2>5 DEF Unfound
    <3>2. claim.path \notin Range(updateQ')
      BY <1>2, <3>1
    <3>3. ~db'[claim.path].scanned
      BY <1>2, <1>3, <3>1, ScannedRows
    <3> QED BY <1>1, <1>6, <2>5, <3>1, <3>2, <3>3, UnfoundStill
  <2>6. claim.about \in {"shape", "content"} /\ (Unfound(claim) => ~Exists(claim.object))
    BY ClaimsAre DEF Unfound
  <2> QED BY <1>7, <2>1, <2>2, <2>3, <2>4, <2>5, <2>6
<1> QED BY <1>1, <1>7, DataTaken DEF e

\* The rows of a block and the others.
LEMMA Inserted ==
  ASSUME NEW set, NEW paths, db' = Over([path \in paths |-> NewRow(set[path])], db)
  PROVE  /\ DOMAIN db' = paths \cup DOMAIN db
         /\ \A path \in paths : db'[path] = NewRow(set[path])
         /\ \A path \in DOMAIN db \ paths : db'[path] = db[path]
BY DEF Over

\* A new object outside the first phase.
LEMMA InsertingRow ==
  ASSUME StateInv, IInv, WorkInv, ClaimsInv, AlertInserts
  PROVE  WorkInv' /\ ClaimsInv'
<1> DEFINE e == Head(dataQ)
<1>1. /\ AlertLooks(FALSE, TRUE) /\ e.path \notin DOMAIN db /\ e.fd.exists /\ ~inScan
      /\ db' = Over([path \in {e.path} |-> NewRow(Object[path])], db)
      /\ UNCHANGED <<insertSet, updateQ, overlooked, inScan>>
  BY DEF AlertInserts, AlertLooks, InsertRows
<1>2. Object[e.path] = e.fd
  BY DEF Object
<1> HIDE DEF e
<1>3. DOMAIN insertSet = {}
  BY <1>1 DEF IInv, DatabaseInv, UnwrittenIsUnknown
<1>4. /\ DOMAIN db' = {e.path} \cup DOMAIN db /\ db'[e.path] = NewRow(e.fd)
      /\ \A path \in DOMAIN db : db'[path] = db[path]
  <2> DEFINE one == {e.path}
  <2>1. db' = Over([path \in one |-> NewRow(Object[path])], db)
    BY <1>1
  <2>2. e.path \in one /\ \A path \in DOMAIN db : path \notin one
    BY <1>1
  <2> HIDE DEF one
  <2>3. /\ DOMAIN db' = one \cup DOMAIN db
        /\ \A path \in one : db'[path] = NewRow(Object[path])
        /\ \A path \in DOMAIN db \ one : db'[path] = db[path]
    BY <2>1, Inserted
  <2> QED BY <1>2, <2>2, <2>3 DEF one
<1>5. ASSUME NEW claim \in Claims,
             IF claim.path = e.path THEN Right(e.fd, claim) /\ (Fixes(e, claim) \/ Holds(claim) \/ Unfound(claim))
             ELSE Holds(claim) \/ Unfound(claim)
      PROVE  Holds(claim)' \/ Unfound(claim)'
  <2>1. CASE claim.path = e.path
    <3>1. claim.about = "shape" => Exists(claim.object)
      BY <1>1, <1>5, <2>1 DEF Right
    <3>2. Written(claim.path, e.fd)
      BY <1>1, <1>3, <1>4, <2>1 DEF Written
    <3> QED BY <1>5, <2>1, <3>1, <3>2, ClaimsAre, HoldsNew
  <2>2. CASE claim.path # e.path
    <3>1. SameRow(claim.path) /\ SameKept(claim.path)
      BY <1>1, <1>4, <2>2 DEF SameRow, SameKept
    <3>2. Holds(claim)
      BY <1>1, <1>5, <2>2 DEF Unfound
    <3> QED BY <1>1, <3>1, <3>2, HoldsStill
  <2> QED BY <2>1, <2>2
<1> QED BY <1>1, <1>5, DataTaken DEF e

\* A new object in the first phase: it is kept, or the whole block is written.
LEMMA Collecting ==
  ASSUME StateInv, IInv, WorkInv, ClaimsInv, AlertCollects
  PROVE  WorkInv' /\ ClaimsInv'
<1> DEFINE e == Head(dataQ)
<1>1. /\ AlertLooks(FALSE, TRUE) /\ e.path \notin DOMAIN db /\ e.fd.exists
      /\ IF BlockIsFull(Collected)
         THEN insertSet' = <<>> /\ db' = Over([path \in DOMAIN Collected |-> NewRow(Collected[path])], db)
         ELSE insertSet' = Collected /\ UNCHANGED db
      /\ overlooked' = overlooked \ {e.path}
      /\ UNCHANGED <<updateQ, inScan>>
  BY DEF AlertCollects, AlertLooks, InsertRows, Rest
<1>2. /\ DOMAIN Collected = {e.path} \cup DOMAIN insertSet /\ Collected[e.path] = e.fd
      /\ \A path \in DOMAIN insertSet : path # e.path => Collected[path] = insertSet[path]
  BY DEF Collected, Object, Over
<1> HIDE DEF e
<1>3. DOMAIN insertSet \cap DOMAIN db = {}
  BY DEF IInv, DatabaseInv, UnwrittenIsUnknown
<1>4. DOMAIN <<>> = {}
  OBVIOUS
<1>5. ASSUME NEW claim \in Claims,
             IF claim.path = e.path THEN Right(e.fd, claim) /\ (Fixes(e, claim) \/ Holds(claim) \/ Unfound(claim))
             ELSE Holds(claim) \/ Unfound(claim)
      PROVE  Holds(claim)' \/ Unfound(claim)'
  <2>1. claim.about \in {"shape", "content"}
    BY ClaimsAre
  <2>2. CASE BlockIsFull(Collected)
    <3>1. insertSet' = <<>> /\ db' = Over([path \in DOMAIN Collected |-> NewRow(Collected[path])], db)
      BY <1>1, <2>2
    <3>2. /\ DOMAIN db' = DOMAIN Collected \cup DOMAIN db
          /\ \A path \in DOMAIN Collected : Written(path, Collected[path])
          /\ \A path \in DOMAIN db : db'[path] = db[path]
      <4>1. /\ DOMAIN db' = DOMAIN Collected \cup DOMAIN db
            /\ \A path \in DOMAIN Collected : db'[path] = NewRow(Collected[path])
            /\ \A path \in DOMAIN db \ DOMAIN Collected : db'[path] = db[path]
        BY <3>1, Inserted
      <4>2. DOMAIN Collected \cap DOMAIN db = {}
        BY <1>1, <1>2, <1>3
      <4> QED BY <1>4, <3>1, <4>1, <4>2 DEF Written
    <3>3. CASE claim.path = e.path
      <4>1. claim.about = "shape" => Exists(claim.object)
        BY <1>1, <1>5, <3>3 DEF Right
      <4>2. Written(claim.path, e.fd)
        BY <1>2, <3>2, <3>3
      <4> QED BY <1>5, <2>1, <3>3, <4>1, <4>2, HoldsNew
    <3>4. CASE claim.path # e.path /\ claim.path \in DOMAIN insertSet
      <4>1. claim.path \notin DOMAIN db /\ Holds(claim)
        BY <1>3, <1>5, <3>4 DEF Unfound
      <4>2. Written(claim.path, insertSet[claim.path])
        BY <1>2, <3>2, <3>4
      <4>3. claim.path \in overlooked => claim.path \in overlooked'
        BY <1>1, <3>4
      <4> QED BY <2>1, <3>4, <4>1, <4>2, <4>3, HoldsWritten
    <3>5. CASE claim.path # e.path /\ claim.path \notin DOMAIN insertSet
      <4>1. SameRow(claim.path) /\ SameKept(claim.path)
        BY <1>2, <1>4, <3>1, <3>2, <3>5 DEF SameRow, SameKept
      <4>2. CASE Holds(claim)
        BY <1>1, <3>5, <4>1, <4>2, HoldsStill
      <4>3. CASE Unfound(claim)
        BY <1>1, <3>2, <4>1, <4>3, UnfoundStill DEF Unfound
      <4> QED BY <1>5, <3>5, <4>2, <4>3
    <3> QED BY <3>3, <3>4, <3>5
  <2>3. CASE ~BlockIsFull(Collected)
    <3>1. insertSet' = Collected /\ UNCHANGED db
      BY <1>1, <2>3
    <3>2. CASE claim.path = e.path
      <4>1. claim.about = "shape" => Exists(claim.object)
        BY <1>1, <1>5, <3>2 DEF Right
      <4>2. claim.path \in DOMAIN insertSet' /\ insertSet'[claim.path] = e.fd /\ claim.path \notin DOMAIN db'
        BY <1>1, <1>2, <3>1, <3>2
      <4>3. Right(e.fd, claim)
        BY <1>5, <3>2
      <4> QED BY <2>1, <4>1, <4>2, <4>3 DEF Holds
    <3>3. CASE claim.path # e.path
      <4>1. SameRow(claim.path) /\ SameKept(claim.path)
        BY <1>2, <3>1, <3>3 DEF SameRow, SameKept
      <4>2. CASE Holds(claim)
        BY <1>1, <3>3, <4>1, <4>2, HoldsStill
      <4>3. CASE Unfound(claim)
        BY <1>1, <3>1, <4>1, <4>3, UnfoundStill DEF Unfound
      <4> QED BY <1>5, <3>3, <4>2, <4>3
    <3> QED BY <3>2, <3>3
  <2> QED BY <2>2, <2>3
<1> QED BY <1>1, <1>5, DataTaken DEF e

\* The rows are marked in between: every row without an object is looked for.
LEMMA StartingScan ==
  ASSUME StateInv, IInv, WorkInv, ClaimsInv, AlertStartsScan
  PROVE  WorkInv' /\ ClaimsInv'
<1> DEFINE e == Head(dataQ)
<1>1. /\ dataQ # <<>> /\ dataQ' = Tail(dataQ) /\ e = Flag("STARTSCAN") /\ inScan' = TRUE
      /\ db' = [path \in DOMAIN db |-> [db[path] EXCEPT !.scanned = FALSE]]
      /\ UNCHANGED <<otherThreads, eventQ, insertSet, updateQ, killed, overlooked>>
  BY DEF AlertStartsScan, AlertTakes, AlertReady
<1> HIDE DEF e
<1>2. UNCHANGED <<disk, scanQ, rtQ, listing, read, quiet>>
  BY <1>1 DEF otherThreads, envVars
<1>3. ~inScan /\ Turns(inScan, e, inScan')
  <2>1. PICK m \in BOOLEAN : Run(inScan, dataQ, m)
    BY DEF WorkInv, PhasesInv
  <2>2. dataQ \in Seq(Datas \cup Marks) /\ inScan \in BOOLEAN
    BY DEF WorkInv, EntriesInv, StateInv
  <2>3. PICK k \in BOOLEAN : Turns(inScan, e, k)
    BY <1>1, <2>1, <2>2, RunTail DEF e
  <2> QED BY <1>1, <2>3 DEF Turns
<1>4. insertSet = <<>> /\ updateQ = <<>> /\ DOMAIN <<>> = {} /\ Range(<<>>) = {}
  <2>1. DOMAIN <<>> = {}
    OBVIOUS
  <2> QED BY <1>3, <2>1 DEF IInv, DatabaseInv, UnwrittenIsUnknown, Range
<1>5. WorkInv'
  BY <1>1, <1>3, TakingWork DEF e
<1>6. /\ DOMAIN db' = DOMAIN db
      /\ \A path : SameRow(path) /\ (path \in DOMAIN db => ~db'[path].scanned)
  <2>1. \A path \in DOMAIN db : DOMAIN db[path] = Columns
    BY DEF IInv, DatabaseInv, Consistent
  <2>2. \A row : DOMAIN row = Columns =>
          /\ [row EXCEPT !.scanned = FALSE].type = row.type /\ [row EXCEPT !.scanned = FALSE].attr = row.attr
          /\ [row EXCEPT !.scanned = FALSE].sha256 = row.sha256 /\ [row EXCEPT !.scanned = FALSE].target = row.target
          /\ ~[row EXCEPT !.scanned = FALSE].scanned
    BY DEF Columns
  <2>3. DOMAIN db' = DOMAIN db /\ \A path \in DOMAIN db : db'[path] = [db[path] EXCEPT !.scanned = FALSE]
    BY <1>1
  <2>4. ASSUME NEW path \in DOMAIN db
        PROVE  SameRow(path) /\ ~db'[path].scanned
    <3>1. DOMAIN db[path] = Columns /\ db'[path] = [db[path] EXCEPT !.scanned = FALSE]
      BY <2>1, <2>3
    <3> QED BY <2>2, <2>3, <3>1 DEF SameRow
  <2>5. ASSUME NEW path, path \notin DOMAIN db
        PROVE  SameRow(path)
    BY <2>3, <2>5 DEF SameRow
  <2> QED BY <2>3, <2>4, <2>5
<1>7. ASSUME quiet, NEW claim \in Claims
      PROVE  ClaimKept(claim)'
  <2>1. ClaimKept(claim) /\ claim.about \in {"shape", "content"}
    BY <1>7, ClaimsAre DEF ClaimsInv
  <2>2. BehindEvent(claim)' = BehindEvent(claim)
    BY <1>1, <1>2 DEF BehindEvent
  <2>3. Fixes(e, claim) => ~Exists(claim.object)
    BY <1>1, Kinds DEF Fixes
  <2>4. ASSUME Fixes(e, claim)
        PROVE  Holds(claim)' \/ Unfound(claim)'
    <3>1. CASE claim.about = "content"
      BY <2>3, <2>4, <3>1, HoldsGone
    <3>2. CASE claim.about = "shape" /\ claim.path \notin DOMAIN db
      BY <1>1, <1>4, <1>6, <2>3, <2>4, <3>2 DEF Holds
    <3>3. CASE claim.path \in DOMAIN db
      BY <1>1, <1>4, <1>6, <2>3, <2>4, <3>3 DEF Unfound
    <3> QED BY <2>1, <3>1, <3>2, <3>3
  <2>5. Holds(claim) => Holds(claim)'
    BY <1>1, <1>6, HoldsStill DEF SameKept
  <2>6. ~Unfound(claim)
    BY <1>3 DEF Unfound
  <2> QED BY <1>1, <1>2, <2>1, <2>2, <2>4, <2>5, <2>6, TakingClaim DEF e
<1> QED BY <1>2, <1>5, <1>7, ClaimsSame DEF ClaimsInv

\* The end of a scan changes nothing of the rows.
LEMMA EndingScan ==
  ASSUME StateInv, WorkInv, ClaimsInv, AlertEndsScan
  PROVE  WorkInv' /\ ClaimsInv'
<1> DEFINE e == Head(dataQ)
<1>1. dataQ # <<>> /\ dataQ' = Tail(dataQ) /\ e = Flag("ENDSCAN") /\ UNCHANGED <<otherThreads, eventQ, alertVars>>
  BY DEF AlertEndsScan, AlertTakes, AlertReady
<1> HIDE DEF e
<1>2. UNCHANGED <<disk, scanQ, rtQ, listing, read, quiet>>
  BY <1>1 DEF otherThreads, envVars
<1>3. WorkInv'
  <2>1. Turns(inScan, e, inScan') /\ inScan' \in BOOLEAN /\ UNCHANGED killed
    BY <1>1 DEF Turns, Flag, StateInv, alertVars
  <2> QED BY <1>1, <2>1, TakingWork DEF e
<1>4. ASSUME quiet, NEW claim \in Claims
      PROVE  ClaimKept(claim)'
  <2>1. ClaimKept(claim)
    BY <1>4 DEF ClaimsInv
  <2>2. BehindEvent(claim)' = BehindEvent(claim)
    BY <1>1, <1>2 DEF BehindEvent
  <2>3. ~Fixes(e, claim)
    <3>1. e.kind = "ENDSCAN" /\ Flag("STARTSCAN").kind = "STARTSCAN"
      BY <1>1, Kinds
    <3> QED BY <3>1 DEF Fixes
  <2>4. Holds(claim)' = Holds(claim) /\ Unfound(claim)' = Unfound(claim)
    BY <1>1 DEF Holds, Unfound, alertVars
  <2> QED BY <1>1, <1>2, <2>1, <2>2, <2>3, <2>4, TakingClaim DEF e
<1> QED BY <1>2, <1>3, <1>4, ClaimsSame DEF ClaimsInv

\* The second phase looks at the rows of a set.
LEMMA SecondPhaseLooks ==
  ASSUME NEW S \in SUBSET Paths, NEW rows \in SetToSeqs(S)
  PROVE  /\ SecondPhase(rows) \in Seq(Looks(Paths) \cup {Flag("ENDSCAN")})
         /\ LastIn(SecondPhase(rows), Flag("ENDSCAN"), TRUE)
         /\ \A claim : claim.path \in S => FixIn(SecondPhase(rows), claim)
<1> DEFINE n == Cardinality(S)
           looks == [i \in DOMAIN rows |-> Look(rows[i], TRUE, TRUE)]
           end == <<Flag("ENDSCAN")>>
           E == Looks(Paths) \cup {Flag("ENDSCAN")}
<1>1. n \in Nat /\ rows \in [1..n -> S] /\ DOMAIN rows = 1..n /\ \A path \in S : \E i \in 1..n : rows[i] = path
  <2>1. IsFiniteSet(S)
    BY PathsAssumption, FS_Subset
  <2>2. n \in Nat
    BY <2>1, FS_CardinalityType
  <2>3. Cardinality(1..n) = n
    BY <2>2, FS_Interval
  <2>4. rows \in [1..n -> S] /\ \A i, j \in 1..n : i # j => rows[i] # rows[j]
    BY DEF SetToSeqs
  <2>5. rows \in Injection(1..n, S)
    BY <2>4 DEF Injection, IsInjective
  <2>6. rows \in Surjection(1..n, S)
    BY <2>1, <2>3, <2>5, FS_Injection
  <2> QED BY <2>2, <2>4, <2>6 DEF Surjection
<1>2. SecondPhase(rows) = looks \o end
  BY DEF SecondPhase
<1>3. /\ looks \in [1..n -> Looks(Paths)]
      /\ \A i \in 1..n : looks[i] = Look(rows[i], TRUE, TRUE)
  <2>1. \A p \in Paths, c \in BOOLEAN, f \in BOOLEAN : Look(p, c, f) \in Looks(Paths)
    BY DEF Looks
  <2>2. \A i \in 1..n : looks[i] = Look(rows[i], TRUE, TRUE) /\ rows[i] \in Paths
    BY <1>1
  <2>3. looks \in [1..n -> Looks(Paths)]
    BY <1>1, <2>1, <2>2
  <2> QED BY <2>2, <2>3
<1> HIDE DEF looks, n
<1>4. looks \in Seq(E) /\ Len(looks) = n /\ DOMAIN looks = 1..n
  <2>1. looks \in [1..n -> E]
    BY <1>3
  <2> HIDE DEF E
  <2> QED BY <1>1, <2>1
<1>5. end \in Seq(E) /\ looks \o end = Append(looks, Flag("ENDSCAN"))
  <2>1. Flag("ENDSCAN") \in E
    OBVIOUS
  <2> HIDE DEF E
  <2> QED BY <1>4, <2>1
<1>6. looks \o end \in Seq(E)
  <2> HIDE DEF E, end
  <2> QED BY <1>4, <1>5
<1>7. LastIn(looks \o end, Flag("ENDSCAN"), TRUE)
  <2>1. LastIn(looks, Flag("ENDSCAN"), FALSE)
    BY <1>1, <1>3, <1>4, Kinds DEF LastIn
  <2> HIDE DEF E, end
  <2> QED BY <1>4, <1>5, <2>1, LastAppend
<1>8. ASSUME NEW claim, claim.path \in S
      PROVE  FixIn(looks \o end, claim)
  <2>1. PICK i \in 1..n : rows[i] = claim.path
    BY <1>1, <1>8
  <2>2. Fixes(looks[i], claim)
    BY <1>3, <2>1 DEF Fixes, Look
  <2>3. FixIn(looks, claim)
    BY <1>4, <2>2 DEF FixIn
  <2> HIDE DEF E, end
  <2> QED BY <1>4, <1>5, <2>3, FixConcat
<1> QED BY <1>2, <1>6, <1>7, <1>8

\* The entries that are written and the rows that are marked.
LEMMA MidScanRows ==
  ASSUME IInv, AlertMidScan
  PROVE  /\ \A path \in DOMAIN insertSet : Written(path, insertSet[path])
         /\ \A path : path \notin DOMAIN insertSet => SameRow(path) /\ SameKept(path)
         /\ DOMAIN db' = DOMAIN insertSet \cup DOMAIN db
<1> DEFINE new == Over([path \in DOMAIN insertSet |-> NewRow(insertSet[path])], db)
<1>1. db' = Scanned(new, Range(updateQ)) /\ insertSet' = <<>> /\ DOMAIN <<>> = {}
  BY DEF AlertMidScan
<1>2. /\ DOMAIN new = DOMAIN insertSet \cup DOMAIN db
      /\ \A path \in DOMAIN insertSet : new[path] = NewRow(insertSet[path])
      /\ \A path \in DOMAIN db \ DOMAIN insertSet : new[path] = db[path]
  BY DEF Over
<1> HIDE DEF new
<1>3. \A path \in DOMAIN new : DOMAIN new[path] = Columns
  <2>1. \A fd : DOMAIN NewRow(fd) = Columns
    BY DEF NewRow, Columns
  <2>2. \A path \in DOMAIN db : DOMAIN db[path] = Columns
    BY DEF IInv, DatabaseInv, Consistent
  <2> QED BY <1>2, <2>1, <2>2
<1>4. DOMAIN db' = DOMAIN new
  BY <1>1, <1>3, ScannedRows
<1>5. \A path \in DOMAIN new : /\ db'[path].type = new[path].type /\ db'[path].attr = new[path].attr
                               /\ db'[path].sha256 = new[path].sha256 /\ db'[path].target = new[path].target
  BY <1>1, <1>3, ScannedRows
<1>6. \A path \in DOMAIN insertSet : Written(path, insertSet[path])
  BY <1>1, <1>2, <1>4, <1>5 DEF Written
<1>7. \A path : path \notin DOMAIN insertSet => SameRow(path) /\ SameKept(path)
  BY <1>1, <1>2, <1>4, <1>5 DEF SameRow, SameKept
<1> QED BY <1>2, <1>4, <1>6, <1>7

\* What is kept is written, and rows that were not found get an event.
LEMMA MidScanning ==
  ASSUME StateInv, IInv, WorkInv, ClaimsInv, running, ~errors, AlertMidScan
  PROVE  WorkInv' /\ ClaimsInv'
<1> DEFINE e == Head(dataQ)
           missing == {path \in DOMAIN db : ~db[path].scanned}
           end == Flag("ENDSCAN")
<1>1. /\ dataQ # <<>> /\ dataQ' = Tail(dataQ) /\ e = Flag("MIDSCAN") /\ inScan' = FALSE
      /\ insertSet' = <<>> /\ updateQ' = <<>>
      /\ UNCHANGED <<otherThreads, killed, overlooked>>
  BY DEF AlertMidScan, AlertTakes, AlertReady
<1>2. PICK rows \in SetToSeqs(missing) : eventQ' = eventQ \o SecondPhase(rows)
  BY DEF AlertMidScan
<1>3. missing \in SUBSET Paths
  BY DEF StateInv
<1> HIDE DEF e
<1>4. UNCHANGED <<disk, singlerun, main, done, scanQ, rtQ, listing, read, quiet>>
  BY <1>1 DEF otherThreads, envVars, mainVars, constVars
<1>5. /\ SecondPhase(rows) \in Seq(Looks(Paths) \cup {end})
      /\ LastIn(SecondPhase(rows), end, TRUE)
      /\ \A claim : claim.path \in missing => FixIn(SecondPhase(rows), claim)
  <2> HIDE DEF missing
  <2> QED BY <1>3, SecondPhaseLooks
<1>6. end \in Marks
  BY DEF Marks
<1> DEFINE more == SecondPhase(rows)
<1> HIDE DEF missing, more, end
<1>7. dataQ \in Seq(Datas \cup Marks) /\ eventQ \in Seq(Looks(Paths) \cup Marks)
  BY DEF WorkInv, EntriesInv
<1>8. more \in Seq(Looks(Paths) \cup {end}) /\ more \in Seq(Looks(Paths) \cup Marks) /\ eventQ' = eventQ \o more
  BY <1>2, <1>5, <1>6 DEF more
<1>9. EntriesInv'
  <2>1. dataQ' \in Seq(Datas \cup Marks)
    BY <1>1, <1>7
  <2>2. eventQ' \in Seq(Looks(Paths) \cup Marks)
    BY <1>7, <1>8
  <2> QED BY <1>4, <2>1, <2>2 DEF WorkInv, EntriesInv, OneRead
<1>10. \A x \in Looks(Paths) \cup {end} : x \notin {Flag("STARTSCAN"), Flag("MIDSCAN")}
  BY Kinds DEF end
<1>11. ASSUME singlerun
       PROVE  IsLast(Flag("MIDSCAN"))' /\ IsLast(Flag("ENDSCAN"))'
  <2>1. dataQ' = <<>> /\ eventQ = <<>> /\ listing = {} /\ scanQ = <<>>
    <3>1. LastIn(dataQ, e, read.event = <<>> /\ eventQ = <<>> /\ listing = {} /\ scanQ = <<>>)
      BY <1>1, <1>11 DEF WorkInv, ThreadsInv, IsLast
    <3> QED BY <1>1, <1>7, <3>1, LastTail DEF e
  <2>2. eventQ' = more
    BY <1>8, <2>1
  <2>3. LastIn(more, end, TRUE) /\ LastIn(more, Flag("MIDSCAN"), TRUE)
    <3>1. \A i \in DOMAIN more : more[i] # Flag("MIDSCAN")
      BY <1>8, <1>10
    <3> QED BY <1>5, <3>1 DEF LastIn, more
  <2>4. \A flag, rest : LastIn(<<>>, flag, rest)
    BY DEF LastIn
  <2>5. ASSUME NEW flag, LastIn(more, flag, TRUE)
        PROVE  IsLast(flag)'
    <3>1. LastIn(more, flag, listing' = {} /\ scanQ' = <<>>)
      BY <1>4, <2>1, <2>5 DEF LastIn
    <3> QED BY <1>4, <2>1, <2>2, <2>4, <3>1 DEF IsLast
  <2> QED BY <2>3, <2>5 DEF end
<1>12. ThreadsInv'
  BY <1>1, <1>4, <1>11 DEF WorkInv, ThreadsInv
<1>13. RtInv'
  BY <1>4 DEF WorkInv, RtInv
<1>14. PhasesInv'
  <2>1. PICK m, n \in BOOLEAN : Run(inScan, dataQ, m) /\ Run(m, eventQ, n) /\ Run(n, scanQ, FALSE)
    BY DEF WorkInv, PhasesInv
  <2>2. PICK k \in BOOLEAN : Turns(inScan, e, k) /\ Run(k, dataQ', m)
    BY <1>1, <1>7, <2>1, RunTail DEF e, StateInv
  <2>3. k = FALSE
    BY <1>1, <2>2 DEF Turns, Flag
  <2>4. Run(n, more, n)
    BY <1>8, <1>10, <2>1, RunSteady
  <2>5. Run(m, eventQ', n)
    BY <1>7, <1>8, <2>1, <2>4, RunConcat
  <2> QED BY <1>1, <1>4, <2>1, <2>2, <2>3, <2>5 DEF PhasesInv
<1>15. ASSUME quiet, NEW claim \in Claims
       PROVE  ClaimKept(claim)'
  <2>1. ClaimKept(claim) /\ claim.about \in {"shape", "content"}
    BY <1>15, ClaimsAre DEF ClaimsInv
  <2>2. FixIn(eventQ', claim) <=> FixIn(eventQ, claim) \/ FixIn(more, claim)
    BY <1>7, <1>8, FixConcat
  <2>3. BehindEvent(claim) => BehindEvent(claim)'
    BY <1>4, <2>2 DEF BehindEvent
  <2>4. ~Fixes(e, claim)
    <3>1. e.kind = "MIDSCAN" /\ Flag("STARTSCAN").kind = "STARTSCAN"
      BY <1>1, Kinds
    <3> QED BY <3>1 DEF Fixes
  <2>5. ASSUME Unfound(claim)
        PROVE  BehindData(claim)'
    <3>1. FixIn(more, claim)
      BY <1>5, <2>5 DEF Unfound, missing, more
    <3> QED BY <2>2, <3>1 DEF BehindData, BehindEvent
  <2>6. ASSUME Holds(claim)
        PROVE  Holds(claim)'
    <3>1. CASE claim.path \in DOMAIN insertSet
      <4>1. claim.path \notin DOMAIN db
        BY <3>1 DEF IInv, DatabaseInv, UnwrittenIsUnknown
      <4> QED BY <1>1, <2>1, <2>6, <3>1, <4>1, MidScanRows, HoldsWritten
    <3>2. CASE claim.path \notin DOMAIN insertSet
      BY <1>1, <2>6, <3>2, MidScanRows, HoldsStill
    <3> QED BY <3>1, <3>2
  <2> QED BY <1>1, <1>4, <2>1, <2>3, <2>4, <2>5, <2>6, TakingClaim DEF e
<1> QED BY <1>4, <1>9, <1>12, <1>13, <1>14, <1>15, ClaimsSame DEF WorkInv, ClaimsInv

-----------------------------------------------------------------------------
(* The invariant is kept *)

\* Nothing happens.
LEMMA Resting ==
  ASSUME StateInv, WorkInv, ClaimsInv, UNCHANGED vars
  PROVE  WorkInv' /\ ClaimsInv'
<1>1. UNCHANGED <<disk, singlerun, main, done, scanQ, eventQ, rtQ, dataQ, listing, read, alertVars, quiet>>
  BY DEF vars, envVars, mainVars, constVars, queues
<1>2. \A flag : IsLast(flag)' = IsLast(flag)
  BY <1>1 DEF IsLast
<1>3. WorkInv'
  BY <1>1, <1>2 DEF WorkInv, EntriesInv, OneRead, ThreadsInv, RtInv, PhasesInv, alertVars
<1>4. ASSUME quiet, NEW claim \in Claims
      PROVE  ClaimKept(claim)'
  <2>1. ClaimKept(claim)
    BY <1>4 DEF ClaimsInv
  <2>2. BehindEvent(claim)' = BehindEvent(claim)
    BY <1>1 DEF BehindEvent
  <2>3. BehindData(claim)' = BehindData(claim)
    BY <1>1, <2>2 DEF BehindData
  <2> QED BY <1>1, <2>1, <2>2, <2>3, ClaimStays DEF ClaimKept
<1> QED BY <1>1, <1>3, <1>4, ClaimsSame DEF ClaimsInv

\* Every step of the working threads keeps the claims.
LEMMA WorkIsKept ==
  ASSUME ExactInv, IInv, [Next]_vars, Working'
  PROVE  WorkInv' /\ ClaimsInv'
<1>1. Working /\ WorkStep
  BY WorkGoesOn
<1>2. StateInv /\ WorkInv /\ ClaimsInv /\ QueuesInv /\ running /\ ~errors
  BY <1>1 DEF ExactInv, Working, IInv
<1>3. CASE MainStarts \/ MainScans \/ (\E path \in Paths : Change(path)) \/ UNCHANGED vars
  BY <1>2, <1>3, MainStarting, MainScanning, Changing, Resting
<1>4. CASE ScanPasses \/ ScanOpens \/ (\E path \in Paths : ScanLists(path)) \/ ScanFails
  BY <1>2, <1>4, ScanPassing, ScanOpening, ScanListing, ScanFailing
<1>5. CASE EventPasses \/ EventReads \/ EventPushes \/ RtEventReads \/ RtEventPushes
  BY <1>2, <1>5, EventPassing, EventReading, EventPushing, RtEventReading, RtEventPushing
<1>6. CASE AlertStartsScan \/ AlertMidScan \/ AlertEndsScan
  BY <1>2, <1>6, StartingScan, MidScanning, EndingScan
<1>7. CASE AlertIgnores \/ AlertDeletes \/ AlertChanges \/ AlertRefreshes \/ AlertInserts \/ AlertCollects
  BY <1>2, <1>7, Ignoring, Deleting, ChangingRow, Refreshing, InsertingRow, Collecting
<1> QED BY <1>1, <1>3, <1>4, <1>5, <1>6, <1>7 DEF WorkStep

\* Drained, as far as it concerns claims.
Idle ==
  /\ scanQ = <<>> /\ eventQ = <<>> /\ rtQ = <<>> /\ dataQ = <<>>
  /\ listing = {} /\ read.event = <<>> /\ read.rtevent = <<>>

\* With nothing left that could make them true, all claims hold.
LEMMA NothingLeft == WorkInv /\ ClaimsInv /\ Idle => ~inScan /\ (quiet => AllHold)
<1> SUFFICES ASSUME WorkInv, ClaimsInv, Idle
             PROVE  ~inScan /\ (quiet => AllHold)
  OBVIOUS
<1>1. ~inScan
  BY RunEmpty DEF WorkInv, PhasesInv, Idle
<1>2. ASSUME quiet, NEW claim \in Claims
      PROVE  Holds(claim)
  <2>1. ClaimKept(claim)
    BY <1>2 DEF ClaimsInv
  <2>2. ~FixIn(dataQ, claim) /\ ~BehindData(claim)
    BY FixOne DEF Idle, BehindData, BehindEvent
  <2> QED BY <1>1, <2>1, <2>2 DEF ClaimKept, Unfound
<1> QED BY <1>1, <1>2 DEF AllHold

LEMMA NothingLeftNext == WorkInv' /\ ClaimsInv' /\ Idle' => ~inScan' /\ (quiet' => AllHold')
BY NothingLeft, PTL

\* The heads of the queues name watched directories and paths.
LEMMA HeadsKnown ==
  ASSUME ExactInv, running, ~errors
  PROVE  /\ scanQ # <<>> /\ Head(scanQ).kind = "list" => Directories[Head(scanQ).dir] \subseteq Paths
         /\ dataQ # <<>> /\ Head(dataQ).kind = "data" => Head(dataQ).path \in Paths
<1>1. CASE Working
  <2>1. EntriesInv
    BY <1>1 DEF ExactInv, WorkInv
  <2>2. scanQ # <<>> /\ Head(scanQ).kind = "list" => Directories[Head(scanQ).dir] \subseteq Paths
    <3> SUFFICES ASSUME scanQ # <<>>, Head(scanQ).kind = "list" PROVE Directories[Head(scanQ).dir] \subseteq Paths
      OBVIOUS
    <3>1. Head(scanQ).dir \in DOMAIN Directories
      BY <2>1, Heads, Kinds
    <3> QED BY <3>1, DirectoriesAssumption
  <2>3. dataQ # <<>> /\ Head(dataQ).kind = "data" => Head(dataQ).path \in Paths
    BY <2>1, Heads, Kinds
  <2> QED BY <2>2, <2>3
<1>2. CASE Ended
  <2>1. scanQ \in Seq({KILL}) /\ dataQ \in Seq({KILL})
    BY <1>2 DEF ExactInv, EndInv
  <2>2. \A q \in Seq({KILL}) : q # <<>> => Head(q) = KILL
    OBVIOUS
  <2> QED BY <2>1, <2>2, Kinds
<1>3. Working \/ Ended
  BY DEF ExactInv, StateInv, Working, Ended
<1> QED BY <1>1, <1>2, <1>3

\* What alert_task has stays within the paths.
PathsInv == DOMAIN db \subseteq Paths /\ DOMAIN insertSet \subseteq Paths /\ updateQ \in Seq(Paths)

\* What is taken from dataQ is about a path, so is what becomes of it.
LEMMA PathsKept ==
  ASSUME ExactInv, IInv, running, ~errors, ~errors', [Next]_vars
  PROVE  PathsInv'
<1>1. PathsInv
  BY DEF ExactInv, StateInv, PathsInv
<1>2. DOMAIN <<>> = {} /\ <<>> \in Seq(Paths)
  OBVIOUS
<1>3. CASE UNCHANGED <<db, insertSet, updateQ>>
  BY <1>1, <1>3 DEF PathsInv
<1>4. CASE AlertEnds
  BY <1>1, <1>2, <1>4 DEF AlertEnds, AlertReturns, PathsInv
<1>5. CASE AlertStartsScan
  BY <1>1, <1>5 DEF AlertStartsScan, PathsInv
<1>6. CASE AlertMidScan
  <2>1. insertSet' = <<>> /\ updateQ' = <<>>
    BY <1>6 DEF AlertMidScan
  <2> QED BY <1>1, <1>2, <1>6, <2>1, MidScanRows DEF PathsInv
<1>7. ASSUME NEW known, NEW exists, AlertLooks(known, exists)
      PROVE  Head(dataQ).path \in Paths
  BY <1>7, HeadsKnown DEF AlertLooks, AlertTakes, AlertReady
<1>8. CASE AlertDeletes
  BY <1>1, <1>8 DEF AlertDeletes, PathsInv
<1>9. CASE AlertChanges
  BY <1>1, <1>9 DEF AlertChanges, PathsInv
<1>10. CASE AlertRefreshes
  <2>1. Append(updateQ, Head(dataQ).path) \in Seq(Paths)
    <3>1. AlertLooks(TRUE, TRUE)
      BY <1>10 DEF AlertRefreshes
    <3>2. Head(dataQ).path \in Paths
      BY <1>7, <3>1
    <3> QED BY <1>1, <3>2 DEF PathsInv
  <2>2. UNCHANGED updateQ \/ updateQ' = Append(updateQ, Head(dataQ).path) \/ updateQ' = <<>>
    BY <1>10 DEF AlertRefreshes
  <2>3. UNCHANGED insertSet /\ (UNCHANGED db \/ \E paths : db' = Scanned(db, paths))
    BY <1>10 DEF AlertRefreshes
  <2>4. \A paths : DOMAIN Scanned(db, paths) = DOMAIN db
    BY DEF Scanned
  <2> QED BY <1>1, <1>2, <2>1, <2>2, <2>3, <2>4 DEF PathsInv
<1>11. CASE AlertInserts
  <2>1. DOMAIN db' = {Head(dataQ).path} \cup DOMAIN db /\ UNCHANGED <<insertSet, updateQ>>
    BY <1>11 DEF AlertInserts, InsertRows, Over
  <2> QED BY <1>1, <1>7, <1>11, <2>1 DEF AlertInserts, PathsInv
<1>12. CASE AlertCollects
  <2>1. DOMAIN Collected = {Head(dataQ).path} \cup DOMAIN insertSet
    BY DEF Collected, Object, Over
  <2>2. DOMAIN Collected \subseteq Paths
    BY <1>1, <1>7, <1>12, <2>1 DEF AlertCollects, PathsInv
  <2>3. insertSet' \in {<<>>, Collected} /\ UNCHANGED updateQ
    BY <1>12 DEF AlertCollects, Rest
  <2>4. UNCHANGED db \/ DOMAIN db' = DOMAIN Collected \cup DOMAIN db
    <3>1. CASE BlockIsFull(Collected)
      BY <1>12, <3>1 DEF AlertCollects, InsertRows, Over
    <3>2. CASE ~BlockIsFull(Collected)
      BY <1>12, <3>2 DEF AlertCollects
    <3> QED BY <3>1, <3>2
  <2> QED BY <1>1, <1>2, <2>2, <2>3, <2>4 DEF PathsInv
<1>13. CASE AlertThrows
  BY <1>13 DEF AlertThrows
<1>14. CASE AlertEndsScan \/ AlertIgnores
  BY <1>3, <1>14 DEF AlertEndsScan, AlertIgnores, alertVars
<1>15. CASE Main \/ MainScans \/ MainSignal \/ WatchEnds \/ OutputEnds
  BY <1>3, <1>15 DEF Main, MainStarts, MainPolls, MainSignal, MainStops, MainAwaitsScan, MainExits, MainScans, WatchEnds,
                     OutputEnds, alertVars
<1>16. CASE \E path \in Paths : Change(path) \/ ScanLists(path)
  BY <1>3, <1>16 DEF Change, ScanLists, alertVars
<1>17. CASE ScanEnds \/ ScanPasses \/ ScanOpens \/ ScanFails
  BY <1>3, <1>17 DEF ScanEnds, ScanPasses, ScanOpens, ScanFails, alertVars
<1>18. CASE Event \/ RtEvent
  BY <1>3, <1>18 DEF Event, EventEnds, EventPasses, EventReads, EventPushes, EventThrows, RtEvent, RtEventEnds,
                     RtEventReads, RtEventPushes, RtEventThrows, alertVars
<1>19. CASE UNCHANGED vars
  BY <1>3, <1>19 DEF vars, alertVars
<1> QED BY <1>4, <1>5, <1>6, <1>8, <1>9, <1>10, <1>11, <1>12, <1>13, <1>14, <1>15, <1>16, <1>17, <1>18, <1>19
        DEF Next, Scan, Alert

\* The types of the state.
LEMMA StateKept ==
  ASSUME ExactInv, IInv, [Next]_vars
  PROVE  StateInv'
<1>1. StateInv
  BY DEF ExactInv
<1>2. ASSUME NEW path \in Paths, Change(path)
      PROVE  disk' \in [Paths -> Objects \cup {Gone}] /\ changes' \in [Paths -> Seq(Objects \cup {Gone})]
  <2> DEFINE O == Objects \cup {Gone}
  <2>1. changes[path] \in Seq(O) /\ changes[path] # <<>>
    BY <1>1, <1>2 DEF StateInv, Change
  <2>2. Head(changes[path]) \in O /\ Tail(changes[path]) \in Seq(O)
    <3> HIDE DEF O
    <3> QED BY <2>1
  <2>3. disk' = [disk EXCEPT ![path] = Head(changes[path])] /\ changes' = [changes EXCEPT ![path] = Tail(changes[path])]
    BY <1>2 DEF Change
  <2>4. disk \in [Paths -> O] /\ changes \in [Paths -> Seq(O)]
    BY <1>1 DEF StateInv
  <2> HIDE DEF O
  <2>5. disk' \in [Paths -> O] /\ changes' \in [Paths -> Seq(O)]
    BY <2>2, <2>3, <2>4
  <2> QED BY <2>5 DEF O
<1>3. ~(\E path \in Paths : Change(path)) => UNCHANGED <<disk, changes>>
  <2>1. CASE Main \/ MainScans \/ MainSignal \/ WatchEnds \/ OutputEnds
    BY <2>1 DEF Main, MainStarts, MainPolls, MainSignal, MainStops, MainAwaitsScan, MainExits, MainScans, WatchEnds,
                OutputEnds, envVars
  <2>2. CASE Scan
    BY <2>2 DEF Scan, ScanEnds, ScanPasses, ScanOpens, ScanFails, ScanLists, envVars
  <2>3. CASE Event \/ RtEvent
    BY <2>3 DEF Event, EventEnds, EventPasses, EventReads, EventPushes, EventThrows, RtEvent, RtEventEnds,
                RtEventReads, RtEventPushes, RtEventThrows, envVars
  <2>4. CASE AlertEnds \/ AlertStartsScan \/ AlertMidScan \/ AlertEndsScan \/ AlertThrows
    BY <2>4 DEF AlertEnds, AlertStartsScan, AlertMidScan, AlertEndsScan, AlertThrows, otherThreads, envVars
  <2>5. CASE AlertIgnores \/ AlertDeletes \/ AlertChanges \/ AlertRefreshes \/ AlertInserts \/ AlertCollects
    <3>1. \E known, exists : AlertLooks(known, exists)
      BY <2>5 DEF AlertIgnores, AlertDeletes, AlertChanges, AlertRefreshes, AlertInserts, AlertCollects
    <3> QED BY <3>1 DEF AlertLooks, otherThreads, envVars
  <2>6. CASE UNCHANGED vars
    BY <2>6 DEF vars, envVars
  <2> QED BY <2>1, <2>2, <2>3, <2>4, <2>5, <2>6 DEF Next, Alert
<1>4. disk' \in [Paths -> Objects \cup {Gone}] /\ changes' \in [Paths -> Seq(Objects \cup {Gone})]
  BY <1>1, <1>2, <1>3 DEF StateInv
<1>5. /\ quiet' \in {TRUE, FALSE, quiet} /\ inScan' \in {TRUE, FALSE, inScan} /\ singlerun' = singlerun
      /\ running' \in {FALSE, running} /\ errors' \in {TRUE, errors} /\ scanRunning' \in {TRUE, FALSE, scanRunning}
  <2>1. CASE Main \/ MainScans \/ MainSignal \/ WatchEnds \/ OutputEnds
    BY <2>1 DEF Main, MainStarts, MainPolls, MainSignal, MainStops, MainAwaitsScan, MainExits, MainScans, WatchEnds,
                OutputEnds, mainVars, constVars, alertVars
  <2>2. CASE \E path \in Paths : Change(path) \/ ScanLists(path)
    BY <2>2 DEF Change, ScanLists, mainVars, constVars, alertVars
  <2>3. CASE ScanEnds \/ ScanPasses \/ ScanOpens \/ ScanFails
    BY <2>3 DEF ScanEnds, ScanPasses, ScanOpens, ScanFails, mainVars, constVars, alertVars
  <2>4. CASE Event \/ RtEvent
    BY <2>4 DEF Event, EventEnds, EventPasses, EventReads, EventPushes, EventThrows, RtEvent, RtEventEnds,
                RtEventReads, RtEventPushes, RtEventThrows, mainVars, constVars, alertVars
  <2>5. CASE AlertEnds \/ AlertStartsScan \/ AlertMidScan \/ AlertEndsScan \/ AlertThrows
    BY <2>5 DEF AlertEnds, AlertStartsScan, AlertMidScan, AlertEndsScan, AlertThrows, AlertReturns, otherThreads,
                mainVars, constVars, alertVars
  <2>6. CASE AlertIgnores \/ AlertDeletes \/ AlertChanges \/ AlertRefreshes \/ AlertInserts \/ AlertCollects
    <3>1. \E known, exists : AlertLooks(known, exists)
      BY <2>6 DEF AlertIgnores, AlertDeletes, AlertChanges, AlertRefreshes, AlertInserts, AlertCollects
    <3> QED BY <3>1 DEF AlertLooks, otherThreads, mainVars, constVars
  <2>7. CASE UNCHANGED vars
    BY <2>7 DEF vars, mainVars, constVars, alertVars
  <2> QED BY <2>1, <2>2, <2>3, <2>4, <2>5, <2>6, <2>7 DEF Next, Scan, Alert
<1>6. ASSUME running', ~errors'
      PROVE  listing' \subseteq Paths /\ PathsInv'
  <2>1. running /\ ~errors /\ listing \subseteq Paths
    BY <1>1, <1>6, Before DEF StateInv
  <2>2. PathsInv'
    BY <1>6, <2>1, PathsKept
  <2> SUFFICES listing' \subseteq Paths
    BY <2>2
  <2>3. CASE ScanOpens
    BY <2>1, <2>3, HeadsKnown DEF ScanOpens, ScanReady
  <2>4. CASE \E path \in Paths : Change(path) \/ ScanLists(path)
    BY <2>1, <2>4 DEF Change, ScanLists
  <2>5. CASE ScanEnds \/ ScanPasses \/ ScanFails
    BY <2>1, <2>5 DEF ScanEnds, ScanPasses, ScanFails
  <2>6. CASE Main \/ MainScans \/ MainSignal \/ WatchEnds \/ OutputEnds
    BY <2>1, <2>6 DEF Main, MainStarts, MainPolls, MainSignal, MainStops, MainAwaitsScan, MainExits, MainScans, WatchEnds,
                      OutputEnds
  <2>7. CASE Event \/ RtEvent
    BY <2>1, <2>7 DEF Event, EventEnds, EventPasses, EventReads, EventPushes, EventThrows, RtEvent, RtEventEnds,
                      RtEventReads, RtEventPushes, RtEventThrows
  <2>8. CASE AlertEnds \/ AlertStartsScan \/ AlertMidScan \/ AlertEndsScan \/ AlertThrows
    BY <2>1, <2>8 DEF AlertEnds, AlertStartsScan, AlertMidScan, AlertEndsScan, AlertThrows, otherThreads
  <2>9. CASE AlertIgnores \/ AlertDeletes \/ AlertChanges \/ AlertRefreshes \/ AlertInserts \/ AlertCollects
    <3>1. \E known, exists : AlertLooks(known, exists)
      BY <2>9 DEF AlertIgnores, AlertDeletes, AlertChanges, AlertRefreshes, AlertInserts, AlertCollects
    <3> QED BY <2>1, <3>1 DEF AlertLooks, otherThreads
  <2>10. CASE UNCHANGED vars
    BY <2>1, <2>10 DEF vars
  <2> QED BY <2>3, <2>4, <2>5, <2>6, <2>7, <2>8, <2>9, <2>10 DEF Next, Scan, Alert
<1>7. /\ singlerun' \in BOOLEAN /\ quiet' \in BOOLEAN /\ inScan' \in BOOLEAN /\ running' \in BOOLEAN
      /\ errors' \in BOOLEAN /\ scanRunning' \in BOOLEAN
  BY <1>1, <1>5 DEF StateInv
<1> QED BY <1>4, <1>6, <1>7 DEF StateInv, PathsInv

\* A single run ends when nothing is left.
LEMMA EndReached ==
  ASSUME ExactInv, IInv, [Next]_vars, Working, Ended'
  PROVE  EndInv'
<1>1. StateInv /\ WorkInv /\ ClaimsInv /\ singlerun /\ scanRunning
  BY Before DEF ExactInv, Working, Ended
<1>2. AlertEndsScan
  BY <1>1, ScanRuns DEF MainScans, Ended
<1>3. /\ dataQ # <<>> /\ dataQ' = Tail(dataQ) /\ Head(dataQ) = Flag("ENDSCAN")
      /\ UNCHANGED <<scanQ, rtQ, listing, read, eventQ>>
  BY <1>2 DEF AlertEndsScan, AlertTakes, AlertReady, otherThreads
<1>4. dataQ' = <<>> /\ read.event = <<>> /\ eventQ = <<>> /\ listing = {} /\ scanQ = <<>>
  <2>1. LastIn(dataQ, Flag("ENDSCAN"), read.event = <<>> /\ eventQ = <<>> /\ listing = {} /\ scanQ = <<>>)
    BY <1>1 DEF WorkInv, ThreadsInv, IsLast
  <2>2. dataQ \in Seq(Datas \cup Marks)
    BY <1>1 DEF WorkInv, EntriesInv
  <2> QED BY <1>3, <2>1, <2>2, LastTail
<1>5. rtQ = <<>> /\ read.rtevent = <<>>
  BY <1>1 DEF WorkInv, ThreadsInv
<1>6. WorkInv' /\ ClaimsInv'
  BY <1>1, <1>2, EndingScan
<1>7. Idle'
  BY <1>3, <1>4, <1>5 DEF Idle
<1>8. ~inScan' /\ (quiet' => AllHold')
  BY <1>6, <1>7, NothingLeftNext
<1>9. <<>> \in Seq({KILL})
  OBVIOUS
<1> QED BY <1>7, <1>8, <1>9 DEF EndInv, Idle

\* From then on !KILL passes through the queues.
LEMMA EndKept ==
  ASSUME ExactInv, IInv, [Next]_vars, Ended, Ended'
  PROVE  EndInv'
<1>1. EndInv /\ running /\ ~errors /\ singlerun
  BY DEF ExactInv, Ended
<1>2. \A q \in Seq({KILL}) : /\ q # <<>> => Head(q) = KILL /\ Tail(q) \in Seq({KILL})
                             /\ Append(q, KILL) \in Seq({KILL})
  OBVIOUS
<1>3. /\ scanQ # <<>> => Head(scanQ) = KILL
      /\ eventQ # <<>> => Head(eventQ) = KILL
      /\ dataQ # <<>> => Head(dataQ) = KILL
  BY <1>1, <1>2 DEF EndInv
<1>4. /\ KILL.kind \notin {"look", "list", "data"} /\ Flag(KILL.kind) = KILL
      /\ KILL \notin {Flag("STARTSCAN"), Flag("MIDSCAN"), Flag("ENDSCAN")}
  BY Kinds DEF KILL
<1>5. ASSUME UNCHANGED <<disk, db, insertSet, overlooked, quiet>>
      PROVE  quiet' => AllHold'
  <2>1. Claims' = Claims /\ \A claim : Holds(claim)' = Holds(claim)
    BY <1>5 DEF Claims, Holds
  <2> QED BY <1>1, <1>5, <2>1 DEF EndInv, AllHold
<1>6. insertSet = <<>>
  BY <1>1 DEF EndInv, IInv, DatabaseInv, UnwrittenIsUnknown
<1>7. CASE UNCHANGED <<disk, queues, listing, read, db, inScan, insertSet, overlooked, quiet>>
  BY <1>1, <1>5, <1>7 DEF EndInv, queues
<1>8. CASE MainAwaitsScan
  <2>1. /\ scanQ' = Append(scanQ, KILL)
        /\ UNCHANGED <<disk, eventQ, rtQ, dataQ, listing, read, db, inScan, insertSet, overlooked, quiet>>
    BY <1>8 DEF MainAwaitsScan, envVars, alertVars
  <2>2. scanQ' \in Seq({KILL})
    BY <1>1, <1>2, <2>1 DEF EndInv
  <2> QED BY <1>1, <1>5, <2>1, <2>2 DEF EndInv
<1>9. CASE ScanEnds
  <2>1. /\ scanQ # <<>> /\ scanQ' = Tail(scanQ) /\ eventQ' = Append(eventQ, KILL)
        /\ UNCHANGED <<disk, rtQ, dataQ, listing, read, db, inScan, insertSet, overlooked, quiet>>
    BY <1>9 DEF ScanEnds, ScanReady, envVars, alertVars
  <2>2. scanQ' \in Seq({KILL}) /\ eventQ' \in Seq({KILL})
    BY <1>1, <1>2, <2>1 DEF EndInv
  <2> QED BY <1>1, <1>5, <2>1, <2>2 DEF EndInv
<1>10. CASE EventEnds
  <2>1. /\ eventQ # <<>> /\ eventQ' = Tail(eventQ) /\ dataQ' = Append(dataQ, KILL)
        /\ UNCHANGED <<disk, scanQ, rtQ, listing, read, db, inScan, insertSet, overlooked, quiet>>
    BY <1>3, <1>4, <1>10 DEF EventEnds, EventReady, envVars, alertVars
  <2>2. eventQ' \in Seq({KILL}) /\ dataQ' \in Seq({KILL})
    BY <1>1, <1>2, <2>1 DEF EndInv
  <2> QED BY <1>1, <1>5, <2>1, <2>2 DEF EndInv
<1>11. CASE AlertEnds
  <2>1. /\ dataQ # <<>> /\ dataQ' = Tail(dataQ) /\ inScan' = FALSE /\ insertSet' = <<>>
        /\ UNCHANGED <<disk, scanQ, eventQ, rtQ, listing, read, db, overlooked, quiet>>
    BY <1>11 DEF AlertEnds, AlertReady, AlertReturns, envVars
  <2>2. dataQ' \in Seq({KILL})
    BY <1>1, <1>2, <2>1 DEF EndInv
  <2> QED BY <1>1, <1>5, <1>6, <2>1, <2>2 DEF EndInv
<1>12. CASE \E path \in Paths : Change(path)
  <2>1. ~quiet' /\ UNCHANGED <<scanQ, eventQ, rtQ, dataQ, listing, read, inScan>>
    BY <1>1, <1>12 DEF Change, alertVars
  <2> QED BY <1>1, <2>1 DEF EndInv
<1>13. CASE MainStarts \/ MainExits \/ OutputEnds \/ UNCHANGED vars
  <2>1. UNCHANGED <<disk, queues, listing, read, db, inScan, insertSet, overlooked, quiet>>
    BY <1>13 DEF MainStarts, MainExits, OutputEnds, vars, envVars, alertVars
  <2> QED BY <1>7, <2>1
<1>14. ~(MainPolls \/ MainSignal \/ MainScans \/ WatchEnds)
  BY <1>1 DEF MainPolls, MainSignal, MainStops, MainScans, WatchEnds
<1>15. ~(ScanPasses \/ ScanOpens \/ ScanFails) /\ ~\E path \in Paths : ScanLists(path)
  BY <1>1, <1>3, <1>4 DEF ScanPasses, ScanOpens, ScanFails, ScanLists, ScanReady, EndInv
<1>16. ~(EventPasses \/ EventReads \/ EventPushes \/ EventThrows)
  BY <1>1, <1>3, <1>4 DEF EventPasses, EventReads, EventPushes, EventThrows, EventReady, EndInv, Ended
<1>17. ~RtEvent
  BY <1>1 DEF RtEvent, RtEventEnds, RtEventReads, RtEventPushes, RtEventThrows, RtEventReady, EndInv
<1>18. ~(AlertStartsScan \/ AlertMidScan \/ AlertEndsScan \/ AlertThrows)
  BY <1>3, <1>4 DEF AlertStartsScan, AlertMidScan, AlertEndsScan, AlertThrows, AlertTakes, AlertReady
<1>19. ~(AlertIgnores \/ AlertDeletes \/ AlertChanges \/ AlertRefreshes \/ AlertInserts \/ AlertCollects)
  <2>1. \A known, exists : ~AlertLooks(known, exists)
    BY <1>3, <1>4 DEF AlertLooks, AlertTakes, AlertReady
  <2> QED BY <2>1 DEF AlertIgnores, AlertDeletes, AlertChanges, AlertRefreshes, AlertInserts, AlertCollects
<1> QED BY <1>8, <1>9, <1>10, <1>11, <1>12, <1>13, <1>14, <1>15, <1>16, <1>17, <1>18, <1>19
        DEF Next, Main, Scan, Event, Alert

\* The three parts together.
LEMMA ExactStep ==
  ASSUME ExactInv, IInv, [Next]_vars
  PROVE  ExactInv'
<1>1. StateInv'
  BY StateKept
<1>2. Working' => WorkInv' /\ ClaimsInv'
  BY WorkIsKept
<1>3. ASSUME Ended'
      PROVE  EndInv'
  <2>1. Working \/ Ended
    BY <1>3, Before DEF ExactInv, StateInv, Working, Ended
  <2> QED BY <1>3, <2>1, EndReached, EndKept
<1> QED BY <1>1, <1>2, <1>3 DEF ExactInv

\* MIDSCAN ends what is asked of a scan, ENDSCAN comes only from the second phase.
LEMMA RequestLast == LastIn(ScanRequest, Flag("MIDSCAN"), TRUE) /\ LastIn(ScanRequest, Flag("ENDSCAN"), TRUE)
<1> DEFINE lists == [d \in DOMAIN Directories |-> List(d)]
           start == <<Flag("STARTSCAN")>>
           mid   == <<Flag("MIDSCAN")>>
           S == Lists \cup {Flag("STARTSCAN")}
<1>1. ScanRequest = start \o lists \o mid
  BY DEF ScanRequest
<1>2. lists \in Seq(S)
  <2>1. Len(Directories) \in Nat /\ DOMAIN Directories = 1..Len(Directories)
    BY DirectoriesAssumption
  <2>2. \A d \in DOMAIN Directories : List(d) \in S
    BY DEF Lists
  <2>3. lists \in [1..Len(Directories) -> S]
    BY <2>1, <2>2
  <2> HIDE DEF lists, S
  <2> QED BY <2>1, <2>3
<1>3. start \in Seq(S)
  <2>1. Flag("STARTSCAN") \in S
    OBVIOUS
  <2> HIDE DEF S
  <2> QED BY <2>1
<1>4. \A e \in S : e \notin {Flag("MIDSCAN"), Flag("ENDSCAN")}
  BY Kinds
<1>5. start \o lists \in Seq(S)
  <2> HIDE DEF start, lists, S
  <2> QED BY <1>2, <1>3
<1> DEFINE q == start \o lists
<1>6. ScanRequest = Append(q, Flag("MIDSCAN"))
  <2> HIDE DEF start, lists, S
  <2>1. q \o mid = Append(q, Flag("MIDSCAN"))
    BY <1>5
  <2> QED BY <1>1, <2>1
<1>7. \A i \in DOMAIN q : q[i] \in S
  <2> HIDE DEF start, lists, S
  <2> QED BY <1>5
<1> HIDE DEF q, S
<1>8. LastIn(q, Flag("MIDSCAN"), FALSE) /\ LastIn(q, Flag("ENDSCAN"), FALSE)
  BY <1>4, <1>7 DEF LastIn
<1>9. Flag("MIDSCAN") # Flag("ENDSCAN")
  BY Kinds
<1> QED BY <1>5, <1>6, <1>8, <1>9, LastAppend DEF q

\* The initial scan fixes everything.
LEMMA ExactInit == Init => ExactInv
<1> SUFFICES ASSUME Init PROVE ExactInv
  OBVIOUS
<1>1. PICK start \in Starts :
        /\ disk = start.disk /\ singlerun = start.singlerun /\ changes = start.changes
        /\ db = [path \in DOMAIN start.known |-> NewRow(Construct(start.known[path], TRUE))]
  BY DEF Init
<1>2. /\ main = IF singlerun THEN "waiting" ELSE "starting"
      /\ running = TRUE /\ errors = FALSE /\ scanRunning = TRUE /\ done = {} /\ inScan = FALSE /\ killed = FALSE
      /\ quiet = TRUE
      /\ scanQ = ScanRequest /\ eventQ = <<>> /\ rtQ = <<>> /\ dataQ = <<>> /\ listing = {}
      /\ insertSet = <<>> /\ updateQ = <<>>
  BY DEF Init
<1>3. read.event = <<>> /\ read.rtevent = <<>>
  BY DEF Init, NoRead
<1>4. Watched \subseteq Paths
  BY DirectoriesAssumption DEF Watched, Range
<1>5. StateInv
  <2>1. /\ disk \in [Paths -> Objects \cup {Gone}] /\ changes \in [Paths -> Seq(Objects \cup {Gone})]
        /\ singlerun \in BOOLEAN
    BY <1>1, StartsAssumption
  <2>2. DOMAIN db \subseteq Paths
    BY <1>1, <1>4, StartsAssumption
  <2>3. DOMAIN insertSet = {} /\ updateQ \in Seq(Paths)
    BY <1>2
  <2> QED BY <1>2, <2>1, <2>2, <2>3 DEF StateInv
<1>6. \A S : <<>> \in Seq(S)
  OBVIOUS
<1>7. EntriesInv
  BY <1>2, <1>3, <1>6, Request DEF EntriesInv, OneRead
<1>8. ThreadsInv
  <2>1. \A flag, rest : LastIn(<<>>, flag, rest)
    BY DEF LastIn
  <2>2. IsLast(Flag("MIDSCAN")) /\ IsLast(Flag("ENDSCAN"))
    BY <1>2, <2>1, RequestLast DEF IsLast
  <2> QED BY <1>2, <1>3, <2>2 DEF ThreadsInv
<1>9. RtInv
  BY <1>3 DEF RtInv
<1>10. PhasesInv
  <2> DEFINE E == {}
  <2>1. <<>> \in Seq(E) /\ \A e \in E : e \notin {Flag("STARTSCAN"), Flag("MIDSCAN")}
    OBVIOUS
  <2> HIDE DEF E
  <2>2. Run(FALSE, <<>>, FALSE)
    BY <2>1, RunSteady
  <2> QED BY <1>2, <2>2, Request DEF PhasesInv
<1>11. ClaimsInv
  <2> SUFFICES ASSUME NEW claim \in Claims PROVE ClaimKept(claim)
    BY DEF ClaimsInv
  <2>1. BehindEvent(claim) /\ BehindData(claim)
    BY <1>2, Request DEF BehindEvent, BehindData
  <2> QED BY <2>1 DEF ClaimKept, Clean
<1> QED BY <1>2, <1>5, <1>7, <1>8, <1>9, <1>10, <1>11 DEF ExactInv, WorkInv, Ended

\* When the claims hold and nothing waits to be written, the scan was exact.
LEMMA Exact == IInv /\ ExactInv => ScanIsExact
<1> SUFFICES ASSUME IInv, ExactInv, quiet, ~scanRunning, running, ~errors, Drained \/ main = "exited"
             PROVE  /\ \A path \in Watched : Exists(disk[path]) => path \in DOMAIN db /\ Agrees(db[path], disk[path])
                    /\ \A path \in DOMAIN db : ~Exists(disk[path]) => path \in overlooked
  BY DEF ScanIsExact
<1>1. ~inScan /\ AllHold
  <2>1. CASE singlerun
    BY <2>1 DEF ExactInv, Ended, EndInv
  <2>2. CASE ~singlerun
    <3>1. WorkInv /\ ClaimsInv
      BY <2>2 DEF ExactInv, Working
    <3>2. Drained
      BY <3>1 DEF WorkInv, ThreadsInv
    <3>3. Idle
      BY <3>2 DEF Drained, queues, NoRead, Idle
    <3> QED BY <3>1, <3>3, NothingLeft
  <2> QED BY <2>1, <2>2
<1>2. DOMAIN insertSet = {}
  <2>1. DOMAIN <<>> = {}
    OBVIOUS
  <2> QED BY <1>1, <2>1 DEF IInv, DatabaseInv, UnwrittenIsUnknown
<1>3. ASSUME NEW path \in Paths, path \in Watched \/ ~Exists(disk[path]), NEW about \in {"shape", "content"}
      PROVE  Holds([path |-> path, object |-> disk[path], about |-> about])
  <2>1. [path |-> path, object |-> disk[path], about |-> about] \in Claims
    BY <1>3 DEF Claims
  <2> QED BY <1>1, <2>1 DEF AllHold
<1>4. ASSUME NEW path \in Watched, Exists(disk[path])
      PROVE  path \in DOMAIN db /\ Agrees(db[path], disk[path])
  <2> DEFINE shape   == [path |-> path, object |-> disk[path], about |-> "shape"]
             content == [path |-> path, object |-> disk[path], about |-> "content"]
  <2>1. path \in Paths
    BY DirectoriesAssumption DEF Watched, Range
  <2>2. Holds(shape) /\ Holds(content)
    BY <1>3, <2>1
  <2>3. path \in DOMAIN db /\ db[path].type = disk[path].type /\ db[path].attr = disk[path].attr
    BY <1>2, <1>4, <2>2 DEF Holds
  <2>4. /\ disk[path].type = "file" /\ disk[path].readable => db[path].sha256 \in {disk[path].content, NotComputed, Unset}
        /\ disk[path].type = "link" /\ disk[path].readable => db[path].target \in {disk[path].content, ""}
    BY <2>2, <2>3 DEF Holds
  <2> QED BY <2>3, <2>4 DEF Agrees
<1>5. ASSUME NEW path \in DOMAIN db, ~Exists(disk[path])
      PROVE  path \in overlooked
  <2> DEFINE shape == [path |-> path, object |-> disk[path], about |-> "shape"]
  <2>1. path \in Paths
    BY DEF ExactInv, StateInv
  <2>2. Holds(shape)
    BY <1>3, <1>5, <2>1
  <2> QED BY <1>5, <2>2 DEF Holds
<1> QED BY <1>4, <1>5

-----------------------------------------------------------------------------
(* Theorems *)

\* The invariant of the daemon.
LEMMA Inductive == Spec => []IInv
<1>1. IInv /\ [Next]_vars => IInv'
  BY OtherThreads, Scanning, Reading, AlertFlags, AlertFails, AlertKnown, AlertUnknown DEF Next, Alert
<1> QED BY InitInv, <1>1, PTL DEF Spec

\* A block never holds a path that has a row, so its INSERT never fails by the
\* UNIQUE name of diskscan-data, whatever block size, scans and realtime events.
THEOREM BlocksMeetNoRow == Spec => []UnwrittenIsUnknown
<1>1. IInv => UnwrittenIsUnknown
  BY DEF IInv, DatabaseInv
<1> QED BY Inductive, <1>1, PTL

\* The alerts tell what the database holds, after any number of changes, scans
\* and runs, and also after a statement has failed.
THEOREM AlertsAreTheDatabase == Spec => []AlertsTellDatabase
<1>1. IInv => AlertsTellDatabase
  BY DEF IInv, DatabaseInv, Consistent, Tells, AlertsTellDatabase, Computed
<1> QED BY Inductive, <1>1, PTL

\* A scan during which nothing changes and no directory fails leaves the database
\* with what the disk holds: whatever an earlier run has stored, whatever was read
\* before the scan and is handled within it, whatever scans overlap, and whatever
\* the block size is.
THEOREM ScansAreExact == Spec => []ScanIsExact
<1>1. Init => ExactInv
  BY ExactInit
<1>2. IInv /\ ExactInv /\ [Next]_vars => ExactInv'
  BY ExactStep
<1>3. IInv /\ ExactInv => ScanIsExact
  BY Exact
<1> QED BY Inductive, <1>1, <1>2, <1>3, PTL DEF Spec
================================================================================
