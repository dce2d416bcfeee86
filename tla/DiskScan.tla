------------------------------- MODULE DiskScan -------------------------------
(***************************************************************************)
(* The threads of ctguard-diskscan and the queues between them:            *)
(*                                                                         *)
(*   main -> scanQ -> scan -> eventQ -> event ---> dataQ -> alert -> alerts*)
(*                              ^      watch -> rtQ -> rtevent --^   |     *)
(*                              '----- second phase of a scan -------'     *)
(*                                                                         *)
(* A scan lists the watched directories; what the event threads read of an *)
(* object is compared by the alert thread with its row of the database.    *)
(* In its first phase rows are not written one by one: new objects are     *)
(* kept in insert_set, unchanged ones in update_queue, until a block is    *)
(* full.  In its second phase the rows that no object was found for are    *)
(* looked at.                                                              *)
(*                                                                         *)
(* How alerts reach ctguard-research is the module OutputTask, how watches *)
(* follow directories the module DiskWatch.                                *)
(***************************************************************************)
EXTENDS FileData, Sequences, FiniteSets, SequencesExt

CONSTANTS
  Paths,       \* the objects below the watched directories, by their path
  Directories, \* cfg.watches: sequence of the sets of paths below each of them
  Realtime,    \* the paths below a directory that is watched in realtime
  Objects,     \* what there may be at a path
  Starts,      \* what a run may begin with, see below
  BlockSize    \* cfg.block_size

\* The paths below a watch.
Watched == UNION Range(Directories)

ASSUME PathsAssumption       == IsFiniteSet(Paths)
ASSUME DirectoriesAssumption == Directories \in Seq(SUBSET Paths)
ASSUME RealtimeAssumption    == Realtime \subseteq Paths
ASSUME ObjectsAssumption     == Gone \notin Objects
ASSUME BlockSizeAssumption   == BlockSize \in Nat
\* The file system, the objects an earlier run has stored, whether it is a single
\* run, the threads that may end by an exception, and the bounds: what each path
\* becomes one after the other, how many regular scans the daemon starts, how many
\* signals it gets.
ASSUME StartsAssumption ==
  \A start \in Starts :
    /\ start.disk \in [Paths -> Objects \cup {Gone}]
    /\ DOMAIN start.known \subseteq Watched /\ Range(start.known) \subseteq Objects
    /\ start.singlerun \in BOOLEAN
    /\ start.faults \subseteq {"event", "rtevent", "alert"}
    /\ start.changes \in [Paths -> Seq(Objects \cup {Gone})]
    /\ start.scans \in Nat /\ start.signals \in Nat

VARIABLES
  disk,        \* what is at each path
  changes,     \* what each path is going to become
  singlerun, faults, main, running, errors,
  scans,       \* number of regular scans to come
  signals,     \* number of signals to come
  scanRunning, \* scan_is_running
  done,        \* the threads that have ended
  scanQ, eventQ, rtQ, dataQ,
  listing,     \* the entries of a directory that scan() has still to list
  read,        \* what the two event threads have read and not yet handed over
  db,          \* the table diskscan-data, by path
  inScan, insertSet, updateQ,  \* of alert_task
  killed,      \* whether the alert thread has pushed !KILL
  overlooked,  \* history: the objects whose deletion was met while they were in insert_set
  told,        \* history: what the alerts say is at each path
  unsaved,     \* history: the paths whose new rows were rolled back after their alerts
  quiet        \* history: nothing has interfered with the latest scan so far

envVars   == <<disk, changes>>
constVars == <<singlerun, faults>>
mainVars  == <<constVars, main, running, scans, signals>>
queues    == <<scanQ, eventQ, rtQ, dataQ>>
alertVars == <<db, inScan, insertSet, updateQ, killed, overlooked, told, unsaved>>
vars == <<envVars, mainVars, errors, scanRunning, done, queues, listing, read, alertVars, quiet>>

Threads == {"scan", "event", "rtevent", "alert", "output", "watch"}
\* The threads main joins.
Joined == IF singlerun THEN {"scan", "event", "alert", "output"} ELSE Threads


\* The entries of the queues: a path to look at, with CHK_CONTENT and
\* FORCE_UPDATE, or one of the flags without a path.
Look(path, check, force) == [kind |-> "look", path |-> path, check |-> check, force |-> force]
Flag(flag) == [kind |-> flag]
KILL == Flag("KILL")
List(dir) == [kind |-> "list", dir |-> dir]
Data(path, fd, force) == [kind |-> "data", path |-> path, fd |-> fd, force |-> force]

NoRead == [event |-> <<>>, rtevent |-> <<>>]

\* The entries of new in place of those of old.
Over(new, old) ==
  [path \in DOMAIN new \cup DOMAIN old |-> IF path \in DOMAIN new THEN new[path] ELSE old[path]]

-----------------------------------------------------------------------------
(* main *)

\* A scan: STARTSCAN, every watch, MIDSCAN.
ScanRequest == <<Flag("STARTSCAN")>> \o [d \in DOMAIN Directories |-> List(d)] \o <<Flag("MIDSCAN")>>

\* The initial scan is requested before the watches are there.  The database is
\* that of an earlier run, which told of every row.
Init ==
  /\ \E start \in Starts :
       /\ disk = start.disk
       /\ db = [path \in DOMAIN start.known |-> NewRow(Construct(start.known[path], TRUE))]
       /\ singlerun = start.singlerun /\ faults = start.faults
       /\ changes = start.changes /\ scans = start.scans /\ signals = start.signals
  /\ main = IF singlerun THEN "waiting" ELSE "starting"
  /\ running = TRUE /\ errors = FALSE
  /\ scanRunning = TRUE
  /\ done = {}
  /\ scanQ = ScanRequest /\ eventQ = <<>> /\ rtQ = <<>> /\ dataQ = <<>>
  /\ listing = {} /\ read = NoRead
  /\ inScan = FALSE /\ insertSet = <<>> /\ updateQ = <<>> /\ killed = FALSE /\ overlooked = {} /\ unsaved = {}
  /\ told = [path \in Paths |-> IF path \in DOMAIN db THEN TellRow(db[path]) ELSE Untold]
  /\ quiet = TRUE

\* The rtevent thread and the threads of the watches.
MainStarts ==
  /\ main = "starting"
  /\ main' = "waiting"
  /\ UNCHANGED <<envVars, constVars, running, errors, scans, signals, scanRunning, done, queues, listing, read, alertVars, quiet>>

\* A regular scan, whether or not the previous one is over.
MainScans ==
  /\ main = "waiting" /\ ~singlerun /\ ~errors /\ scans > 0
  /\ scans' = scans - 1
  /\ scanRunning' = TRUE
  /\ scanQ' = scanQ \o ScanRequest
  /\ quiet' = TRUE
  /\ UNCHANGED <<envVars, constVars, main, running, errors, signals, done, eventQ, rtQ, dataQ, listing, read, alertVars>>

\* Faulty: only the first thread of the pipeline is told.
MainStopsPipeline ==
  /\ main = "waiting" /\ ~singlerun
  /\ main' = "stopping"
  /\ running' = FALSE
  /\ scanQ' = Append(scanQ, KILL)
  /\ UNCHANGED <<envVars, constVars, errors, scans, scanRunning, done, eventQ, rtQ, dataQ, listing, read, alertVars, quiet>>

\* A signal, or an exception found after a second without one.
MainStops ==
  /\ main = "waiting" /\ ~singlerun
  /\ main' = "stopping"
  /\ running' = FALSE
  /\ scanQ' = Append(scanQ, KILL)
  /\ rtQ' = Append(rtQ, KILL)
  /\ UNCHANGED <<envVars, constVars, errors, scans, scanRunning, done, eventQ, dataQ, listing, read, alertVars, quiet>>

MainPolls == errors /\ MainStops /\ UNCHANGED signals
MainSignal == signals > 0 /\ MainStops /\ signals' = signals - 1

\* In a single run main waits for the condition variable only.
MainAwaitsScan ==
  /\ main = "waiting" /\ singlerun /\ ~scanRunning
  /\ main' = "stopping"
  /\ scanQ' = Append(scanQ, KILL)
  /\ UNCHANGED <<envVars, constVars, running, errors, scans, signals, scanRunning, done, eventQ, rtQ, dataQ, listing, read,
                 alertVars, quiet>>

MainExits ==
  /\ main = "stopping" /\ Joined \subseteq done
  /\ main' = "exited"
  /\ UNCHANGED <<envVars, constVars, running, errors, scans, signals, scanRunning, done, queues, listing, read, alertVars, quiet>>

-----------------------------------------------------------------------------
(* the file system, and the thread of a watch, which tells of its changes *)

\* An event with CHK_CONTENT, unless only attributes are changed (IN_ATTRIB).
ContentEvent(old, new) ==
  old.type # new.type \/ old.content # new.content

Change(path) ==
  /\ changes[path] # <<>>
  /\ disk' = [disk EXCEPT ![path] = Head(changes[path])]
  /\ changes' = [changes EXCEPT ![path] = Tail(@)]
  /\ rtQ' = IF path \in Realtime /\ main # "starting" /\ ~singlerun /\ "watch" \notin done
            THEN Append(rtQ, Look(path, ContentEvent(disk[path], disk'[path]), FALSE))
            ELSE rtQ
  /\ quiet' = FALSE
  /\ UNCHANGED <<mainVars, errors, scanRunning, done, scanQ, eventQ, dataQ, listing, read, alertVars>>

\* Half a second without an event.
WatchEnds ==
  /\ main # "starting" /\ ~singlerun /\ "watch" \notin done /\ ~running
  /\ done' = done \cup {"watch"}
  /\ UNCHANGED <<envVars, mainVars, errors, scanRunning, queues, listing, read, alertVars, quiet>>

-----------------------------------------------------------------------------
(* scan_task *)

ScanReady == "scan" \notin done /\ listing = {} /\ scanQ # <<>>

ScanEnds ==
  /\ ScanReady
  /\ Head(scanQ) = KILL \/ ~running
  /\ scanQ' = Tail(scanQ)
  /\ eventQ' = Append(eventQ, KILL)
  /\ done' = done \cup {"scan"}
  /\ UNCHANGED <<envVars, mainVars, errors, scanRunning, rtQ, dataQ, listing, read, alertVars, quiet>>

ScanPasses ==
  /\ ScanReady /\ running
  /\ Head(scanQ) \in {Flag("STARTSCAN"), Flag("MIDSCAN")}
  /\ scanQ' = Tail(scanQ)
  /\ eventQ' = Append(eventQ, Head(scanQ))
  /\ UNCHANGED <<envVars, mainVars, errors, scanRunning, done, rtQ, dataQ, listing, read, alertVars, quiet>>

ScanOpens ==
  /\ ScanReady /\ running
  /\ Head(scanQ).kind = "list"
  /\ scanQ' = Tail(scanQ)
  /\ listing' = Directories[Head(scanQ).dir]
  /\ UNCHANGED <<envVars, mainVars, errors, scanRunning, done, eventQ, rtQ, dataQ, read, alertVars, quiet>>

\* An entry that is there when the directory is read.
ScanLists(path) ==
  /\ path \in listing
  /\ listing' = listing \ {path}
  /\ eventQ' = IF Exists(disk[path]) THEN Append(eventQ, Look(path, TRUE, TRUE)) ELSE eventQ
  /\ UNCHANGED <<envVars, mainVars, errors, scanRunning, done, scanQ, rtQ, dataQ, read, alertVars, quiet>>

\* A directory that can not be opened or read ends its listing.
ScanFails ==
  /\ listing # {}
  /\ listing' = {}
  /\ quiet' = FALSE
  /\ UNCHANGED <<envVars, mainVars, errors, scanRunning, done, queues, read, alertVars>>

-----------------------------------------------------------------------------
(* event_task and rtevent_task *)

EventReady == "event" \notin done /\ read.event = <<>> /\ eventQ # <<>>

EventEnds ==
  /\ EventReady
  /\ Head(eventQ) = KILL \/ ~running
  /\ eventQ' = Tail(eventQ)
  /\ dataQ' = Append(dataQ, Flag(Head(eventQ).kind))
  /\ done' = done \cup {"event"}
  /\ UNCHANGED <<envVars, mainVars, errors, scanRunning, scanQ, rtQ, listing, read, alertVars, quiet>>

EventPasses ==
  /\ EventReady /\ running
  /\ Head(eventQ) \in {Flag("STARTSCAN"), Flag("MIDSCAN"), Flag("ENDSCAN")}
  /\ eventQ' = Tail(eventQ)
  /\ dataQ' = Append(dataQ, Head(eventQ))
  /\ UNCHANGED <<envVars, mainVars, errors, scanRunning, done, scanQ, rtQ, listing, read, alertVars, quiet>>

\* What is read may be old when it is pushed.
ReadObject(look) == <<Data(look.path, Construct(disk[look.path], look.check), look.force)>>

EventReads ==
  /\ EventReady /\ running
  /\ Head(eventQ).kind = "look"
  /\ eventQ' = Tail(eventQ)
  /\ read' = [read EXCEPT !.event = ReadObject(Head(eventQ))]
  /\ UNCHANGED <<envVars, mainVars, errors, scanRunning, done, scanQ, rtQ, dataQ, listing, alertVars, quiet>>

EventPushes ==
  /\ read.event # <<>>
  /\ dataQ' = dataQ \o read.event
  /\ read' = [read EXCEPT !.event = <<>>]
  /\ UNCHANGED <<envVars, mainVars, errors, scanRunning, done, scanQ, eventQ, rtQ, listing, alertVars, quiet>>

\* construct throws: the diff database.
EventThrows ==
  /\ "event" \in faults
  /\ EventReady /\ running
  /\ Head(eventQ).kind = "look"
  /\ eventQ' = Tail(eventQ)
  /\ errors' = TRUE
  /\ dataQ' = Append(dataQ, KILL)
  /\ done' = done \cup {"event"}
  /\ UNCHANGED <<envVars, mainVars, scanRunning, scanQ, rtQ, listing, read, alertVars, quiet>>

RtEventReady == "rtevent" \notin done /\ main # "starting" /\ ~singlerun /\ read.rtevent = <<>> /\ rtQ # <<>>

RtEventEnds ==
  /\ RtEventReady
  /\ Head(rtQ) = KILL \/ ~running
  /\ dataQ' = Append(dataQ, KILL)
  /\ done' = done \cup {"rtevent"}
  /\ UNCHANGED <<envVars, mainVars, errors, scanRunning, scanQ, eventQ, rtQ, listing, read, alertVars, quiet>>

\* The event has settled.
RtEventReads ==
  /\ RtEventReady /\ running
  /\ rtQ' = Tail(rtQ)
  /\ read' = [read EXCEPT !.rtevent = ReadObject(Head(rtQ))]
  /\ UNCHANGED <<envVars, mainVars, errors, scanRunning, done, scanQ, eventQ, dataQ, listing, alertVars, quiet>>

RtEventPushes ==
  /\ read.rtevent # <<>>
  /\ dataQ' = dataQ \o read.rtevent
  /\ read' = [read EXCEPT !.rtevent = <<>>]
  /\ UNCHANGED <<envVars, mainVars, errors, scanRunning, done, scanQ, eventQ, rtQ, listing, alertVars, quiet>>

RtEventThrows ==
  /\ "rtevent" \in faults
  /\ RtEventReady /\ running
  /\ rtQ' = Tail(rtQ)
  /\ errors' = TRUE
  /\ dataQ' = Append(dataQ, KILL)
  /\ done' = done \cup {"rtevent"}
  /\ UNCHANGED <<envVars, mainVars, scanRunning, scanQ, eventQ, listing, read, alertVars, quiet>>

-----------------------------------------------------------------------------
(* alert_task *)

AlertReady == "alert" \notin done /\ dataQ # <<>>
AlertTakes == AlertReady /\ running /\ dataQ' = Tail(dataQ)
\* What is left alone by the steps of the thread other than its end.
otherThreads == <<envVars, mainVars, done, scanQ, rtQ, listing, read, unsaved, quiet>>

\* The thread leaves !KILL behind; what it has collected is gone.
AlertReturns ==
  /\ killed' = TRUE
  /\ done' = done \cup {"alert"}
  /\ inScan' = FALSE /\ insertSet' = <<>> /\ updateQ' = <<>>

AlertEnds ==
  /\ AlertReady
  /\ Head(dataQ) = KILL \/ ~running
  /\ dataQ' = Tail(dataQ)
  /\ AlertReturns
  /\ UNCHANGED <<envVars, mainVars, errors, scanRunning, scanQ, eventQ, rtQ, listing, read, db, overlooked, told, unsaved, quiet>>

\* do_insert_set, of the entries of paths: a row and an alert for each of them.
InsertRows(set, paths) ==
  /\ db'   = Over([path \in paths |-> NewRow(set[path])], db)
  /\ told' = Over([path \in paths |-> TellNew(set[path])], told)

\* do_update_queue: only rows that are there still.
Scanned(rows, paths) ==
  [path \in DOMAIN rows |-> [rows[path] EXCEPT !.scanned = @ \/ path \in paths]]

\* Faulty: the marks of the previous scan stay.
AlertStartsScanMarked ==
  /\ AlertTakes /\ Head(dataQ) = Flag("STARTSCAN")
  /\ inScan' = TRUE
  /\ UNCHANGED <<otherThreads, errors, scanRunning, eventQ, db, insertSet, updateQ, killed, overlooked, told>>

AlertStartsScan ==
  /\ AlertTakes /\ Head(dataQ) = Flag("STARTSCAN")
  /\ db' = [path \in DOMAIN db |-> [db[path] EXCEPT !.scanned = FALSE]]
  /\ inScan' = TRUE
  /\ UNCHANGED <<otherThreads, errors, scanRunning, eventQ, insertSet, updateQ, killed, overlooked, told>>

\* Faulty: a second phase with nothing to look at is left out.
SecondPhaseIfAny(rows) ==
  IF rows = <<>> THEN <<>> ELSE [i \in DOMAIN rows |-> Look(rows[i], TRUE, TRUE)] \o <<Flag("ENDSCAN")>>

\* The rows of objects that were not found, and the end of the scan.
SecondPhase(rows) == [i \in DOMAIN rows |-> Look(rows[i], TRUE, TRUE)] \o <<Flag("ENDSCAN")>>

\* The second phase is requested before the entries of the first one are written.
AlertMidScan ==
  /\ AlertTakes /\ Head(dataQ) = Flag("MIDSCAN")
  /\ \E rows \in SetToSeqs({path \in DOMAIN db : ~db[path].scanned}) :
       eventQ' = eventQ \o SecondPhase(rows)
  /\ inScan' = FALSE
  /\ db'   = Scanned(Over([path \in DOMAIN insertSet |-> NewRow(insertSet[path])], db), Range(updateQ))
  /\ told' = Over([path \in DOMAIN insertSet |-> TellNew(insertSet[path])], told)
  /\ insertSet' = <<>> /\ updateQ' = <<>>
  /\ UNCHANGED <<otherThreads, errors, scanRunning, killed, overlooked>>

AlertEndsScan ==
  /\ AlertTakes /\ Head(dataQ) = Flag("ENDSCAN")
  /\ scanRunning' = FALSE
  /\ UNCHANGED <<otherThreads, errors, eventQ, alertVars>>

\* The next object, and what the database has of it.
AlertLooks(known, exists) ==
  /\ AlertTakes /\ Head(dataQ).kind = "data"
  /\ (Head(dataQ).path \in DOMAIN db) = known
  /\ Head(dataQ).fd.exists = exists
  /\ UNCHANGED <<otherThreads, errors, scanRunning, eventQ, inScan, killed>>

\* Gone without a row, but perhaps about to get one.
AlertIgnores ==
  /\ AlertLooks(FALSE, FALSE)
  /\ overlooked' = overlooked \cup ({Head(dataQ).path} \cap DOMAIN insertSet)
  /\ UNCHANGED <<db, insertSet, updateQ, told>>

AlertDeletes ==
  /\ AlertLooks(TRUE, FALSE)
  /\ db' = [path \in DOMAIN db \ {Head(dataQ).path} |-> db[path]]
  /\ told' = [told EXCEPT ![Head(dataQ).path] = Untold]
  /\ overlooked' = overlooked \ {Head(dataQ).path}
  /\ UNCHANGED <<insertSet, updateQ>>

AlertChanges ==
  /\ AlertLooks(TRUE, TRUE)
  /\ LET path == Head(dataQ).path
         fd   == Head(dataQ).fd
     IN  /\ Differs(db[path], fd)
         /\ db' = [db EXCEPT ![path] = ChangedRow(@, fd)]
         /\ told' = [told EXCEPT ![path] = TellChange(@, db[path], fd)]
  /\ UNCHANGED <<insertSet, updateQ, overlooked>>

\* Nothing has changed.  A scan marks the row, in its first phase by blocks.
AlertRefreshes ==
  /\ AlertLooks(TRUE, TRUE)
  /\ LET path    == Head(dataQ).path
         waiting == Append(updateQ, path)
     IN  /\ ~Differs(db[path], Head(dataQ).fd)
         /\ \/ ~Head(dataQ).force /\ UNCHANGED <<db, updateQ>>
            \/ Head(dataQ).force /\ ~inScan /\ db' = Scanned(db, {path}) /\ UNCHANGED updateQ
            \/ Head(dataQ).force /\ inScan /\ Len(waiting) < BlockSize /\ updateQ' = waiting /\ UNCHANGED db
            \/ Head(dataQ).force /\ inScan /\ Len(waiting) >= BlockSize /\ updateQ' = <<>> /\ db' = Scanned(db, Range(waiting))
  /\ UNCHANGED <<insertSet, overlooked, told>>

\* The object as the only entry of a block.
Object == [path \in {Head(dataQ).path} |-> Head(dataQ).fd]

\* An object without a row, outside the first phase of a scan.
AlertInserts ==
  /\ AlertLooks(FALSE, TRUE)
  /\ ~inScan
  /\ InsertRows(Object, {Head(dataQ).path})
  /\ UNCHANGED <<insertSet, updateQ, overlooked>>

\* In the first phase of a scan it is collected, in place of an older entry.
Collected == Over(Object, insertSet)
BlockIsFull(set) == Cardinality(DOMAIN set) >= BlockSize

\* Faulty: a block that was written is kept.
RestKept(set) == set

\* What of it is left when a full block is written.
Rest(set) == IF BlockIsFull(set) THEN <<>> ELSE set

AlertCollects ==
  /\ AlertLooks(FALSE, TRUE)
  /\ inScan
  /\ IF BlockIsFull(Collected)
     THEN InsertRows(Collected, DOMAIN Collected)
     ELSE UNCHANGED <<db, told>>
  /\ insertSet' = Rest(Collected)
  /\ overlooked' = overlooked \ {Head(dataQ).path}
  /\ UNCHANGED updateQ

\* The entries that do_insert_set would write next.
Flushing ==
  IF Head(dataQ) = Flag("MIDSCAN") THEN insertSet
  ELSE IF Head(dataQ).kind = "data" /\ Head(dataQ).fd.exists /\ Head(dataQ).path \notin DOMAIN db /\ inScan
          /\ BlockIsFull(Collected)
  THEN Collected
  ELSE <<>>

\* Faulty: the alerts are pushed when the block is complete.
InsertSomeUntold(paths) ==
  /\ db' = Over([path \in paths |-> NewRow(Flushing[path])], db)
  /\ UNCHANGED <<told, unsaved>>

\* The rows before a statement that fails stay: the destructor of the transaction
\* ends it while the exception passes.
InsertSome(paths) == InsertRows(Flushing, paths) /\ UNCHANGED unsaved

\* END TRANSACTION fails, too, or is what fails: the alerts are out, the rows are
\* rolled back.
RollBack(paths) ==
  /\ told' = Over([path \in paths |-> TellNew(Flushing[path])], told)
  /\ unsaved' = unsaved \cup paths
  /\ UNCHANGED db

\* A statement of the database fails, after some rows of a block; at MIDSCAN the
\* second phase may have been requested before.
AlertThrows ==
  /\ "alert" \in faults
  /\ AlertTakes /\ Head(dataQ) # KILL
  /\ \E paths \in SUBSET DOMAIN Flushing : InsertSome(paths) \/ RollBack(paths)
  /\ \/ UNCHANGED eventQ
     \/ /\ Head(dataQ) = Flag("MIDSCAN")
        /\ \E rows \in SetToSeqs({path \in DOMAIN db : ~db[path].scanned}) : eventQ' = eventQ \o SecondPhase(rows)
  /\ errors' = TRUE
  /\ AlertReturns
  /\ UNCHANGED <<envVars, mainVars, scanRunning, scanQ, rtQ, listing, read, overlooked, quiet>>

\* output_task returns when it takes !KILL.
OutputEnds ==
  /\ killed /\ "output" \notin done
  /\ done' = done \cup {"output"}
  /\ UNCHANGED <<envVars, mainVars, errors, scanRunning, queues, listing, read, alertVars, quiet>>

-----------------------------------------------------------------------------
Main  == MainStarts \/ MainPolls \/ MainAwaitsScan \/ MainExits
Scan  == ScanEnds \/ ScanPasses \/ ScanOpens \/ (\E path \in Paths : ScanLists(path)) \/ ScanFails
Event == EventEnds \/ EventPasses \/ EventReads \/ EventPushes \/ EventThrows
RtEvent == RtEventEnds \/ RtEventReads \/ RtEventPushes \/ RtEventThrows
Alert ==
  \/ AlertEnds \/ AlertStartsScan \/ AlertMidScan \/ AlertEndsScan \/ AlertThrows
  \/ AlertIgnores \/ AlertDeletes \/ AlertChanges \/ AlertRefreshes \/ AlertInserts \/ AlertCollects

Next ==
  \/ Main \/ MainScans \/ MainSignal
  \/ \E path \in Paths : Change(path)
  \/ WatchEnds \/ Scan \/ Event \/ RtEvent \/ Alert \/ OutputEnds

Spec == Init /\ [][Next]_vars

\* Every thread that can go on does.  Nothing is assumed of signals, of regular
\* scans and of the file system.
FairSpec ==
  Spec /\ WF_vars(Main) /\ WF_vars(Scan) /\ WF_vars(Event) /\ WF_vars(RtEvent) /\ WF_vars(Alert)
       /\ WF_vars(OutputEnds) /\ WF_vars(WatchEnds)

-----------------------------------------------------------------------------
(* Properties *)

\* What a scan has collected is not in the database: INSERT never meets the
\* UNIQUE constraint of diskscan-data, which would end the alert thread, whatever
\* the realtime events and scans that overlap do in between; and outside the
\* first phase nothing is left behind that a later block would write.
UnwrittenIsUnknown ==
  /\ DOMAIN insertSet \cap DOMAIN db = {}
  /\ ~inScan => insertSet = <<>> /\ updateQ = <<>>

\* Whoever reads the alerts of all runs knows the database: no row appears,
\* changes or goes without an alert that says so, and none is told of that was
\* not written, also when a statement fails in the middle of a block and the rows
\* before it stay.  There are two exceptions: the target of a link, which an event
\* without CHK_CONTENT overwrites, and the rows of a block whose transaction can
\* not be ended, of which alerts tell although they are rolled back.
AlertsTellDatabase ==
  \A path \in Paths :
    IF path \in DOMAIN db
    THEN /\ told[path].type = db[path].type
         /\ told[path].attr = db[path].attr
         /\ Computed(db[path]) => told[path].sha256 = db[path].sha256
         /\ db[path].type = "link" => db[path].target \in {told[path].target, ""}
    ELSE told[path] = Untold \/ path \in unsaved

Drained == queues = <<<<>>, <<>>, <<>>, <<>>>> /\ listing = {} /\ read = NoRead

\* A scan during which nothing changes and no directory fails leaves the
\* database with what the disk holds, whatever an earlier run, realtime events
\* that were read before, or a previous scan still under way have left there.
\* Two things may be wrong in the first phase, through events of changes before
\* the scan that are handled within it: an event without CHK_CONTENT takes the
\* place of what was collected (then the content is left out, see Agrees), and
\* the deletion of a collected object is overlooked, so that a row and an alert
\* are made for an object that is gone.  Nothing else ever is.
ScanIsExact ==
  (quiet /\ ~scanRunning /\ running /\ ~errors /\ (Drained \/ main = "exited")) =>
    /\ \A path \in Watched : Exists(disk[path]) => path \in DOMAIN db /\ Agrees(db[path], disk[path])
    /\ \A path \in DOMAIN db : ~Exists(disk[path]) => path \in overlooked

\* Every scan comes to its end: the second phase it asks for itself is added to
\* a queue that other scans and directories are added to.
ScansEnd == scanRunning ~> (~scanRunning \/ errors \/ main \in {"stopping", "exited"})

\* A daemon that is told to stop, a single run whose scan is over, and a daemon
\* one of whose threads has ended by an exception, exit: the threads behind it are
\* stopped by what it leaves in their queue, the others by main.
ShutdownTerminates == (main = "stopping" \/ (errors /\ ~singlerun)) ~> (main = "exited")
================================================================================
