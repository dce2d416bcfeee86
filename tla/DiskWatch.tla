------------------------------ MODULE DiskWatch ------------------------------
(***************************************************************************)
(* How the thread of a watch (watch_task) follows the directories below    *)
(* it, while they are created, renamed and removed, and while the scan     *)
(* thread lists them.                                                      *)
(*                                                                         *)
(* inotify knows directories by the id of their watch, the thread by the   *)
(* path it has stored for this id.  A directory is named here by a number  *)
(* that it keeps when it is renamed, which serves as the id of its watch;  *)
(* like these, it is never used again.                                     *)
(***************************************************************************)
EXTENDS Integers, Sequences, FiniteSets, SequencesExt

CONSTANTS
  Paths,       \* the paths where there may be directories, relative to the watched one
  Ignored,     \* the paths that realtime_ignore matches
  Dirs,        \* directories, a set of numbers; 0 is the watched one
  Trees,       \* the directories there may be at the start: [Dirs -> Paths \cup {New}]
  QueueSize,   \* max_queued_events of inotify
  MaxChanges   \* bound: number of changes of the file system and of logged failures

Root    == <<>>
New     == <<"(not yet made)">>
Removed == <<"(removed)">>

ASSUME PathsAssumption ==
  /\ Root \in Paths /\ {New, Removed} \cap Paths = {}
  /\ \A path \in Paths \ {Root} : path \in Seq(STRING) /\ Front(path) \in Paths
ASSUME IgnoredAssumption == Ignored \subseteq Paths \ {Root}
ASSUME DirsAssumption == Dirs \subseteq Nat /\ IsFiniteSet(Dirs) /\ 0 \in Dirs
\* A path names one directory, and leads through directories.
ASSUME TreesAssumption ==
  \A tree \in Trees :
    /\ tree \in [Dirs -> Paths \cup {New}] /\ tree[0] = Root
    /\ \A dir, other \in Dirs : tree[dir] = tree[other] => dir = other \/ tree[dir] = New
    /\ \A dir \in Dirs : tree[dir] # New =>
         \A n \in 0..Len(tree[dir]) :
           \E above \in Dirs : tree[above] # New /\ tree[above] = SubSeq(tree[dir], 1, n)
ASSUME BoundsAssumption == QueueSize \in Nat \ {0} /\ MaxChanges \in Nat

VARIABLES
  where,      \* the path of each directory
  changes,    \* number of changes and logged failures so far
  recursive,  \* of the watch
  kernel,     \* the events that inotify holds
  watched,    \* the directories inotify watches
  watches,    \* the map of the thread, from ids to paths
  adding,     \* what add_watch, which calls itself, has still to do
  cause,      \* why the thread has ended
  scanQ,      \* scan_queue, and the directories that a recursive scan has still to list
  unseen,     \* history: the directories with a change nobody looks at
  listed,     \* history: the directories a scan has listed
  early,      \* history: those that changed after it, before they were watched, and
              \* the new ones in them; and those that a scan could not list
  stray       \* history: the directories that got another path or could not be watched,
              \* what was below them then, and the new ones in them

fsVars    == <<where, changes, stray>>
watchVars == <<watches, adding, cause>>
vars == <<fsVars, recursive, kernel, watched, watchVars, scanQ, unseen, listed, early>>

InTree(dir) == where[dir] \in Paths
At(path) == {dir \in Dirs : where[dir] = path}
Below(path) == {dir \in Dirs : InTree(dir) /\ IsPrefix(path, where[dir])}
\* The directories in the directory at a path.
Children(path) == {dir \in Dirs : InTree(dir) /\ where[dir] # Root /\ Front(where[dir]) = path}

Event(dir, mask, path) == [wd |-> dir, mask |-> mask, path |-> path]
Overflow == [wd |-> -1, mask |-> "overflow", path |-> Root]
Task(step, path) == [step |-> step, path |-> path]

\* The watch is added when the threads start, the initial scan requested before.
Init ==
  /\ where \in Trees /\ changes = 0
  /\ recursive \in BOOLEAN
  /\ kernel = <<>> /\ watched = {}
  /\ watches = <<>> /\ adding = <<Task("add", Root)>> /\ cause = "none"
  /\ scanQ = <<Root>>
  /\ unseen = {} /\ listed = {} /\ early = {} /\ stray = {}

-----------------------------------------------------------------------------
(* The file system, and inotify                                            *)

\* An event of a directory that is watched is queued, up to QueueSize; one event
\* stands for those that do not fit.
Queue(events, event) ==
  IF event.wd \notin watched \/ Len(events) > QueueSize THEN events
  ELSE Append(events, IF Len(events) < QueueSize THEN event ELSE Overflow)

\* No watch tells of changes in the directory, and no scan will find them.
Unwatched(dir) == dir \in (listed \cup early) \ watched

\* Something changes in the directories dirs.
Changed(dirs) ==
  /\ changes < MaxChanges
  /\ changes' = changes + 1
  /\ unseen' = unseen \cup dirs
  /\ UNCHANGED <<recursive, watched, watchVars, scanQ, listed>>

\* The directory of a path, if changes of the path are of interest.
Parent(path) == CHOOSE dir \in At(Front(path)) : TRUE
Noted(path) == IF path \in Ignored THEN {} ELSE {Parent(path)}

\* A file of the directory is made, changed, moved or removed.
Touch(dir) ==
  /\ InTree(dir)
  /\ Changed({dir})
  /\ early' = early \cup {d \in {dir} : Unwatched(d)}
  /\ kernel' = Queue(kernel, Event(dir, "file", Root))
  /\ UNCHANGED <<where, stray>>

\* Where a directory can be made or moved to.
Free(path) == path \in Paths \ {Root} /\ At(path) = {} /\ At(Front(path)) # {}

\* IN_CREATE | IN_ISDIR
MakeDir(dir, path) ==
  /\ where[dir] = New /\ \A other \in Dirs : where[other] = New => dir <= other
  /\ Free(path)
  /\ where' = [where EXCEPT ![dir] = path]
  /\ Changed(Noted(path))
  /\ early' = early \cup UNION {{parent, dir} : parent \in {p \in At(Front(path)) : Unwatched(p)}}
  /\ kernel' = Queue(kernel, Event(Parent(path), "new directory", <<Last(path)>>))
  /\ stray' = stray \cup {d \in {dir} : Parent(path) \in stray}

\* IN_DELETE | IN_ISDIR
RemoveDir(dir) ==
  /\ InTree(dir) /\ where[dir] # Root /\ Children(where[dir]) = {}
  /\ where' = [where EXCEPT ![dir] = Removed]
  /\ Changed(Noted(where[dir]))
  /\ early' = early \cup {parent \in At(Front(where[dir])) : Unwatched(parent)}
  /\ kernel' = Queue(kernel, Event(Parent(where[dir]), "directory gone", <<Last(where[dir])>>))
  /\ UNCHANGED stray

\* IN_DELETE_SELF and IN_IGNORED: nobody uses the removed directory any more.
FreeDir(dir) ==
  /\ where[dir] = Removed /\ dir \in watched
  /\ kernel' = Queue(Queue(kernel, Event(dir, "self gone", Root)), Event(dir, "ignored", Root))
  /\ watched' = watched \ {dir}
  /\ UNCHANGED <<fsVars, recursive, watchVars, scanQ, unseen, listed, early>>

\* IN_MOVED_FROM | IN_ISDIR, IN_MOVED_TO | IN_ISDIR and IN_MOVE_SELF.
RenameDir(dir, path) ==
  /\ InTree(dir) /\ where[dir] # Root /\ Free(path) /\ ~IsPrefix(where[dir], path)
  /\ LET moved(below) == path \o SubSeq(where[below], Len(where[dir]) + 1, Len(where[below]))
     IN  /\ \A below \in Below(where[dir]) : moved(below) \in Paths
         /\ where' = [below \in Dirs |-> IF below \in Below(where[dir]) THEN moved(below) ELSE where[below]]
  /\ stray' = stray \cup Below(where[dir])
  /\ Changed(Noted(where[dir]) \cup Noted(path))
  /\ early' = early \cup {parent \in At(Front(where[dir])) \cup At(Front(path)) : Unwatched(parent)}
  /\ LET away == Queue(kernel, Event(Parent(where[dir]), "moved away", <<Last(where[dir])>>))
         here == Queue(away, Event(Parent(path), "new directory", <<Last(path)>>))
     IN  kernel' = Queue(here, Event(dir, "self moved", Root))

-----------------------------------------------------------------------------
(* add_watch, for one directory after the other                            *)

disk == <<fsVars, recursive, listed, early>>

Adds(step) == adding # <<>> /\ Head(adding).step = step

\* inotify_add_watch: the id of a directory that is watched stays, and its path.
AddWatch ==
  /\ Adds("add")
  /\ watched' = watched \cup At(Head(adding).path)
  /\ watches' = [dir \in DOMAIN watches \cup At(Head(adding).path) |->
                   IF dir \in DOMAIN watches THEN watches[dir] ELSE Head(adding).path]
  /\ adding' = IF At(Head(adding).path) # {} /\ recursive
               THEN <<Task("list", Head(adding).path)>> \o Tail(adding) ELSE Tail(adding)
  /\ UNCHANGED <<disk, kernel, cause, scanQ, unseen>>

\* The directories in it.
ListWatched ==
  /\ Adds("list") /\ At(Head(adding).path) # {}
  /\ \E dirs \in SetToSeqs(Children(Head(adding).path)) :
       adding' = [i \in DOMAIN dirs |-> Task("add", where[dirs[i]])] \o Tail(adding)
  /\ UNCHANGED <<disk, kernel, watched, watches, cause, scanQ, unseen>>

\* inotify_add_watch fails for a directory that is there: this is logged, and
\* nothing below the directory is tried.
AddWatchFails ==
  /\ Adds("add") /\ At(Head(adding).path) # {}
  /\ changes < MaxChanges /\ changes' = changes + 1
  /\ adding' = Tail(adding)
  /\ stray' = stray \cup Below(Head(adding).path)
  /\ UNCHANGED <<where, recursive, kernel, watched, watches, cause, scanQ, unseen, listed, early>>

\* Nothing catches the exception of a system call but the end of the thread.
Fails ==
  /\ cause' = "failed"
  /\ UNCHANGED <<disk, kernel, watched, watches, adding, scanQ, unseen>>

\* inotify_init1, before the first watch is added.
InitThrows == adding = <<Task("add", Root)>> /\ Fails

\* opendir or readdir: the directory has gone since inotify_add_watch, or it can
\* not be read.
ListThrows == Adds("list") /\ Fails

-----------------------------------------------------------------------------
(* watch_task, for one event after the other                               *)

Takes ==
  /\ adding = <<>> /\ kernel # <<>>
  /\ kernel' = Tail(kernel)
  /\ UNCHANGED <<disk, watched>>

\* A known id; what the event is about, as the thread believes.
Known == Head(kernel).mask # "ignored" /\ Head(kernel).wd \in DOMAIN watches
FullPath == watches[Head(kernel).wd] \o Head(kernel).path

\* An event is pushed, and what it is about will be looked at, if the path is right.
Seen ==
  LET dir == Head(kernel).wd
  IN  unseen' = IF watches[dir] = where[dir] THEN unseen \ {dir} ELSE unseen

\* IN_IGNORED, and what realtime_ignore matches.
WatchSkips ==
  /\ Takes
  /\ Head(kernel).mask = "ignored" \/ (Known /\ FullPath \in Ignored)
  /\ UNCHANGED <<watchVars, scanQ, unseen>>

WatchThrows ==
  /\ Takes /\ Head(kernel).mask # "ignored" /\ ~Known
  /\ cause' = Head(kernel).mask
  /\ UNCHANGED <<watches, adding, scanQ, unseen>>

WatchSelfGone ==
  /\ Takes /\ Known /\ FullPath \notin Ignored /\ Head(kernel).mask = "self gone"
  /\ watches' = [dir \in DOMAIN watches \ {Head(kernel).wd} |-> watches[dir]]
  /\ UNCHANGED <<adding, cause, scanQ, unseen>>

\* Faulty: the new directory is watched, but what it holds already is not scanned.
WatchNewUnscanned ==
  /\ Takes /\ Known /\ FullPath \notin Ignored /\ Head(kernel).mask = "new directory"
  /\ Seen
  /\ adding' = <<Task("add", FullPath)>>
  /\ UNCHANGED <<watches, cause, scanQ>>

\* First the scan of the new directory is requested, then it is watched.
WatchNew ==
  /\ Takes /\ Known /\ FullPath \notin Ignored /\ Head(kernel).mask = "new directory"
  /\ Seen
  /\ scanQ' = Append(scanQ, FullPath)
  /\ adding' = <<Task("add", FullPath)>>
  /\ UNCHANGED <<watches, cause>>

\* Faulty: a directory that was moved is forgotten, although inotify watches it.
WatchOtherForgets ==
  /\ Takes /\ Known /\ FullPath \notin Ignored /\ Head(kernel).mask \notin {"self gone", "new directory"}
  /\ Seen
  /\ watches' = IF Head(kernel).mask = "self moved"
                THEN [dir \in DOMAIN watches \ {Head(kernel).wd} |-> watches[dir]] ELSE watches
  /\ UNCHANGED <<adding, cause, scanQ>>

\* Files, and directories that are gone, moved away or were moved themselves.
WatchOther ==
  /\ Takes /\ Known /\ FullPath \notin Ignored /\ Head(kernel).mask \notin {"self gone", "new directory"}
  /\ Seen
  /\ UNCHANGED <<watchVars, scanQ>>

\* select or read.
WaitThrows == adding = <<>> /\ Fails

\* Half a second without an event, and the daemon is shutting down.
WatchReturns ==
  /\ adding = <<>> /\ kernel = <<>>
  /\ cause' = "shutdown"
  /\ UNCHANGED <<disk, kernel, watched, watches, adding, scanQ, unseen>>

-----------------------------------------------------------------------------
(* scan_task, for one directory after the other                            *)

\* The directories it comes to next.
GoesOn(dirs) ==
  \E below \in SetToSeqs(dirs) : scanQ' = [i \in DOMAIN below |-> where[below[i]]] \o Tail(scanQ)

ScanLists ==
  /\ scanQ # <<>>
  /\ LET dirs == At(Head(scanQ))
     IN  /\ unseen' = unseen \ dirs
         /\ listed' = listed \cup dirs
         /\ GoesOn(IF recursive /\ dirs # {} THEN Children(Head(scanQ)) ELSE {})
  /\ UNCHANGED <<fsVars, recursive, kernel, watched, watchVars, early>>

\* opendir fails for a directory that is there, or readdir after some of what is in
\* it: this is logged, and the scan goes on with the next one.
ScanFails ==
  /\ scanQ # <<>> /\ At(Head(scanQ)) # {}
  /\ changes < MaxChanges /\ changes' = changes + 1
  /\ \E dirs \in SUBSET Children(Head(scanQ)) :
       /\ recursive \/ dirs = {}
       /\ GoesOn(dirs)
       /\ early' = early \cup At(Head(scanQ)) \cup UNION {Below(where[dir]) : dir \in Children(Head(scanQ)) \ dirs}
  /\ UNCHANGED <<where, stray, recursive, kernel, watched, watchVars, unseen, listed>>

FileSystem ==
  \E dir \in Dirs :
    \/ Touch(dir) \/ RemoveDir(dir) \/ FreeDir(dir)
    \/ \E path \in Paths : MakeDir(dir, path) \/ RenameDir(dir, path)
Watch ==
  \/ AddWatch \/ AddWatchFails \/ ListWatched \/ InitThrows \/ ListThrows \/ WaitThrows
  \/ WatchSkips \/ WatchThrows \/ WatchSelfGone \/ WatchNew \/ WatchOther \/ WatchReturns

\* What happens when the thread has ended concerns no watch any more.
Next == cause = "none" /\ (FileSystem \/ Watch \/ ScanLists \/ ScanFails)

Spec == Init /\ [][Next]_vars

-----------------------------------------------------------------------------
(* Properties *)

AtRest == cause = "none" /\ adding = <<>> /\ kernel = <<>> /\ scanQ = <<>>

\* The directories the watch is about: all of them, or the one itself.
Covered(dir) ==
  /\ InTree(dir) /\ (recursive \/ where[dir] = Root)
  /\ \A path \in Ignored : ~IsPrefix(path, where[dir])

\* Between events, watches and scans no directory is lost: as soon as the threads
\* have nothing to do, each is watched under its own path and every change in it
\* has been pushed to be looked at or seen by a scan, however fast directories are
\* made and removed one in the other.  Exempt are directories that were renamed,
\* whose events carry the old path; those below a directory that could not be
\* watched, of which add_watch only logs; changes between the scan of a directory
\* and its watch; and changes in what a scan could not list, which it only logs.
NoDirectoryIsLost ==
  AtRest =>
    \A dir \in Dirs :
      (Covered(dir) /\ dir \notin stray) =>
        /\ dir \in watched /\ dir \in DOMAIN watches /\ watches[dir] = where[dir]
        /\ dir \in unseen => dir \in early

\* The ids that the thread forgets and keeps are those inotify still uses: of the
\* events it reads only the overflow of the queue has an id it does not know, which
\* ends the thread.  What else ends it is a system call that fails, or the end of
\* the daemon.
OnlyOverflowIsUnknown == cause \in {"none", "overflow", "failed", "shutdown"}
================================================================================
