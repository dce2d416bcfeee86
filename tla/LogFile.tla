------------------------------- MODULE LogFile --------------------------------
(***************************************************************************)
(* How ctguard-logscan follows one logfile: the logfile object of          *)
(* logfile.hpp, the loop of logfile_task and the state file, against a     *)
(* file that is appended to, truncated, replaced and removed meanwhile,    *)
(* and across stops, crashes and restarts of the daemon.                   *)
(*                                                                         *)
(* The content of a file is a sequence of units: a positive number is the  *)
(* text of the line with that number, NL the newline that ends it.  A      *)
(* position or a size is a number of units.                                *)
(***************************************************************************)
EXTENDS Integers, Sequences, SequencesExt

CONSTANTS
  MaxLines,     \* bound: number of lines written to a file that is only appended to
  MaxMixed,     \* bound: number of lines written where other things happen, too
  MaxChanges,   \* bound: number of other changes, stops and crashes
  Workloads     \* sets of what may happen besides the scan, see OpNames

\* Whole lines, texts without newline, empty lines; truncation, replacement by
\* and removal of the file; orderly stops and crashes of the daemon;
\* "timeout": timeout_alert is configured for the file, and the time passes.
OpNames == {"line", "text", "blank", "truncate", "replace", "remove", "stop", "crash", "timeout"}

ASSUME BoundsAssumption == MaxLines \in Nat \ {0} /\ MaxMixed \in 1..MaxLines /\ MaxChanges \in Nat
ASSUME WorkloadsAssumption == Workloads \subseteq SUBSET OpNames

VARIABLES
  ops,        \* the workload of this behaviour
  content,    \* what the file at the configured path holds
  inodeNo,    \* its inode (NoInode: there is no file)
  lines,      \* number of lines written so far
  changes,    \* number of other changes so far
  pc,         \* where logfile_task is in its loop ("off": no daemon)
  fd, down, pos, inode, size, triggered,  \* the logfile object
  quiet,      \* whether last_updated is timeout_alert seconds ago
  statSize,   \* tmp_stat.st_size
  saved,      \* the state file
  events,     \* history: what was pushed to the event queue
  skipped     \* history: the lines the daemon has no means to notice, see below

disk   == <<content, inodeNo, lines>>
object == <<fd, down, pos, inode, size, triggered, quiet>>
vars   == <<ops, disk, changes, pc, object, statSize, saved, events, skipped>>

NL      == 0
NoInode == 0
Failed  == -1     \* pos_type(-1): what tellg returns after a failure
NoSize  == -1     \* the initial m_size
NoState == [inode |-> NoInode, pos |-> Failed]   \* no entry for the file

\* The control messages; lines are pushed as their numbers.
Started     == -1
Replaced    == -2
Truncated   == -3
WentDown    == -4
ComingAlive == -5
Timeout     == -6
Controls    == Timeout .. Started

\* The file only ever gets whole lines appended, and the daemon never crashes.
AppendOnly == ops \subseteq {"line", "blank", "stop", "timeout"}

Exists == inodeNo # NoInode
Unterminated(c) == c # <<>> /\ Last(c) # NL

\* The positions of the texts behind position p.
Texts(p) == {i \in p + 1 .. Len(content) : content[i] # NL}

Init ==
  /\ ops \in Workloads
  /\ \/ content = <<1, NL>> /\ inodeNo = 1
     \/ content = <<>> /\ inodeNo = NoInode /\ "remove" \in ops
  /\ lines = 1
  /\ changes = 0
  /\ pc = "off"
  /\ fd = FALSE /\ down = FALSE /\ pos = 0 /\ inode = NoInode /\ size = NoSize
  /\ triggered = FALSE /\ quiet = TRUE
  /\ statSize = 0
  /\ saved = NoState
  /\ events = <<>>
  /\ skipped = {}

-----------------------------------------------------------------------------
(* The writers of the file                                                 *)

reader  == <<pc, object, statSize, saved, events>>
scanner == <<reader, skipped>>

\* What is written in front of a position the daemon would continue from, its
\* own or the saved one, stands where forwarded lines stood before the file was
\* truncated.  Nothing but the size tells a truncation, so such a line counts as
\* skipped, as do the lines found at a start without a state file.
Unnoticed ==
  \/ pc # "off" /\ inode = inodeNo /\ pos > Len(content)
  \/ saved.inode = inodeNo /\ saved.pos > Len(content)
Written(n) == IF Unnoticed THEN skipped \cup {n} ELSE skipped

LineBound == IF AppendOnly THEN MaxLines ELSE MaxMixed

WriteLine ==
  /\ "line" \in ops
  /\ Exists /\ ~Unterminated(content)
  /\ lines < LineBound
  /\ lines' = lines + 1
  /\ content' = content \o <<lines + 1, NL>>
  /\ skipped' = Written(lines + 1)
  /\ UNCHANGED <<ops, inodeNo, changes, reader>>

\* A write that ends in the middle of a line, and the write that ends the line.
WriteText ==
  /\ "text" \in ops
  /\ Exists /\ ~Unterminated(content)
  /\ lines < LineBound
  /\ lines' = lines + 1
  /\ content' = Append(content, lines + 1)
  /\ skipped' = Written(lines + 1)
  /\ UNCHANGED <<ops, inodeNo, changes, reader>>

WriteNewline ==
  /\ Unterminated(content)
  /\ content' = Append(content, NL)
  /\ UNCHANGED <<ops, inodeNo, lines, changes, scanner>>

Change(op) ==
  /\ op \in ops
  /\ changes < MaxChanges
  /\ changes' = changes + 1

WriteBlank ==
  /\ Change("blank")
  /\ Exists /\ ~Unterminated(content)
  /\ content' = Append(content, NL)
  /\ UNCHANGED <<ops, inodeNo, lines, scanner>>

TruncateFile ==
  /\ Change("truncate")
  /\ content # <<>>
  /\ content' = <<>>
  /\ UNCHANGED <<ops, inodeNo, lines, scanner>>

\* rename and create: an empty file with an inode of its own.
ReplaceFile ==
  /\ Change("replace")
  /\ Exists
  /\ content' = <<>>
  /\ inodeNo' = 2 * changes + 3
  /\ UNCHANGED <<ops, lines, scanner>>

RemoveFile ==
  /\ Change("remove")
  /\ Exists
  /\ content' = <<>>
  /\ inodeNo' = NoInode
  /\ UNCHANGED <<ops, lines, scanner>>

\* Odd inodes are those of replaced files, even ones those of created files.
CreateFile ==
  /\ ~Exists
  /\ inodeNo' = 2 * changes + 2
  /\ UNCHANGED <<ops, content, lines, changes, scanner>>

-----------------------------------------------------------------------------
(* Start and stop of the daemon                                            *)

\* get_state and the opening loop of logfile_task: a file that is missing, one
\* without an entry in the state file, one that got another inode, one that is
\* continued at the saved position.
Start ==
  /\ pc = "off"
  /\ pc' = "top"
  /\ triggered' = FALSE
  /\ fd' = Exists
  /\ down' = ~Exists
  /\ quiet' = ~Exists
  /\ IF ~Exists
       THEN /\ pos' = 0 /\ inode' = NoInode /\ size' = NoSize
            /\ events' = Append(events, Started)
            /\ UNCHANGED skipped
       ELSE /\ inode' = inodeNo
            /\ size' = Len(content)
            /\ pos' = IF saved = NoState THEN Len(content)
                      ELSE IF saved.inode # inodeNo THEN 0 ELSE saved.pos
            /\ events' = IF saved # NoState /\ saved.inode # inodeNo
                           THEN events \o <<Started, Replaced>> ELSE Append(events, Started)
            /\ skipped' = IF saved = NoState THEN skipped \cup {content[i] : i \in Texts(0)} ELSE skipped
  /\ UNCHANGED <<ops, disk, changes, statSize, saved>>

\* Faulty: the size of the file is saved in place of the position.
EntryOfSize == [inode |-> inode, pos |-> size]

\* The entry save_state writes for the file.
Entry == [inode |-> inode, pos |-> pos]

\* while (RUNNING) ends; save_state after the loop.  (If the state file can not
\* be written, the daemon leaves what a crash leaves.)
Stop ==
  /\ pc = "top"
  /\ Change("stop")
  /\ saved' = Entry
  /\ pc' = "off"
  /\ UNCHANGED <<ops, disk, object, statSize, events, skipped>>

\* The process dies: what was not saved is forgotten.
Crash ==
  /\ pc # "off"
  /\ Change("crash")
  /\ pc' = "off"
  /\ UNCHANGED <<ops, disk, object, statSize, saved, events, skipped>>

\* timeout_alert seconds have passed since last_updated.
Tick ==
  /\ "timeout" \in ops
  /\ ~quiet
  /\ quiet' = TRUE
  /\ UNCHANGED <<ops, disk, changes, pc, fd, down, pos, inode, size, triggered, statSize, saved, events, skipped>>

-----------------------------------------------------------------------------
(* One turn of the loop of logfile_task.  The file may change between any  *)
(* two of its system calls.                                                *)

TimeoutEvent == IF "timeout" \in ops /\ ~triggered /\ quiet THEN <<Timeout>> ELSE <<>>

\* The timeout check, and open() if there is no stream or the file was down.
CheckAndOpen ==
  /\ pc = "top"
  /\ IF fd /\ ~down
       THEN /\ pc' = "stat"
            /\ events' = events \o TimeoutEvent
            /\ triggered' = (triggered \/ TimeoutEvent # <<>>)
            /\ UNCHANGED <<fd, down>>
       ELSE /\ fd' = Exists
            /\ IF Exists
                 THEN /\ pc' = "stat"
                      /\ events' = events \o TimeoutEvent \o <<ComingAlive>>
                      /\ down' = FALSE
                      /\ triggered' = FALSE
                 ELSE /\ pc' = "save"
                      /\ events' = events \o TimeoutEvent
                      /\ triggered' = (triggered \/ TimeoutEvent # <<>>)
                      /\ UNCHANGED down
  /\ UNCHANGED <<ops, disk, changes, pos, inode, size, quiet, statSize, saved, skipped>>

\* Faulty: the file is reported, but not marked as down.
StatFailsUnmarked ==
  /\ pc = "stat"
  /\ ~Exists
  /\ events' = Append(events, WentDown)
  /\ pc' = "save"
  /\ UNCHANGED <<ops, disk, changes, object, statSize, saved, skipped>>

StatFails ==
  /\ pc = "stat"
  /\ ~Exists
  /\ events' = Append(events, WentDown)
  /\ down' = TRUE
  /\ pc' = "save"
  /\ UNCHANGED <<ops, disk, changes, fd, pos, inode, size, triggered, quiet, statSize, saved, skipped>>

\* Faulty: the position in the old file is kept for the new one.
StatKeepsPosition ==
  /\ pc = "stat"
  /\ Exists
  /\ statSize' = Len(content)
  /\ IF inodeNo = inode
       THEN pc' = "size" /\ UNCHANGED <<events, inode>>
       ELSE /\ events' = Append(events, Replaced)
            /\ inode' = inodeNo
            /\ pc' = "reopen"
  /\ UNCHANGED <<ops, disk, changes, fd, down, pos, size, triggered, quiet, saved, skipped>>

\* stat() and the comparison of the inodes.
Stat ==
  /\ pc = "stat"
  /\ Exists
  /\ statSize' = Len(content)
  /\ IF inodeNo = inode
       THEN pc' = "size" /\ UNCHANGED <<events, inode, pos>>
       ELSE /\ events' = Append(events, Replaced)
            /\ inode' = inodeNo
            /\ pos' = 0
            /\ pc' = "reopen"
  /\ UNCHANGED <<ops, disk, changes, fd, down, size, triggered, quiet, saved, skipped>>

Reopen ==
  /\ pc = "reopen"
  /\ fd' = Exists
  /\ IF Exists
       THEN pc' = "size" /\ UNCHANGED events
       ELSE pc' = "save" /\ events' = Append(events, WentDown)
  /\ UNCHANGED <<ops, disk, changes, down, pos, inode, size, triggered, quiet, statSize, saved, skipped>>

\* The size of the file has not changed: early skip.
SizeSame ==
  /\ pc = "size"
  /\ statSize = size
  /\ pc' = "save"
  /\ UNCHANGED <<ops, disk, changes, object, statSize, saved, events, skipped>>

SizeChanged ==
  /\ pc = "size"
  /\ statSize # size
  /\ IF statSize < size
       THEN pos' = 0 /\ events' = Append(events, Truncated)
       ELSE UNCHANGED <<pos, events>>
  /\ size' = statSize
  /\ pc' = "read"
  /\ UNCHANGED <<ops, disk, changes, fd, down, inode, triggered, quiet, statSize, saved, skipped>>

\* Faulty: one getline per turn.
GotFirstLine ==
  IF Exists /\ pos # Failed THEN {i \in Texts(pos) : \A j \in Texts(pos) : i <= j} ELSE {}

\* The texts behind the position are lines: getline does not tell an
\* unterminated line from a complete one.
GotLines == IF Exists /\ pos # Failed THEN Texts(pos) ELSE {}

\* One after the other.
InFileOrder(texts) == {at \in SetToSeqs(texts) : \A i, j \in DOMAIN at : i < j => at[i] < at[j]}

\* tellg behind the last line that was not empty.  If getline ran into the end
\* of the file in the middle of a line, tellg fails.
TellPos(text) == IF text = Len(content) THEN Failed ELSE text + 1

Read ==
  /\ pc = "read"
  /\ \E at \in InFileOrder(GotLines) :
       /\ events' = events \o [i \in DOMAIN at |-> content[at[i]]]
       /\ IF at # <<>>
            THEN pos' = TellPos(Last(at)) /\ quiet' = FALSE /\ triggered' = FALSE
            ELSE UNCHANGED <<pos, quiet, triggered>>
  /\ pc' = "save"
  /\ UNCHANGED <<ops, disk, changes, fd, down, inode, size, statSize, saved, skipped>>

\* Every state_file_interval turns the state is saved.
Save ==
  /\ pc = "save"
  /\ saved' \in {saved, Entry}
  /\ pc' = "top"
  /\ UNCHANGED <<ops, disk, changes, object, statSize, events, skipped>>

-----------------------------------------------------------------------------
Writer == \/ WriteLine \/ WriteText \/ WriteNewline \/ WriteBlank
          \/ TruncateFile \/ ReplaceFile \/ RemoveFile \/ CreateFile
Scan == CheckAndOpen \/ StatFails \/ Stat \/ Reopen \/ SizeSame \/ SizeChanged \/ Read \/ Save

Next == Writer \/ Start \/ Stop \/ Crash \/ Tick \/ Scan

Spec == Init /\ [][Next]_vars

\* A running daemon keeps scanning.
FairSpec == Spec /\ WF_vars(Scan)

-----------------------------------------------------------------------------
Emitted == {n \in ToSet(events) : n > 0}
Forwarded(n) == n \in Emitted \/ n \in skipped

TypeOK ==
  /\ ops \in Workloads
  /\ content \in Seq(0..MaxLines)
  /\ inodeNo \in Nat
  /\ lines \in 1..MaxLines
  /\ changes \in 0..MaxChanges
  /\ pc \in {"off", "top", "stat", "reopen", "size", "read", "save"}
  /\ fd \in BOOLEAN /\ down \in BOOLEAN /\ triggered \in BOOLEAN /\ quiet \in BOOLEAN
  /\ pos \in Nat \cup {Failed}
  /\ inode \in Nat
  /\ size \in Nat \cup {NoSize}
  /\ statSize \in Nat
  /\ saved \in [inode : Nat, pos : Nat \cup {Failed}]
  /\ events \in Seq(1..MaxLines \cup Controls)
  /\ skipped \subseteq 1..MaxLines

\* A file that only gets whole lines appended is forwarded line by line: each
\* line once, in order, without gaps, across orderly stops and restarts.
ForwardedExactlyOnce ==
  AppendOnly =>
    /\ \A i, j \in DOMAIN events : i < j /\ events[i] > 0 /\ events[j] > 0 => events[i] < events[j]
    /\ \A n \in 1..lines : (\E m \in Emitted : n <= m) => Forwarded(n)

Before(p) == {content[i] : i \in {j \in Texts(0) : j <= p}}

\* No line is skipped: every line of the current file in front of the position,
\* the one in memory or the saved one a crashed daemon would continue from, has
\* been forwarded (or could not be noticed, see Unnoticed).
NoLineSkipped ==
  /\ pc # "off" /\ inode = inodeNo /\ Exists => \A n \in Before(pos) : Forwarded(n)
  /\ saved # NoState /\ saved.inode = inodeNo /\ Exists => \A n \in Before(saved.pos) : Forwarded(n)

\* Reports of a file that goes down and comes alive alternate, and the last one
\* agrees with what the daemon believes: no report is repeated or left out.
News == {Started, WentDown, ComingAlive}
DownAndAliveAgree ==
  /\ \A i, j \in DOMAIN events :
       i < j /\ events[i] = events[j] /\ events[i] \in {WentDown, ComingAlive} =>
         \E k \in i..j : events[k] \in News \ {events[i]}
  /\ \A i \in DOMAIN events :
       pc # "off" /\ (\A k \in i + 1 .. Len(events) : events[k] \notin News) =>
         /\ events[i] = WentDown => down \/ ~fd
         /\ events[i] = ComingAlive => fd /\ ~down

\* While the daemon runs, every complete line of the logfile gets forwarded.
Complete(n) == \E i \in 1..Len(content) - 1 : content[i] = n /\ content[i + 1] = NL
GetForwarded == \A n \in 1..MaxLines : Complete(n) ~> (Forwarded(n) \/ ~Complete(n))
LinesForwarded == <>[](pc # "off") => GetForwarded

\* The weaker promise the code keeps: a daemon that never ends its scanning
\* forwards every line that is appended to the file.
AppendedIsForwarded == AppendOnly /\ <>(pc # "off") /\ [](pc # "off" => [](pc # "off")) => GetForwarded
=============================================================================
