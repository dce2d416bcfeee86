# TLA+ specifications of ctguard

These modules specify the four daemons of ctguard where threads, processes and
a changing file system meet: the queues and sockets between them, what the rules
of `ctguard-research` make of a sequence of events, the way `ctguard-logscan`
follows a logfile, the scans and watches of `ctguard-diskscan`, and the commands
`ctguard-intervention` runs. TLC checks them on small instances; for nine
modules, all but `RuleEngine`, TLAPS proves every safety property, and one refinement,
for all values of the constants.

Contents: 1 the system, 2 plan, 3 the modules and the code, 4 the runs,
5 fairness, 6 the proofs, 7 where the code does something else than is said of
it, 8 what is not modelled.

## 1. The system

ctguard is a host-based intrusion detection system of four daemons that send
each other datagrams over unix sockets:

    logfiles, systemd --> ctguard-logscan ---\
                                              +--> ctguard-research --> ctguard-intervention
    file system --------> ctguard-diskscan --/            |  \
                                                     alert file, mail

Every daemon is a set of threads that exchange messages through
`blocked_queue` objects. A `!KILL` message travels behind the last event from
queue to queue when the daemon shuts down; the global flag `RUNNING` ends the
loops that wait for something else; an exception that ends a thread is kept in
the `errorstack`, which main polls.

| component | state | operations | what is hard | correct when |
|---|---|---|---|---|
| `libs::blocked_queue` | queue, mutex, condition variable | push, emplace, take, take(d) | several producers and consumers, spurious wakeups, a push between the test and the wait | first in first out, no lost wakeup, everything is taken |
| `libs::unix_socket_client` | a connected datagram socket | send with reconnect | the receiver restarts, stalls or is gone between any two system calls | it returns exactly if the datagram was delivered, a restart of the receiver is no error |
| store-and-forward threads: `output_task` of logscan and diskscan, `intervention_task` of research | event queue, `local_queue` | take, send, defer, resend at a timeout, shutdown | the receiver is away, comes back, is away again; `!KILL` while events are deferred; an event no socket takes; producers that never pause | nothing is lost or sent twice, reordering is limited, shutdown ends |
| `ctguard-research`, threads | four queues, the rule state with its unless timers, `RUNNING`, errorstack | input, processing, state, output, intervention, mail, main | order across threads, exceptions, shutdown in mid-flow, control messages inside the data | alerts in the order of events, orderly and complete shutdown, no stop from outside |
| `ctguard-research`, rules | rules, activation groups, unless timers | check_rule, check_top_rules, process_log | wall clock, state shared between two threads, recursion | the most specific rule of the highest priority fires; rates are those of the last seconds |
| `ctguard-research`, mail | alerts to be mailed | the SMTP dialogue | partial failure in the dialogue, a silent server | every alert is mailed once |
| `ctguard-logscan`, logfile scanner | descriptor, position, inode, size, flags, state file | open, stat, read, save state | the file is appended to, truncated, replaced, removed between two system calls; crash, restart | every line is forwarded, none twice; changes are reported once |
| `ctguard-logscan`, threads | event queue, `RUNNING`, state file | logfile, systemd, output, main | shutdown order of producers and consumer, restart from the saved state | lines in order and at most once across runs |
| `ctguard-diskscan`, scans and alerts | four queues, `insert_set`, `update_queue`, `in_scan`, the table of objects with its `scanned` flags | scan, event, rtevent, alert, output, main | two phases of scans that may overlap, realtime events in between, blocks written late, stale reads, statements and commits that fail | an undisturbed scan leaves what the disk holds; the alerts tell what the database holds; every scan ends |
| `ctguard-diskscan`, watches | inotify watches, the map from watch ids to paths | watch_task, add_watch | directories made, renamed and removed between two calls; ids that are not known; overflow; calls that fail and are only logged | every directory is watched under its path, no change in it is lost |
| `ctguard-diskscan`, file data | attributes, checksum, target, diff of an object | construct, compare, store, tell | what is not looked at, what cannot be read | see scans and alerts |
| `ctguard-intervention` | command queue, one child process, two pipes | input, processing, main; fork, poll, kill, read | timeout against exit, pipes of limited capacity, processes a child leaves behind | commands in order, their outputs kept apart, each over some time; SIGKILL meets the child only |

The `hazards` of `PROJECT.json` list what is hard to test in this code, each at
its line.

## 2. Plan

Order of work; the first ten points are done.

1. `BlockedQueue`: everything else rests on it. Checked and proved.
2. `OutputTask` with the abstract `EventChannel`: three of the four daemons
   forward through this loop. Checked, proved, refinement proved.
3. `ResearchDaemon`: the daemon everything flows through. Checked and proved.
4. `LogFile` and `LogScanDaemon`: one file, and the threads around it. Checked and
   proved.
5. `UnixSocketClient`: the sink of `OutputTask`. Checked and proved.
6. `RuleTree` and `RuleEngine`: the trees of a rule file; activation groups and
   unless timers under a clock, against the history of events. Checked.
7. `FileData` and `DiskScan`: what is known of an object; scans, realtime events
   and the database. Checked; the safety properties of `DiskScan` proved.
8. `DiskWatch`: the bookkeeping of watches. Checked and proved.
9. `InterventionDaemon`: fork, poll, timeout, kill, pipes. Checked and proved.
10. Proofs for `DiskScan`, `InterventionDaemon`, `ResearchDaemon`, `LogScanDaemon`,
    `LogFile` and `DiskWatch`.
11. Open: the SMTP dialogue; the diffs of changed files; the composition of
    `OutputTask` with `UnixSocketClient` (the sink of the former as what the
    latter promises: `ReturnsIffDelivered` and `RestartIsNoError`).
12. Open proofs: the properties of `RuleEngine`.

Each module has its bounds as CONSTANTS with named assumptions, one action per
step between two points where other threads may interfere, and no RECURSIVE
operator. Definitions marked "Faulty" are variants of the definition below
them with a plausible mistake; nothing uses them, they show for each property
what it would catch.

## 3. The modules and the code

A step of the models is what a thread does between two points where another
thread, the peer or the file system can interfere: a queue operation (atomic by
the mutex of `blocked_queue`, see `BlockedQueue`), a system call, a look at
`RUNNING`. The first column of the tables is the module's action.

### BlockedQueue (`src/libs/blockedqueue.hpp`)

The variables are the mutex, the set of threads the condition variable holds
(`waiting`), the queue, and the place of each thread in its call. `accepted` and
`taken` are histories.

| action | code |
|---|---|
| `Lock`, `Relock` | the constructor of lock_guard and unique_lock; the end of a wait |
| `Push` | push and emplace, which differ in how the value is made |
| `Wait`, `WakeUp` | `wait` and `wait_for`; a spurious wakeup is a wakeup without a push |
| `Take`, `GiveUp` | the end of take() and of take(d), with and without a value |

take(d) tests the queue once after its wait (`woken`), take() in a loop.
`size`, `empty`, `front` and `pop` are not modelled: they change nothing, or,
like `pop`, have no caller.

### EventChannel, OutputTask (`src/{logscan,diskscan,research}/daemon.cpp`)

`EventChannel` says what a connection promises: an accepted event is delivered
as the oldest of those waiting, or becomes late, and the late ones are delivered
oldest first; nothing else happens to it. `OutputTask` is the loop that
`output_task` of logscan and diskscan and `intervention_task` of research share.

| variable | code |
|---|---|
| `queue`, `pushed`, `killMark` | the event queue; number of events pushed; the event before `!KILL` |
| `current`, `localQueue` | the event taken, the deferred ones |
| `pc` | take, send, resend at a timeout (`flush`), resend at `!KILL` (`drain`) |
| `peer` | whether the receiver reads, is stalled (send blocks) or gone (send throws) |
| `Unsendable` | the events a send throws for although the receiver reads, as a message larger than a datagram |
| `sent`, `deferred`, `sinkFailed` | histories |

The sink is the client of the next module: `socket_sink::send` returns or
throws. The other sinks (a file, nothing) never fail in this way and take the
same steps with a receiver that reads. The abstract state of `EventChannel` is
read off the concrete one in the instance `Channel`.

### UnixSocketClient (`src/libs/unix_socket_client.cpp`)

One client and one receiver, which is started and stopped (a new
`incarnation` each time) or stalls at any time. `sock` is the incarnation the
socket is connected to, or `NoSocket`. `Sendall...`, `Socket...` and
`Connect...` are the outcomes of the three system calls of the retry loop:
ECONNREFUSED leads to a new socket and a new connection, every other error to
an exception. These are that the receiver is gone, that the message fits into no
datagram (`fits`), that there is no socket, and any other (ENOBUFS, ENOMEM, EACCES:
`SendallFails`, `SocketThrows`, `ConnectFails`, if `SystemFails`). What the kernel does with connected datagram sockets is external
(`Connected`, the receiver's actions). `Call` starts a call; a caller may call
again after a return or an exception, which is what `output_task` does.

### ResearchDaemon (`src/research/daemon.cpp`)

Six threads and main; `pc` has one entry for each.

| actions | code |
|---|---|
| `Main...` | daemon(): the "started" event, sigtimedwait, the errorstack, the joins |
| `Input...`, `Arrive` | input_task; the senders |
| `Proc...` | processing_task and, as a choice, what process_log makes of an event |
| `State...` | state_task: the unless timers |
| `Output...` | output_task: alert file, then mail queue |
| `Interv...` | intervention_task, its sending left to `OutputTask` |
| `Mail...` | mail_task: keep, send, flush at the end |

What a rule decides is left open: an event is ignored, alerted, may ask for an
intervention, may arm or stop an unless timer. Every order of decisions is thus
part of the model. Commands are taken in one step here because
`OutputTask` describes what becomes of them. An event that asks for several
interventions pushes several commands; one stands for them.

### RuleTree, RuleEngine (`src/research/rule.cpp`, `src/research/process_log.cpp`)

`RuleTree` has no state: it says which rule files parse_rules accepts
(`Accepted`) and which trees of standard and group rules they become (`Load`).
`RuleEngine` runs the events of one `processing_task` through these trees, with
`state_task` and a clock beside it. `MCRuleEngine` holds the rule files: one
after `rules/09_grouping.xml`, one after the unless rules of the integration
tests, one with a rule that is both, one with an unless rule that stands below two
others, and one with patterns that are no regex and a rule with the largest id.

| variable | code |
|---|---|
| `file`, `now` | the rule file; `std::time` |
| `pc`, `phase`, `path` | the processing thread, the tree it is in, the rules that fit so far (the recursion of check_top_rules) |
| `ev` | the event, by its kind, one field, its groups and what the last fitting rule left |
| `mevents`, `timer` | `rule_state`: the events of an activation group; `unless_triggered` and `unless_event` |
| `log` | history |

| action | code |
|---|---|
| `Receive` | process_log up to the first check |
| `FitRule` | one level of check_top_rules that finds a rule: all checks, update_event, update_state |
| `NoRule` | one that finds none: on to the group rules, or the end |
| `CheckThrows` | the exceptions of check_rule and check_top_rules: an unknown child, a pattern that is no regex, no fitting rule |
| `Finish` | processing_task compares the priority |
| `TimeOut` | state_task for one rule; `Tick` the clock |

Regexes, `if_field` and `if_trait` are the set of `kinds` a rule accepts, and the
set of those for which check_rule comes to a pattern that std::regex does not take
(`broken`: nothing validates the patterns of `if_field` and `if_trait` at load); the fields a rule extracts do not change the field of `same_field`.
`ResearchDaemon` leaves open what the rules decide; this is what they do decide.

### LogFile (`src/logscan/daemon.cpp`, `src/logscan/logfile.hpp`)

One logfile with its object, the loop of `logfile_task` and its entry in the
state file. The content is a sequence of units, text of a line and newline;
positions count units. Every system call of a turn (open, stat, second open,
read) is a step of its own, and the file changes in between. `Save` may or may
not write the state (`state_file_interval`). `Crash` loses what was not saved.

`saved.pos` -1 with inode 0 is the missing entry. `size` starts as -1, as in
logfile.hpp. `Unnoticed` marks what the code cannot see, since only the size
tells a truncation: text written into a truncated file in front of a position
the daemon would continue from. Such lines are exempt from `NoLineSkipped`, and
so is what the file holds at the first start without a state file.

### LogScanDaemon (`src/logscan/daemon.cpp`)

main, `logfile_task`, `systemd_task` and `output_task` over several runs of the
daemon. The file only grows here and each line is one event (`LogFile` has the
rest); the receiver is always there (`OutputTask` has the rest). `Restart`
begins a new run with what the state file holds. `killPos` remembers how many
lines were pushed before `!KILL`.

### FileData (`src/diskscan/filedata.cpp`, and the statements of `src/diskscan/daemon.cpp`)

No state: what construct reads of an object (`Construct`), the row it becomes
(`NewRow`, `ChangedRow`), whether it differs from its row (`Differs`), and what
the alerts tell (`TellNew`, `TellChange`). User, group, size and mode are one
attribute. A checksum that was not computed, and the member `m_sha256` that
nothing was ever written to, are values of their own.

### DiskScan (`src/diskscan/daemon.cpp`)

| variable | code |
|---|---|
| `scanQ`, `eventQ`, `rtQ`, `dataQ` | scan_queue, event_queue, rtevent_queue, file_data_queue |
| `listing` | the directory entries scan() has not come to yet |
| `read` | what event_task and rtevent_task have read and not pushed yet |
| `db`, `inScan`, `insertSet`, `updateQ` | the table diskscan-data; the locals of alert_task |
| `scanRunning` | scan_is_running |
| `disk`, `changes` | the file system and what is to become of it |
| `told`, `overlooked`, `unsaved`, `quiet` | histories: what the alerts say; deletions met while the object was in `insertSet`; objects whose new rows were rolled back behind their alerts; whether anything has interfered with the latest scan |

| actions | code |
|---|---|
| `Main...` | daemon(): initial and regular scans, sigtimedwait, errorstack, joins; the wait of a single run |
| `Change` | the file system, and the event watch_task makes of it |
| `Scan...` | scan_task and scan() |
| `Event...`, `RtEvent...` | event_task, rtevent_task: take, read, push, and their exceptions |
| `Alert...` | alert_task, one action for each outcome: flags, the four combinations of row and object, blocks |
| `AlertThrows` | a statement fails, after any part of a block; the destructor of the transaction commits it (`InsertSome`), or fails to, or the commit is what fails (`RollBack`) |

A read and the push of its result are two steps, so that the threads may push
in another order than they have read in. An event of the watch may be handled at
any time: the settle time only delays it. The output thread is `OutputTask`.

### DiskWatch (`src/diskscan/daemon.cpp`)

One watch, recursive or not. Directories are numbers, which serve as watch ids;
`where` is the true path of each, `watches` the path the thread believes in,
`watched` what inotify watches, `kernel` its queue of bounded length.

| actions | code |
|---|---|
| `Touch`, `MakeDir`, `RemoveDir`, `FreeDir`, `RenameDir` | the file system with the events of inotify |
| `AddWatch`, `AddWatchFails`, `ListWatched` | add_watch, its recursion as the sequence `adding`; inotify_add_watch may fail for a directory that is there, which is only logged |
| `InitThrows`, `ListThrows`, `WaitThrows` | the calls whose failure ends the thread: inotify_init1; opendir and readdir; select and read |
| `Watch...` | watch_task, for one event after the other |
| `ScanLists`, `ScanFails` | scan_task, for one directory after the other; what opendir and readdir throw is only logged |

`unseen` holds the directories with a change that nobody is going to look at.
A change between the scan of a directory and its watch is exempt (`early`): it
is seen by the next regular scan only; so is one in what a scan could not list.
`stray` exempts what section 7 reports: directories that were renamed, and those below
one whose watch could not be added.

### InterventionDaemon (`src/intervention/daemon.cpp`)

main, `input_task`, `processing_task`, a child process and the process it may
leave behind. A program is a sequence of steps (print to a stream, spawn, hang);
a pipe takes `PipeSize` prints.

| actions | code |
|---|---|
| `Main...`, `Input...`, `Arrive` | daemon(), input_task, the sender |
| `ProcTakes` with `ProcEnds`, `ProcRefuses`, `ProcForks`, `ProcThrows` | take, search of the action, whitelist, pipe2 and fork |
| `PollWaits`, `PollReaps`, `PollExpires`, `PollFails`, `ProcKills` | the loop around waitpid, one second per round |
| `Reads`, `ReadsEnd` | the reading of the two pipes |
| `Child...`, `Rest...` | run_cmd up to execv, and what the processes do |

`ignored` is the disposition of SIGCHLD, which a process inherits: with it a child
is gone without waitpid, and only then can SIGKILL meet another process.

## 4. The runs

Deadlock is checked only in `queue`: in every other module the system ends (the
daemon has exited) or the bounds of the environment are exhausted.

| run | module, cfg | bounds | shows |
|---|---|---|---|
| `output` | OutputTask_proofs, MCOutputTask | 5 events, one of which no socket takes | safety, the refinement, delivery in the end, an answer to `!KILL` |
| `research_safety` | ResearchDaemon, MCResearchDaemon | 2 events besides the "started" event, a socket buffer of 1, input, processing and intervention may fail | order and completeness of alerts, no stop from outside |
| `research_liveness` | ResearchDaemon, MCResearchDaemonLive | the "started" event and its timer, mail enabled, input and intervention may fail | errors stop the daemon, the shutdown ends, alerts are written |
| `rules` | MCRuleEngine, MCRuleEngine | 5 rule files, 4 events, each of 2 to 4 kinds and fields, 3 seconds | activation rules are exact, reset consumes, unless reports are justified, what can throw |
| `logfile` | LogFile, MCLogFile | 3 lines, 2 of them beside other operations; 2 changes; either any operation and timeouts, or a file that only grows and a daemon that stops | no line skipped, reports agree; each line once, in order, and while the daemon runs all of them |
| `logfile_partial` | LogFile, MCLogFilePartial | 3 lines, unterminated ones among them | violated, see 7 |
| `logscan` | LogScanDaemon, MCLogScanDaemon | 3 lines, 1 message, 2 runs | order across runs, complete and terminating shutdown |
| `queue` | BlockedQueue, MCBlockedQueue | 2 producers of 2 values, a take() and a take(d) | first in first out, no lost wakeup, no deadlock, everything taken |
| `client` | UnixSocketClient, MCUnixSocketClient | 3 incarnations, 3 calls, any call of the system may fail | truthful and terminating send |
| `diskscan` | MCDiskScan, MCDiskScan | 2 paths, 5 objects, up to 2 changes, 2 scans, blocks of 2; 9 beginnings (`MCStarts`) | blocks, alerts and database agree; scans are exact and end; so does the daemon |
| `diskwatch` | MCDiskWatch, MCDiskWatch | 3 directories, 6 paths, 3 changes or logged failures, 4 queued events, an empty and a deep tree, recursive or not | no directory is lost, what ends the thread |
| `intervention` | MCInterventionDaemon, MCInterventionDaemon | 4 datagrams, 5 programs, pipes of 1, timeouts of 0 and 1; 4 beginnings | order, outputs kept apart, the right process is killed, commands and daemon end |

Why these bounds are enough to be interesting:

* `output`: two deferred events, a third that overtakes them and a fourth that
  is deferred while they are resent need four events; the fourth is the one that no
  socket takes, and a fifth may be stuck behind it. No variable but the sequences grows
  with the bound.
* `research_safety`: order needs two events, `!KILL` from outside one datagram
  between them, and every queue can hold two events and `!KILL`. Since the
  socket buffer only delays senders, a capacity of 1 loses no order of
  arrivals.
* `research_liveness`: the "started" event and the alert of its unless timer
  reach every queue and every thread, mail included. Liveness of a thread does
  not depend on how many events came before.
* `rules`: two firings of a rule with rate 2 and reset need four events, two
  sources of events two values of the field; three seconds let an event grow
  too old for a group of one second and a timer of one second run out (both
  compare with `<`). The order of the checks, priorities, children, an
  exception to a rule and each way to throw are in the files.
* `logfile`: a skipped line needs a position, a change of the file that
  makes it wrong, and a line in front of it; two changes allow for a
  change followed by a crash, a truncation before a restart, and a replacement
  of a replaced file. Where the file only grows, three lines allow for one read
  in each of two runs of the daemon and one that is left over between them.
* `logscan`: one shutdown with lines on their way, one more run that continues.
* `queue`: two waiting consumers for one value, two producers that push between
  the wakeup of a consumer and its return.
* `client`: a restart in front of and between the system calls of one call, and
  the state it leaves to the next call.
* `diskscan`: the threads meet at a path, so one that changes and one that stays
  the same are enough; with two of them a block of two is full, or written by
  MIDSCAN. Every beginning is one conflict: a change during the initial scan
  with a signal or an exception at any time, rows that are out of date, a file
  that becomes a link and back, a single run, and an overlapping second scan.
* `diskwatch`: three changes make a directory in a new directory and a file in
  it, or rename a tree and touch it; four events are the most that three changes
  queue without an overflow, so both happen. A failure that is only logged takes the
  place of one of the three; those that end the thread are not bounded.
* `intervention`: a command, one that is refused or leaves something behind, and
  the next; a pipe of one makes the second print wait; a timeout of one lets a
  child end before, at and after the last poll.

The properties, by what they say of the code, are commented where they are
defined. Those with several actors in them:

* `OvertakenOnlyIfDeferred`: an event passes another one only because the
  sending of the latter has failed.
* `ShutdownDrains`: on `!KILL` nothing is discarded before an attempt to send it
  has failed.
* `StopsOnlyAtShutdown`: `!KILL` is an event like any other to the queues, so
  one from the socket must never enter them.
* `ShutdownIsComplete`: what was accepted is processed, handed over and written,
  whichever thread was how far.
* `RatesAreExact`: pruning, resets and events of other sources never change
  whether a rule fires; the reference counts over the history of all events.
* `UnlessAlertsJustified`: a report of the state thread needs a parent that
  fitted long enough ago and no unless rule, completely processed, since then, at the
  node where its timer is stopped (at any node: `UnlessAlertsTruthful`, which is violated, see 7).
* `FailsOnlyOnBadRules`: which rules of a file that was accepted can end the
  processing thread.
* `NoLineSkipped`: the position, and the saved one a crashed daemon would
  continue from, never lie behind a line that was not forwarded.
* `DeliveredInOrder`: no line comes twice, although the position is saved by one
  thread while another one delivers.
* `RestartIsNoError`: a restart of the receiver between send(), socket() and
  connect() is no error to the caller; an exception has one of four other reasons.
* `ScanIsExact`: after a scan nothing has interfered with, the database holds
  what the disk holds, whatever realtime events and an earlier scan have left in
  the queues; with two exceptions, which it names (see 7).
* `AlertsTellDatabase`: who has read all alerts knows the database, also when the
  alert thread has ended in the middle of a block, except for blocks rolled back.
* `NoDirectoryIsLost`: the watch of a directory and the scan of what it held before
  leave no gap, however fast directories are made and removed, and beside those that
  could not be watched or listed.
* `OnlyOverflowIsUnknown`: the ids that the thread keeps are those of all events still
  queued.
* `OneCommandAtATime`: no process of an earlier command can print into the pipes
  when the next one is taken. It may still run, if it has closed or redirected its
  output, or was killed and not awaited (daemon.cpp:205-208).
* `KillsOwnChild`: polling, exit and timeout race, and SIGKILL still never meets a
  pid that may belong to somebody else.

## 5. Fairness

Safety properties need none. For the liveness properties:

* each thread that can take a step takes one at last (`WF` of the disjunction of
  its actions). The code's threads are `std::thread`s on which nobody has a
  priority, and none waits for another except by the queue and the joins, which
  are guards of the model.
* in `BlockedQueue` a thread that wants the mutex again and again gets it
  (`SF` of `Lock` and `Relock`). The standard promises less; without it no
  queue is live. A wait of take(d) ends (`WF` of `WakeUp` of the timed
  consumers); one of take() need not. Only consumers that call take() have to
  come back to the queue: a consumer with take(d) never takes a value on behalf
  of one that was not woken up.
* nothing is assumed of receivers, senders, signals, writers of the logfile,
  restarts and crashes. Where a property needs the environment to behave, it says
  so in its antecedent: `EventuallyDelivered` a receiver that reads from some
  time on and producers that are silent for a second again and again (`TakeTimeout`,
  which has no fairness: under steady traffic deferred events wait for ever, see 7); `ShutdownTerminates` of `OutputTask` one that does not stall;
  `ShutdownTerminates` of the daemons a socket that becomes silent (the
  receiving loops look at `RUNNING` only after a second without a datagram,
  research/daemon.cpp:449-491); `AppendedIsForwarded` a daemon that never stops;
  `CommandsEnd` and `ShutdownTerminates` of `InterventionDaemon` no process that a
  command has left behind. There the child is scheduled like a thread: one that
  can print prints, one that was sent SIGKILL dies.
* In `DiskScan` main has no fairness for signals and regular scans, and the file
  system none at all: both are bounded, so that every queue is emptied at last.

## 6. The proofs

`tlapm` checks every step of `Libs_proofs` (`BlockedQueue` and `UnixSocketClient`),
`OutputTask_proofs`, `ResearchDaemon_proofs`, `LogFile_proofs`, `LogScanDaemon_proofs`,
`DiskScan_proofs`, `DiskWatch_proofs` and `InterventionDaemon_proofs`. The
assumptions are those named in the modules: the bounds are natural numbers (at
least one line and one run, a socket buffer of at least one datagram; the workloads
of `LogFile` are sets of operations), `Producers` and
`Consumers` are disjoint sets that do not hold `Nobody`, `Timed` is a subset of
`Consumers`; the file system of `DiskScan` has finitely many paths, its watches
are sets of them, and what an earlier run has stored is below a watch; `DiskWatch` has
finitely many directories, its set of paths holds what every path in it leads through,
and in a tree it may start with each path is that of one directory and leads through
directories.

**OutputTask.** `Inductive` proves `Spec => []IInv`. None of the
properties is inductive by itself: that a take duplicates nothing depends on
what the queue can hold. `IInv` therefore states where an event can be: the
events in the queue are increasing and above everything the thread has taken
(`QueueInOrder`); `current` is there exactly while it is being sent and above
all that was taken before (`CurrentIsNewest`); `localQueue` is increasing,
deferred, and above the deferred events already delivered (`LocalInOrder`);
`!KILL` separates the events pushed before from those pushed after it
(`KillInOrder`). `NoEventIsLost`, `NoEventIsDuplicated`, `DeliveryOrder`,
`ShutdownIsOrderly` and `TypeCorrect` follow from it. `Refinement` proves `Spec => ImplementsChannel`: taking, timing out and
`!KILL` are stutters of `EventChannel` (`HiddenSteps`), a push is `Accept`, a
send `Deliver` or `Delay`, a resend `DeliverLate`, the end `Close`; the heart is
that the head of the queue and of `localQueue` are the oldest waiting and the
oldest late event (`CurrentIsOldest`, `FrontIsOldest`). The lemmas `Pushing` and
`Popping` carry all reasoning about sequences.

**BlockedQueue.** `QueueInv` is `TypeOK`, `FirstInFirstOut` and `NoLostWakeup` with
the fact that a producer inside push has a value left (`PushBounded`, which keeps
the bound). `QueueOrder` and
`WakeupsArrive` follow for any sets of threads. `NoLostWakeup` needs that the
test for emptiness and the wait are under the mutex that every push holds.

**UnixSocketClient.** The invariant adds to the two properties that a receiver that is
gone was gone during the call, and that only a failed socket() leaves
`NoSocket` behind (`BadSocketIsFailure`). `SendIsTruthful` and `RestartsAreHidden` follow for any
number of calls and restarts.

**ResearchDaemon.** `IInv` follows an event through the daemon. Datagrams are
numbered in the order of their arrival, some of them being ignored, so that what
the socket still holds is newer than what was accepted (`ArrivalsInv`: the
existence of a numbering); the alerts raised are older than the event in hand and
than those in `inputQ` (`EventsInv`). The state thread pushes alerts at any time,
also after the processing thread has pushed `!KILL`, so `outputQ` is not simply
what was raised and not written yet: `AlertsInv` says that it is, until `!KILL` is
in it, and from then on that only reports of timers stand behind it (`BehindKill`),
which are lost. `StopInv` ties every thread that has
ended, and every `!KILL`, to the end of `RUNNING` or to an exception; `DrainInv`
says that without an exception `!KILL` is the last entry of its queue, and
`JoinInv` what the joins of main wait for. `AlertsKeepOrder`, `NothingOutsideStopsIt`
and `ShutdownLosesNothing` follow for any number of events, any buffer, timers and
interventions.

**LogScanDaemon.** The lines delivered, then those queued, are in the order of
the file and not beyond the position (`OrderInv`); a new run continues at the saved
position because logfile_task, the only one that moves it, saves it when it ends and
main waits for that (`SavedInv`). Every line read is delivered, queued, or was in
the queue when its run ended (`ReadInv`), and those read before `!KILL` was pushed
stand in front of it (`KillInv`). `LinesKeepOrder` and `ShutdownDrainsTheQueue`
follow for any number of lines, messages and runs.

**LogFile.** Three arguments, over the same steps.
`CoverInv` states `NoLineSkipped` position by position. It is inductive together with
`FreshInv`: an inode that is given to a new file is above all that the daemon
remembers, so no position survives into a file it does not belong to. An append
behind the position changes nothing, one in front of it is exempt (`CoverGrows`); a read
forwards all between the old and the new position, and the position behind an
unterminated line covers nothing.
`NewsInv` says that behind the last report of one kind there is one of another kind
exactly if that is what the daemon believes, and that the daemon believes the file to be
there throughout a turn; a restart resets the reports by its own.
`OnceInv` is about a file that is only appended to. Such a file holds every line in order
(`FileInv`), the daemon never finds a reason to leave its position, which stays inside
the file (`ScanInv`), and what stands behind the position is newer than all that was pushed
(`SentInv`), over stops and starts too, because a stop saves the position.
`NoLineIsSkipped`, `ReportsAgree` and `LinesAreForwardedOnce` follow for any number of
lines and changes. The last one needs both halves: without gaps is `CoverInv`, once and in
order is `SentInv`.

**DiskScan.** `AlertsTellDatabase` is about rows and alerts, but why it holds
is what construct leaves unset: an object that is no file has no checksum, one
that is no link, or was not looked at, no target (`WellRead`, `ReadsWell`). The
invariant therefore says that everything on its way to the alert thread (in
`dataQ`, in the hands of the two event threads, in `insertSet`) was read by
construct, and that `eventQ` holds flags and paths only. It also strengthens
the property: sum and target of a row are told whatever its type is now, since a
row keeps the sum an object had when it was a file (`Tells`). `Inserting` and
`Marking` treat a block and its marks as a whole; `AlertFails` is the exception
in the middle of a block, `RollingBack` the block whose alerts are out and whose rows
are not: none of them had a row or an alert before, so `unsaved` names them all. `UnwrittenIsUnknown` is inductive as it stands, because
MIDSCAN writes what was collected before `in_scan` is cleared.
`BlocksMeetNoRow` and `AlertsAreTheDatabase` follow for any directories,
objects, faults, block size and number of scans.

`ScanIsExact` is about the moment when a scan has passed through five threads in two
phases, behind it perhaps another scan, beside it late realtime events. Its invariant
`ExactInv` does not follow the scan. It asks two things of each watched path, and of each
path with nothing at it: that the database agrees with the shape of the object (whether it
is there, its type and its attributes), and with its content (`Claims`, `Holds`). While a
claim does not hold there is an entry in some queue that makes it true: the object as it
is, a look at it, its directory that is still to be listed, or the STARTSCAN behind which
rows without objects are looked for (`Fixes`, `ClaimKept`). And what was read before the
object changed, which would make a claim false again, has such an entry behind it (`Clean`;
`RtInv` for the realtime thread, which overtakes the other). Three facts keep this
going. STARTSCAN and MIDSCAN take turns over all queues, beginning with what the alert
thread does now (`PhasesInv`), so every row is unmarked when the search for the missing
ones begins. In a single run nothing stands behind MIDSCAN and ENDSCAN (`IsLast`), so
when it clears its flag nothing is left that could change the database; then only
`!KILL` passes (`EndInv`). And when all is drained, no fix is left, thus all claims hold,
and `in_scan` is clear, thus `insertSet` was written (`NothingLeft`). `ScansAreExact` uses
of the constants what `DiskScan` assumes of them: finitely many paths, directories and
realtime paths among them, and what a daemon starts with.

**DiskWatch.** That no directory is lost relates the tree, the map of watches, what add_watch
still has to do, the list of scans and the queue of inotify. `TreeInv` says that a path leads
through directories and belongs to one of them, and that `stray` spreads downwards: what
lies below a directory with its true path has its true path. `KnownInv` is about ids: a
directory that is watched is in the map, under its true path unless it is `stray`; each
queued event is of an id that the map holds, because behind the event that a directory is
gone there is nothing more of it but "ignored" (`InOrder`), and the queue is exceeded by the
overflow only (`Full`). This gives `OnlyOverflowIsUnknown`. `LostInv` strengthens
`NoDirectoryIsLost` to the times when something is pending: unless the overflow is queued
or the thread has ended, each directory of the watch is watched, or a directory above it is
about to be (`WatchPending`: an event or a task of add_watch for a path it lies below), it is
listed or will be (`ScanPending`), and a change in it that nobody has seen is exempt, will be
listed, or has an event in the queue (`LookPending`). A failure that is only logged takes
all that was pending below a path, and makes it `stray` or `early` at the same moment. `PathsInv` keeps the marks that
a path may end with out of all paths in use. The lemmas on paths (`OnTheWay` and those
before it) carry what is said of "below": who lies below a path, and above a directory,
is on the path of that directory. `WatchEnds` and `WatchLosesNothing` follow for any tree,
any number of changes and any length of the queue.

**InterventionDaemon.** `OutputsDoNotMix` needs where the thread is between
the pipes: past the end of stdout nobody holds a pipe any more, so nothing can
be printed to either, and no process can start a new one (`ReadToTheEnd`).
`KillsTheRightProcess` needs that a child is not reaped while the thread polls
(`PidIsKept`), which fails only if SIGCHLD is ignored. `CommandsRunInOrder` rests on a
second invariant: the queue holds exactly the requests not handled yet, and `!KILL`
behind them once input_task has ended (`QueueInv`); what was forked is what the
configuration lets run of those handled, less the one whose fork has failed (`ForkInv`).

Each module's `IInv` is proved inductive (`Inductive`; `ReceiverInv` and `SendInv`
of `UnixSocketClient` in `Libs_proofs`, `OrderInv` besides it in `InterventionDaemon_proofs`,
`ExactInv` besides it in `DiskScan_proofs`) and is
not checked once more by a run; the properties that follow from it are, except `TypeOK`
and, in `OutputTask`, `DeliveredOnce`, which are only proved (in the modules without
proofs `TypeOK` documents the types). Where a proof is about sequences of events, the
model states order by positions and sets (`Texts`, `ToSet`) and not by filtering a sequence
(SelectSeq), whose definition is recursive and which the provers know nothing of.

Only model-checked:

* all liveness properties (ENABLED and fairness are outside the prover);
* `RuleEngine`: what a rule tree is (`RuleTree`) and how the history of events is counted
  (`RatesAreExact`) are folds and filters of sequences, which need induction.

## 7. Where the code does something else

The run `logfile_partial` ends with a counterexample, listed under `findings`: when
a read ends in a line that is not terminated yet, tellg returns -1 behind it, which
becomes the position; every later seekg fails, and no line of the file is read
any more.

Further disagreements that the same modules show, for which no run is kept; each
can be reproduced with the cfg named:

* `LinesForwarded` with `Workloads = {{"line", "stop"}}` in MCLogFilePartial: lines written
  while the daemon was stopped stay unread until the file grows again, since
  the size is set to the current one at the start (logscan/daemon.cpp:188, 258).
* `LinesForwarded` with `Workloads = {{"line", "replace"}}`: a file replaced by one of the
  same size is skipped until it grows (logscan/daemon.cpp:247, 258).
* `ScannedIsForwarded` in MCLogScanDaemon: main pushes `!KILL` before
  logfile_task has ended; a line read after that is saved as read and never sent
  (logscan/daemon.cpp:579, 320).
* `UnlessAlertsTruthful` in MCRuleEngine: a rule file whose unless rule has two copies
  reports that the rule was not triggered although it was (rule.cpp:522, see below).
* `MailSeesEveryAlert` in MCResearchDaemonLive: mail_task ends with `RUNNING`,
  while the threads in front of it still raise alerts (research/daemon.cpp:358).

Of the forwarding threads: `local_queue` is looked at only when the take has timed out
(logscan/daemon.cpp:373), so producers that push at least once a second keep deferred
events waiting for ever although the receiver reads again; `EventuallyDelivered` without
its second antecedent is violated in MCOutputTask under this traffic. And an event that
no socket takes (EMSGSIZE) stays at the head of `local_queue` and keeps all that are
deferred behind it (logscan/daemon.cpp:378).

Of the rules, read off `RuleEngine` and `RuleTree`:

* `always_alert` of an unless rule has no effect: event::update
  (research/event.cpp:62-70) leaves the flag of the event as the parent set it
  (`UnlessEvent`). docs/rules.xml.5.adoc:93 says it "enables the generation of an
  alert, regardless of the global minimum priority level".
* Each further event of the parent starts the timer of its unless rule anew
  (process_log.cpp:29), so a parent that keeps coming postpones the report for
  ever; docs/rules.xml.5.adoc:111 promises an alert "if the specified rule will
  not be triggered within a timeout".
* A child of a rule with several `if_rule` parents is attached to the first copy
  of that rule only (`FindRule`, rule.cpp:507), and is not checked below the others.
  So is the rule that stops a timer (rule.cpp:522): if the unless rule fits below another
  of its parents the timer runs on, and a report is made although the rule was
  triggered in time; docs/rules.xml.5.adoc:110-111 says that it "triggers an alert if the
  specified rule will not be triggered within a timeout".
* Rule files that are accepted and end the processing thread at run time
  (`FailsOnlyOnBadRules`): a timer and a group in one rule; an `if_field` or `if_trait`
  whose pattern is no regex, which is constructed when an event is matched
  (process_log.cpp:192, 241) and not when the file is read (rule.cpp:348, 372); a rule
  with the largest id and priority 0 that is the only one to fit (process_log.cpp:388).

Of `ctguard-research`: when process_log throws, the processing thread ends without
forwarding `!KILL`; main reports the exception, clears `RUNNING`, and waits for
ever in the joins of the output and the intervention thread (research/daemon.cpp:91,
619; add "processing" to `Faults` in MCResearchDaemonLive).

Of `ctguard-diskscan`, each met as a counterexample to a stronger form of a
property, whose comment names the exception that is left:

* The deletion of an object that is still in `insert_set` is overlooked: a row and
  an alert are made for an object that is gone (`overlooked`, daemon.cpp:833, 883).
* An event without CHK_CONTENT takes the place of the same object in `insert_set`,
  so that a new file is stored and told of as "not computed"
  (`Agrees`, daemon.cpp:883-890).
* Such an event overwrites the stored target of a link by an empty one, and no
  alert says so (`AlertsTellDatabase`, daemon.cpp:755-782).
* The alert of a new file that cannot be read prints `m_sha256`, which nothing
  was written to (`Unset`, daemon.cpp:507, 870; filedata.hpp:64-78).
* A stale read that is pushed behind a fresher one is undone only by the next
  scan (daemon.cpp:438, 386).
* STARTSCAN and ENDSCAN of overlapping scans mix: the first ENDSCAN ends both
  as far as `scan_is_running` is concerned (daemon.cpp:643).
* A single run never ends when its event or alert thread ends by an exception:
  main waits for the condition variable and looks at no errorstack
  (`MainAwaitsScan`, daemon.cpp:1027). docs/ctguard-diskscan.8.adoc:39 says "Run a
  single scan and then exit."
* A transaction commits while an exception passes, so the rows before a failed
  statement stay, with their alerts. If END TRANSACTION fails, too, the rows of the block
  are rolled back although their alerts were pushed (`RollBack`, daemon.cpp:515,
  sqlitetransaction.hpp:25-42); the next scan tells of the same objects as new again. A
  crash between the commit of a row and the delivery of its alert loses the alert for good.
* lstat fails for other reasons than ENOENT, as EACCES: the object counts as gone
  (filedata.cpp:50-71), its row is deleted and an alert says so.
* A directory whose watch cannot be added (ENOSPC at max_user_watches, EACCES, ENOMEM) is
  logged and left, with all that is below it: nothing in it is noticed before the next
  regular scan, and the daemon runs on (`AddWatchFails`, daemon.cpp:143-149). A scan that
  cannot open or read a directory leaves it out in the same way (`ScanFails`,
  daemon.cpp:932-934).
* A directory that is removed between inotify_add_watch and opendir, or cannot be opened
  (add_watch keeps one descriptor open per level), ends the watch thread, and with it the
  daemon (`ListThrows`, daemon.cpp:165), and so does an overflow of the inotify queue
  (daemon.cpp:270).
* A renamed directory keeps its old path in the map, and what is made in it gets
  paths below the old one (`stray`, daemon.cpp:275). A watch that is not recursive
  watches and scans directories that are created later (daemon.cpp:302-309).
* The event threads share the diff database without a lock around its SELECT and
  INSERT (filedata.cpp:150, 205).

Of `ctguard-intervention`: `command_timeout` ends the child only. A process it has
left behind, and that holds a pipe, keeps the thread for as long as it lives
(`Alive(rest)` in `CommandsEnd`, daemon.cpp:228); meanwhile no other command is started.

Of all daemons: SIGINT and SIGTERM are blocked in main only, and after the other
threads were started; a signal that comes while main is not in sigtimedwait ends
the process at once (logscan/daemon.cpp:519 and its like).

## 8. What is not modelled

* The lexical side of configuration and rule files, command line programs, logging,
  sqlite and directory wrappers: sequential code that runs once or keeps no
  state.
* The diffs of changed files and their database (filedata.cpp:146-238): the text of
  an alert, and the exception of `EventThrows`.
* The SMTP dialogue (send_mail.cpp): one sequence of calls, whose outcome mail_task
  sees as sent or kept.
* Abstractions that matter: undecodable datagrams are ignored like foreign
  control messages; time is a choice (a timeout may happen whenever its
  condition holds), except in `RuleEngine`, whose clock is never set back; memory and disk are not exhausted; the kernel delivers
  datagrams of one socket in order. Data races, such as that of state_task and
  process_log on the map of rule states, are not modelled.
