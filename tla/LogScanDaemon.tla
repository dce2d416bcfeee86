---------------------------- MODULE LogScanDaemon -----------------------------
(***************************************************************************)
(* The threads of ctguard-logscan around the event queue: logfile_task,    *)
(* which pushes the lines of a logfile and saves how far it got,           *)
(* systemd_task, which pushes what arrives at its socket, output_task,     *)
(* which takes and sends, and main, which starts and stops them.  After an *)
(* exit the daemon may be started again.                                   *)
(*                                                                         *)
(* The file is the number of its lines and only grows; LogFile is about    *)
(* the reading.  What happens to an event once it was taken is OutputTask. *)
(***************************************************************************)
EXTENDS Integers, Sequences, SequencesExt

CONSTANTS
  MaxLines,     \* bound: number of lines written to the logfile
  MaxMessages,  \* bound: number of datagrams sent to the systemd socket
  MaxRuns,      \* bound: number of runs of the daemon
  Faults        \* the threads that may end by an exception

ASSUME BoundsAssumption == MaxLines \in Nat /\ MaxMessages \in Nat /\ MaxRuns \in Nat \ {0}
ASSUME FaultsAssumption == Faults \subseteq {"logfile", "systemd"}

VARIABLES
  running,    \* RUNNING
  errors,     \* whether the errorstack holds an exception
  pc,         \* where each thread is
  lines,      \* number of lines in the logfile
  pos,        \* number of lines the logfile thread has read
  saved,      \* the position in the state file
  inbox,      \* number of datagrams waiting at the systemd socket
  messages,   \* number of datagrams sent to it so far
  queue,      \* event_queue
  delivered,  \* history: what output_task took, the messages of main aside
  discarded,  \* history: what was left in the queue by earlier runs
  killPos,    \* history: pos when !KILL was pushed (NoKill: not yet)
  runs        \* number of runs so far

vars == <<running, errors, pc, lines, pos, saved, inbox, messages, queue, delivered, discarded, killPos, runs>>

KILL     == 0
Started  == -1
Stopping == -2
NoKill   == -1
Line(n)  == n
Message  == MaxLines + 1      \* a datagram that came from systemd

Threads == {"main", "logfile", "systemd", "output"}
InitialPC == [main |-> "start", logfile |-> "init", systemd |-> "init", output |-> "take"]

Goto(t, label) == pc' = [pc EXCEPT ![t] = label]
Push(e) == queue' = Append(queue, e)

Init ==
  /\ running = TRUE
  /\ errors = FALSE
  /\ pc = InitialPC
  /\ lines = 0 /\ pos = 0 /\ saved = 0
  /\ inbox = 0 /\ messages = 0
  /\ queue = <<>>
  /\ delivered = <<>>
  /\ discarded = {}
  /\ killPos = NoKill
  /\ runs = 1

-----------------------------------------------------------------------------
(* daemon()                                                                *)

mainUnchanged == <<lines, pos, saved, inbox, messages, delivered, discarded, runs>>

MainStart ==
  /\ pc["main"] = "start"
  /\ Push(Started)
  /\ Goto("main", "wait")
  /\ UNCHANGED <<running, errors, killPos, mainUnchanged>>

MainSignal ==
  /\ pc["main"] = "wait"
  /\ Goto("main", "announce")
  /\ UNCHANGED <<running, errors, queue, killPos, mainUnchanged>>

\* sigtimedwait times out and the errorstack is not empty.
MainPolls ==
  /\ pc["main"] = "wait"
  /\ errors
  /\ errors' = FALSE
  /\ Goto("main", "announce")
  /\ UNCHANGED <<running, queue, killPos, mainUnchanged>>

MainAnnounces ==
  /\ pc["main"] = "announce"
  /\ Push(Stopping)
  /\ Goto("main", "clear")
  /\ UNCHANGED <<running, errors, killPos, mainUnchanged>>

MainClears ==
  /\ pc["main"] = "clear"
  /\ running' = FALSE
  /\ Goto("main", "kill")
  /\ UNCHANGED <<errors, queue, killPos, mainUnchanged>>

\* Faulty: !KILL overtakes the events in the queue.
MainKillsFirst ==
  /\ pc["main"] = "kill"
  /\ queue' = <<KILL>> \o queue
  /\ killPos' = pos
  /\ Goto("main", "join")
  /\ UNCHANGED <<running, errors, mainUnchanged>>

MainKills ==
  /\ pc["main"] = "kill"
  /\ Push(KILL)
  /\ killPos' = pos
  /\ Goto("main", "join")
  /\ UNCHANGED <<running, errors, mainUnchanged>>

MainExits ==
  /\ pc["main"] = "join"
  /\ \A t \in Threads \ {"main"} : pc[t] = "done"
  /\ Goto("main", "exited")
  /\ UNCHANGED <<running, errors, queue, killPos, mainUnchanged>>

\* The daemon is started again: get_state returns the saved position.
Restart ==
  /\ pc["main"] = "exited"
  /\ runs < MaxRuns
  /\ runs' = runs + 1
  /\ running' = TRUE
  /\ errors' = FALSE
  /\ pc' = InitialPC
  /\ pos' = saved
  /\ discarded' = discarded \cup ToSet(queue)
  /\ queue' = <<>>
  /\ killPos' = NoKill
  /\ inbox' = 0
  /\ UNCHANGED <<lines, saved, messages, delivered>>

-----------------------------------------------------------------------------
(* logfile_task                                                            *)

logUnchanged == <<running, lines, inbox, messages, delivered, discarded, killPos, runs>>

LogInit ==
  /\ pc["logfile"] = "init"
  /\ Goto("logfile", "check")
  /\ UNCHANGED <<errors, pos, saved, queue, logUnchanged>>

\* The state file can not be read as a state file.
LogThrows ==
  /\ "logfile" \in Faults
  /\ pc["logfile"] = "init"
  /\ errors' = TRUE
  /\ Goto("logfile", "done")
  /\ UNCHANGED <<pos, saved, queue, logUnchanged>>

LogCheck ==
  /\ pc["logfile"] = "check"
  /\ Goto("logfile", IF running THEN "scan" ELSE "save")
  /\ UNCHANGED <<errors, pos, saved, queue, logUnchanged>>

LogReads ==
  /\ pc["logfile"] = "scan"
  /\ pos < lines
  /\ pos' = pos + 1
  /\ Push(Line(pos + 1))
  /\ UNCHANGED <<errors, pc, saved, logUnchanged>>

\* The end of the file; every state_file_interval turns the state is saved.
LogSleeps ==
  /\ pc["logfile"] = "scan"
  /\ pos = lines
  /\ saved' \in {saved, pos}
  /\ Goto("logfile", "check")
  /\ UNCHANGED <<errors, pos, queue, logUnchanged>>

\* Faulty: the state is not saved behind the loop.
LogEndsUnsaved ==
  /\ pc["logfile"] = "save"
  /\ Goto("logfile", "done")
  /\ UNCHANGED <<errors, pos, saved, queue, logUnchanged>>

\* save_state behind the loop.
LogSaves ==
  /\ pc["logfile"] = "save"
  /\ saved' = pos
  /\ Goto("logfile", "done")
  /\ UNCHANGED <<errors, pos, queue, logUnchanged>>

-----------------------------------------------------------------------------
(* systemd_task                                                            *)

sysUnchanged == <<running, lines, pos, saved, messages, delivered, discarded, killPos, runs>>

SysInit ==
  /\ pc["systemd"] = "init"
  /\ Goto("systemd", "check")
  /\ UNCHANGED <<errors, inbox, queue, sysUnchanged>>

\* systemd input is not enabled, or not permitted.
SysDisabled ==
  /\ pc["systemd"] = "init"
  /\ Goto("systemd", "done")
  /\ UNCHANGED <<errors, inbox, queue, sysUnchanged>>

SysThrows ==
  /\ "systemd" \in Faults
  /\ pc["systemd"] = "init"
  /\ errors' = TRUE
  /\ Goto("systemd", "done")
  /\ UNCHANGED <<inbox, queue, sysUnchanged>>

\* Faulty: the loop does not look at RUNNING.
SysCheckForever ==
  /\ pc["systemd"] = "check"
  /\ Goto("systemd", "recv")
  /\ UNCHANGED <<errors, inbox, queue, sysUnchanged>>

SysCheck ==
  /\ pc["systemd"] = "check"
  /\ Goto("systemd", IF running THEN "recv" ELSE "done")
  /\ UNCHANGED <<errors, inbox, queue, sysUnchanged>>

\* The receiving loop goes on unless the datagram was empty; an event is pushed
\* for an empty datagram, too.
SysReceives ==
  /\ pc["systemd"] = "recv"
  /\ inbox > 0
  /\ inbox' = inbox - 1
  /\ Push(Message)
  /\ \/ UNCHANGED pc
     \/ Goto("systemd", "check")
  /\ UNCHANGED <<errors, sysUnchanged>>

SysTimeout ==
  /\ pc["systemd"] = "recv"
  /\ inbox = 0
  /\ Goto("systemd", "check")
  /\ UNCHANGED <<errors, inbox, queue, sysUnchanged>>

-----------------------------------------------------------------------------
(* output_task                                                             *)

outUnchanged == <<running, errors, lines, pos, saved, inbox, messages, discarded, killPos, runs>>

OutputTakes ==
  /\ pc["output"] = "take"
  /\ queue # <<>>
  /\ queue' = Tail(queue)
  /\ IF Head(queue) = KILL THEN Goto("output", "done") ELSE UNCHANGED pc
  /\ delivered' = IF Head(queue) > 0 THEN Append(delivered, Head(queue)) ELSE delivered
  /\ UNCHANGED outUnchanged

-----------------------------------------------------------------------------
(* The writer of the logfile and systemd                                   *)

WriteLine ==
  /\ lines < MaxLines
  /\ lines' = lines + 1
  /\ UNCHANGED <<running, errors, pc, pos, saved, inbox, messages, queue, delivered, discarded, killPos, runs>>

SendMessage ==
  /\ pc["systemd"] \in {"check", "recv"}
  /\ messages < MaxMessages
  /\ messages' = messages + 1
  /\ inbox' = inbox + 1
  /\ UNCHANGED <<running, errors, pc, lines, pos, saved, queue, delivered, discarded, killPos, runs>>

-----------------------------------------------------------------------------
Main == MainStart \/ MainPolls \/ MainAnnounces \/ MainClears \/ MainKills \/ MainExits
Logfile == LogInit \/ LogThrows \/ LogCheck \/ LogReads \/ LogSleeps \/ LogSaves
Systemd == SysInit \/ SysDisabled \/ SysThrows \/ SysCheck \/ SysReceives \/ SysTimeout

Next == Main \/ MainSignal \/ Restart \/ Logfile \/ Systemd \/ OutputTakes \/ WriteLine \/ SendMessage

Spec == Init /\ [][Next]_vars

\* Every thread keeps running; nobody has to start the daemon again.
FairSpec == Spec /\ WF_vars(Main) /\ WF_vars(Logfile) /\ WF_vars(Systemd) /\ WF_vars(OutputTakes)

-----------------------------------------------------------------------------
TypeOK ==
  /\ running \in BOOLEAN /\ errors \in BOOLEAN
  /\ pc \in [main    : {"start", "wait", "announce", "clear", "kill", "join", "exited"},
             logfile : {"init", "check", "scan", "save", "done"},
             systemd : {"init", "check", "recv", "done"},
             output  : {"take", "done"}]
  /\ lines \in 0..MaxLines /\ pos \in 0..lines /\ saved \in 0..lines
  /\ messages \in 0..MaxMessages /\ inbox \in 0..messages
  /\ queue \in Seq(Stopping..Message)
  /\ delivered \in Seq(1..Message)
  /\ discarded \subseteq Stopping..Message
  /\ killPos \in NoKill..MaxLines
  /\ runs \in 1..MaxRuns

\* Lines are delivered in the order of the file and none is delivered twice,
\* whatever the shutdowns and restarts between them.
DeliveredInOrder ==
  \A i, j \in DOMAIN delivered :
    i < j /\ {delivered[i], delivered[j]} \subseteq 1..MaxLines => delivered[i] < delivered[j]

\* A shutdown delivers every line that was pushed before !KILL; what it leaves
\* in the queue was pushed later.
ShutdownDelivers ==
  pc["main"] = "exited" =>
    \A n \in 1..killPos : n \in ToSet(delivered) \cup discarded

\* A thread that ends by an exception, as well as a signal, makes the daemon exit.
\* Senders to the systemd socket must leave recv a second of silence.
ShutdownTerminates == <>[](inbox = 0) => (errors \/ ~running ~> pc["main"] = "exited")

\* Every log entry that was scanned, so that the next run continues behind it,
\* is forwarded.
ScannedIsForwarded == pc["main"] = "exited" => 1..saved \subseteq ToSet(delivered)
=============================================================================
