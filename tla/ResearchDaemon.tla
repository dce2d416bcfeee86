---------------------------- MODULE ResearchDaemon ----------------------------
(***************************************************************************)
(* The threads of ctguard-research and the queues between them:            *)
(*                                                                         *)
(*   socket -> input -> inputQ -> processing -> outputQ -> output -> mailQ *)
(*                                    |  (state: unless  ^            |    *)
(*                                    |   timers) -------'          mail   *)
(*                                    '-> intervQ -> intervention          *)
(*                                                                         *)
(* and the main thread, which starts them, waits for a signal or for an    *)
(* exception of a thread, clears RUNNING and joins them.  !KILL messages   *)
(* run down the queues behind the last event.                              *)
(*                                                                         *)
(* Events are numbered in the order in which they enter inputQ.  What the  *)
(* rules make of an event is left open; what happens to it is not.  How a  *)
(* command reaches ctguard-intervention is the module OutputTask.          *)
(***************************************************************************)
EXTENDS Naturals, Sequences, SequencesExt

CONSTANTS
  MaxEvents,   \* bound: number of events that are ever sent to the daemon
  MaxInbox,    \* bound: capacity of the receive buffer of the socket
  Mail,        \* cfg.mail
  Faults       \* the threads that may end by an exception

ASSUME MaxEventsAssumption == MaxEvents \in Nat
ASSUME MaxInboxAssumption  == MaxInbox \in Nat \ {0}
ASSUME MailAssumption      == Mail \in BOOLEAN
ASSUME FaultsAssumption    == Faults \subseteq {"input", "processing", "intervention"}

VARIABLES
  running,   \* RUNNING
  errors,    \* whether the errorstack holds an exception
  faulted,   \* history: the threads that ended by an exception
  pc,        \* where each thread is
  inbox,     \* datagrams in the receive buffer of the socket
  arrived,   \* number of events sent to the daemon
  accepted,  \* number of events pushed to inputQ
  inputQ, outputQ, mailQ, intervQ,
  inProc,    \* the event in the hands of the processing thread (None: no event)
  inOut,     \* the alert in the hands of the output thread
  armed,     \* the event whose unless timer is running (None: no timer)
  localMail, \* local_queue of the mail thread
  alerted,   \* history: the alerts pushed to outputQ
  written    \* history: the alerts written to the alert file

queues    == <<inputQ, outputQ, mailQ, intervQ>>
histories == <<alerted, written>>
mainVars  == <<running, errors, faulted>>
sockVars  == <<inbox, arrived>>
vars == <<mainVars, pc, sockVars, accepted, queues, inProc, inOut, armed, localMail, histories>>

Threads == {"main", "input", "processing", "state", "output", "intervention", "mail"}

KILL == 0
None == 0
EventIds  == 1 .. MaxEvents + 1            \* one more: main's "started" event
Unless(e) == e + MaxEvents + 1             \* the alert of the unless timer armed by e
AlertIds  == EventIds \cup {Unless(e) : e \in EventIds}

\* Kinds of datagrams: an encoded event, an encoded !KILL control message (what
\* cereal can not decode is treated alike), a datagram of length zero.
Datagrams == {"event", "kill", "empty"}

Goto(t, label) == pc' = [pc EXCEPT ![t] = label]

\* catch (...) of every thread function: the exception is kept for main.
Throw(t) ==
  /\ errors' = TRUE
  /\ faulted' = faulted \cup {t}

Init ==
  /\ running = TRUE
  /\ errors = FALSE
  /\ faulted = {}
  /\ pc = [main |-> "start", input |-> "init", processing |-> "take", state |-> "check",
           output |-> "take", intervention |-> "init", mail |-> IF Mail THEN "check" ELSE "done"]
  /\ inbox = <<>>
  /\ arrived = 0
  /\ accepted = 0
  /\ inputQ = <<>> /\ outputQ = <<>> /\ mailQ = <<>> /\ intervQ = <<>>
  /\ inProc = None
  /\ inOut = None
  /\ armed = None
  /\ localMail = <<>>
  /\ alerted = <<>>
  /\ written = <<>>

-----------------------------------------------------------------------------
(* main: daemon()                                                          *)

\* The event "ctguard-research started".
MainStart ==
  /\ pc["main"] = "start"
  /\ accepted' = accepted + 1
  /\ inputQ' = Append(inputQ, accepted + 1)
  /\ Goto("main", "wait")
  /\ UNCHANGED <<mainVars, sockVars, outputQ, mailQ, intervQ, inProc, inOut, armed, localMail, histories>>

MainStops ==
  /\ running' = FALSE
  /\ Goto("main", "join")
  /\ UNCHANGED <<faulted, sockVars, accepted, queues, inProc, inOut, armed, localMail, histories>>

\* sigtimedwait returns SIGINT or SIGTERM.
MainSignal ==
  /\ pc["main"] = "wait"
  /\ MainStops
  /\ UNCHANGED errors

\* sigtimedwait times out and the errorstack is not empty.
MainPolls ==
  /\ pc["main"] = "wait"
  /\ errors
  /\ MainStops
  /\ errors' = FALSE

\* Every join returns.
MainExits ==
  /\ pc["main"] = "join"
  /\ \A t \in Threads \ {"main"} : pc[t] = "done"
  /\ Goto("main", "exited")
  /\ UNCHANGED <<mainVars, sockVars, accepted, queues, inProc, inOut, armed, localMail, histories>>

-----------------------------------------------------------------------------
(* input_task                                                              *)

inputUnchanged == <<running, outputQ, mailQ, intervQ, inProc, inOut, armed, localMail, histories>>

InputInit ==
  /\ pc["input"] = "init"
  /\ Goto("input", "check")
  /\ UNCHANGED <<errors, faulted, sockVars, accepted, inputQ, inputUnchanged>>

\* socket(), the length check of the path or bind() fails.
InputThrows ==
  /\ "input" \in Faults
  /\ pc["input"] = "init"
  /\ Throw("input")
  /\ Goto("input", "kill")
  /\ UNCHANGED <<sockVars, accepted, inputQ, inputUnchanged>>

\* while (RUNNING)
InputCheck ==
  /\ pc["input"] = "check"
  /\ Goto("input", IF running THEN "recv" ELSE "kill")
  /\ UNCHANGED <<errors, faulted, sockVars, accepted, inputQ, inputUnchanged>>

\* Faulty: a !KILL message from the outside is queued like any other event.
InputTakesKill ==
  /\ pc["input"] = "recv"
  /\ inbox # <<>> /\ Head(inbox) = "kill"
  /\ inbox' = Tail(inbox)
  /\ inputQ' = Append(inputQ, KILL)
  /\ UNCHANGED <<errors, faulted, pc, arrived, accepted, inputUnchanged>>

\* A datagram that is no event; only an empty one ends the receiving loop.
InputIgnores ==
  /\ pc["input"] = "recv"
  /\ inbox # <<>> /\ Head(inbox) # "event"
  /\ inbox' = Tail(inbox)
  /\ Goto("input", IF Head(inbox) = "empty" THEN "check" ELSE "recv")
  /\ UNCHANGED <<errors, faulted, arrived, accepted, inputQ, inputUnchanged>>

InputReceives ==
  /\ pc["input"] = "recv"
  /\ inbox # <<>> /\ Head(inbox) = "event"
  /\ inbox' = Tail(inbox)
  /\ accepted' = accepted + 1
  /\ inputQ' = Append(inputQ, accepted + 1)
  /\ UNCHANGED <<errors, faulted, pc, arrived, inputUnchanged>>

\* recv fails with EAGAIN after a second without a datagram.
InputTimeout ==
  /\ pc["input"] = "recv"
  /\ inbox = <<>>
  /\ Goto("input", "check")
  /\ UNCHANGED <<errors, faulted, sockVars, accepted, inputQ, inputUnchanged>>

\* Faulty: !KILL is put in front of the events that still wait.
InputKillsFirst ==
  /\ pc["input"] = "kill"
  /\ inputQ' = <<KILL>> \o inputQ
  /\ Goto("input", "done")
  /\ UNCHANGED <<errors, faulted, sockVars, accepted, inputUnchanged>>

InputKills ==
  /\ pc["input"] = "kill"
  /\ inputQ' = Append(inputQ, KILL)
  /\ Goto("input", "done")
  /\ UNCHANGED <<errors, faulted, sockVars, accepted, inputUnchanged>>

\* The socket exists from bind() until the thread leaves the try block.
SocketBound == pc["input"] \in {"check", "recv"}

\* Another daemon, or anybody else, sends a datagram.
Arrive(d) ==
  /\ SocketBound
  /\ Len(inbox) < MaxInbox
  /\ d = "event" => arrived < MaxEvents
  /\ inbox' = Append(inbox, d)
  /\ arrived' = IF d = "event" THEN arrived + 1 ELSE arrived
  /\ UNCHANGED <<mainVars, pc, accepted, queues, inProc, inOut, armed, localMail, histories>>

-----------------------------------------------------------------------------
(* processing_task                                                         *)

procUnchanged == <<running, sockVars, accepted, mailQ, inOut, localMail, written>>

ProcTakes ==
  /\ pc["processing"] = "take"
  /\ inputQ # <<>>
  /\ inputQ' = Tail(inputQ)
  /\ inProc' = Head(inputQ)
  /\ Goto("processing", IF Head(inputQ) = KILL THEN "killOutput" ELSE "process")
  /\ UNCHANGED <<errors, faulted, outputQ, intervQ, armed, alerted, procUnchanged>>

\* Faulty: !KILL is not forwarded to the output thread.
ProcKillsNoOutput ==
  /\ pc["processing"] = "killOutput"
  /\ Goto("processing", "killIntervention")
  /\ UNCHANGED <<errors, faulted, inputQ, outputQ, intervQ, inProc, armed, alerted, procUnchanged>>

ProcKillsOutput ==
  /\ pc["processing"] = "killOutput"
  /\ outputQ' = Append(outputQ, KILL)
  /\ Goto("processing", "killIntervention")
  /\ UNCHANGED <<errors, faulted, inputQ, intervQ, inProc, armed, alerted, procUnchanged>>

ProcKillsIntervention ==
  /\ pc["processing"] = "killIntervention"
  /\ intervQ' = Append(intervQ, KILL)
  /\ Goto("processing", "done")
  /\ UNCHANGED <<errors, faulted, inputQ, outputQ, inProc, armed, alerted, procUnchanged>>

\* process_log may match an unless rule, which (re)starts its timer, or the
\* rule that stops it.
Rearmed == {armed, inProc, None}

\* The priority of the event is below log_priority.
ProcIgnores ==
  /\ pc["processing"] = "process"
  /\ armed' \in Rearmed
  /\ inProc' = None
  /\ Goto("processing", "take")
  /\ UNCHANGED <<errors, faulted, inputQ, outputQ, intervQ, alerted, procUnchanged>>

\* The event is to be alerted; its rule may ask for an intervention (for more
\* than one in the code: they are pushed one behind the other).
ProcMatches ==
  /\ pc["processing"] = "process"
  /\ armed' \in Rearmed
  /\ intervQ' \in {intervQ, Append(intervQ, inProc)}
  /\ Goto("processing", "alert")
  /\ UNCHANGED <<errors, faulted, inputQ, outputQ, inProc, alerted, procUnchanged>>

ProcAlerts ==
  /\ pc["processing"] = "alert"
  /\ outputQ' = Append(outputQ, inProc)
  /\ alerted' = Append(alerted, inProc)
  /\ inProc' = None
  /\ Goto("processing", "take")
  /\ UNCHANGED <<errors, faulted, inputQ, intervQ, armed, procUnchanged>>

\* process_log throws.  The thread ends; nothing is forwarded.
ProcThrows ==
  /\ "processing" \in Faults
  /\ pc["processing"] = "process"
  /\ Throw("processing")
  /\ Goto("processing", "done")
  /\ UNCHANGED <<inputQ, outputQ, intervQ, inProc, armed, alerted, procUnchanged>>

-----------------------------------------------------------------------------
(* state_task                                                              *)

stateUnchanged == <<mainVars, sockVars, accepted, inputQ, mailQ, intervQ, inProc, inOut, localMail, written>>

StateCheck ==
  /\ pc["state"] = "check"
  /\ Goto("state", IF running THEN "scan" ELSE "done")
  /\ UNCHANGED <<outputQ, armed, alerted, stateUnchanged>>

\* No timer is running or none has run out.
StateIdles ==
  /\ pc["state"] = "scan"
  /\ Goto("state", "check")
  /\ UNCHANGED <<outputQ, armed, alerted, stateUnchanged>>

\* The timer has run out; the event is alerted if its priority is high enough.
StateFires(alert) ==
  /\ pc["state"] = "scan"
  /\ armed # None
  /\ armed' = None
  /\ IF alert THEN /\ outputQ' = Append(outputQ, Unless(armed))
                   /\ alerted' = Append(alerted, Unless(armed))
              ELSE UNCHANGED <<outputQ, alerted>>
  /\ Goto("state", "check")
  /\ UNCHANGED stateUnchanged

-----------------------------------------------------------------------------
(* output_task                                                             *)

outUnchanged == <<mainVars, sockVars, accepted, inputQ, intervQ, inProc, armed, localMail, alerted>>

\* Faulty: the thread also returns when RUNNING is cleared.
OutputTakesWhileRunning ==
  /\ pc["output"] = "take"
  /\ outputQ # <<>>
  /\ outputQ' = Tail(outputQ)
  /\ IF Head(outputQ) = KILL \/ ~running
       THEN Goto("output", "done") /\ UNCHANGED inOut
       ELSE Goto("output", "write") /\ inOut' = Head(outputQ)
  /\ UNCHANGED <<mailQ, written, outUnchanged>>

OutputTakes ==
  /\ pc["output"] = "take"
  /\ outputQ # <<>>
  /\ outputQ' = Tail(outputQ)
  /\ IF Head(outputQ) = KILL
       THEN Goto("output", "done") /\ UNCHANGED inOut
       ELSE Goto("output", "write") /\ inOut' = Head(outputQ)
  /\ UNCHANGED <<mailQ, written, outUnchanged>>

\* The alert is written to the alert file, then handed to the mail thread.
OutputWrites ==
  /\ pc["output"] = "write"
  /\ written' = Append(written, inOut)
  /\ mailQ' = IF Mail THEN Append(mailQ, inOut) ELSE mailQ
  /\ inOut' = None
  /\ Goto("output", "take")
  /\ UNCHANGED <<outputQ, outUnchanged>>

-----------------------------------------------------------------------------
(* intervention_task                                                       *)

intervUnchanged == <<running, sockVars, accepted, inputQ, outputQ, mailQ, inProc, inOut, armed, localMail, histories>>

IntervInit ==
  /\ pc["intervention"] = "init"
  /\ Goto("intervention", "take")
  /\ UNCHANGED <<errors, faulted, intervQ, intervUnchanged>>

\* The intervention_sink can not be opened.
IntervThrows ==
  /\ "intervention" \in Faults
  /\ pc["intervention"] = "init"
  /\ Throw("intervention")
  /\ Goto("intervention", "done")
  /\ UNCHANGED <<intervQ, intervUnchanged>>

\* A command is taken and sent, or kept for later: see OutputTask.
IntervTakes ==
  /\ pc["intervention"] = "take"
  /\ intervQ # <<>>
  /\ intervQ' = Tail(intervQ)
  /\ Goto("intervention", IF Head(intervQ) = KILL THEN "done" ELSE "take")
  /\ UNCHANGED <<errors, faulted, intervUnchanged>>

-----------------------------------------------------------------------------
(* mail_task                                                               *)

mailUnchanged == <<mainVars, sockVars, accepted, inputQ, outputQ, intervQ, inProc, inOut, armed, histories>>

\* Faulty: the mail thread does not look at RUNNING.
MailCheckForever ==
  /\ pc["mail"] = "check"
  /\ Goto("mail", "take")
  /\ UNCHANGED <<mailQ, localMail, mailUnchanged>>

MailCheck ==
  /\ pc["mail"] = "check"
  /\ Goto("mail", IF running THEN "take" ELSE "flush")
  /\ UNCHANGED <<mailQ, localMail, mailUnchanged>>

\* An alert is kept for the next mail, or its priority is below mail_priority.
MailTakes ==
  /\ pc["mail"] = "take"
  /\ mailQ # <<>>
  /\ mailQ' = Tail(mailQ)
  /\ localMail' \in {localMail, Append(localMail, Head(mailQ))}
  /\ Goto("mail", "send")
  /\ UNCHANGED mailUnchanged

MailTimeout ==
  /\ pc["mail"] = "take"
  /\ mailQ = <<>>
  /\ Goto("mail", "send")
  /\ UNCHANGED <<mailQ, localMail, mailUnchanged>>

\* A mail is not due yet, or sending it fails: the alerts are kept.
MailKeeps ==
  /\ pc["mail"] = "send"
  /\ Goto("mail", "check")
  /\ UNCHANGED <<mailQ, localMail, mailUnchanged>>

MailSends ==
  /\ pc["mail"] = "send"
  /\ localMail # <<>>
  /\ localMail' = <<>>
  /\ Goto("mail", "check")
  /\ UNCHANGED <<mailQ, mailUnchanged>>

\* The last mail; if it can not be sent its alerts are discarded with a warning.
MailFlushes ==
  /\ pc["mail"] = "flush"
  /\ localMail' \in {localMail, <<>>}
  /\ Goto("mail", "done")
  /\ UNCHANGED <<mailQ, mailUnchanged>>

-----------------------------------------------------------------------------
Main == MainStart \/ MainPolls \/ MainExits
Input == InputInit \/ InputThrows \/ InputCheck \/ InputIgnores \/ InputReceives \/ InputTimeout \/ InputKills
Processing == \/ ProcTakes \/ ProcKillsOutput \/ ProcKillsIntervention
              \/ ProcIgnores \/ ProcMatches \/ ProcAlerts \/ ProcThrows
State == StateCheck \/ StateIdles \/ \E alert \in BOOLEAN : StateFires(alert)
Output == OutputTakes \/ OutputWrites
Intervention == IntervInit \/ IntervThrows \/ IntervTakes
MailTask == MailCheck \/ MailTakes \/ MailTimeout \/ MailKeeps \/ MailSends \/ MailFlushes

Environment == MainSignal \/ \E d \in Datagrams : Arrive(d)

Next == Main \/ Input \/ Processing \/ State \/ Output \/ Intervention \/ MailTask \/ Environment

Spec == Init /\ [][Next]_vars

\* Every thread keeps running; signals and datagrams may fail to come.
FairSpec == /\ Spec
            /\ WF_vars(Main) /\ WF_vars(Input) /\ WF_vars(Processing) /\ WF_vars(State)
            /\ WF_vars(Output) /\ WF_vars(Intervention) /\ WF_vars(MailTask)

-----------------------------------------------------------------------------
Labels == [main         : {"start", "wait", "join", "exited"},
           input        : {"init", "check", "recv", "kill", "done"},
           processing   : {"take", "process", "alert", "killOutput", "killIntervention", "done"},
           state        : {"check", "scan", "done"},
           output       : {"take", "write", "done"},
           intervention : {"init", "take", "done"},
           mail         : {"check", "take", "send", "flush", "done"}]

TypeOK ==
  /\ running \in BOOLEAN
  /\ errors \in BOOLEAN
  /\ faulted \subseteq Faults
  /\ pc \in Labels
  /\ inbox \in Seq(Datagrams) /\ Len(inbox) <= MaxInbox
  /\ arrived \in 0..MaxEvents
  /\ accepted \in 0..MaxEvents + 1
  /\ inputQ \in Seq(EventIds \cup {KILL})
  /\ outputQ \in Seq(AlertIds \cup {KILL})
  /\ mailQ \in Seq(AlertIds)
  /\ intervQ \in Seq(EventIds \cup {KILL})
  /\ inProc \in EventIds \cup {None}
  /\ inOut \in AlertIds \cup {None}
  /\ armed \in EventIds \cup {None}
  /\ localMail \in Seq(AlertIds)
  /\ alerted \in Seq(AlertIds)
  /\ written \in Seq(AlertIds)

\* A queue without its !KILL message.
NoKill(q) == IF KILL \in ToSet(q) THEN RemoveAt(q, CHOOSE k \in DOMAIN q : q[k] = KILL) ELSE q
Hand(m)   == IF m = None THEN <<>> ELSE <<m>>

\* The events in a line of alerts, events and messages come in their order.
EventsAscend(line) ==
  \A i, j \in DOMAIN line : i < j /\ {line[i], line[j]} \subseteq EventIds => line[i] < line[j]

\* Each alert is written to the alert file exactly once, in the order in which
\* the processing and the state thread raised them, or is still on its way; and
\* alerts come in the order of the events: no event overtakes another one in
\* inputQ or in the processing thread.
AlertsInOrder ==
  /\ alerted = written \o Hand(inOut) \o NoKill(outputQ)
  /\ EventsAscend(alerted \o Hand(inProc) \o inputQ)

\* A !KILL message is under way, or a thread below the input thread has ended,
\* only when main is shutting down or a thread has failed: no datagram from
\* the outside can stop the daemon or any of its threads.
StopsOnlyAtShutdown ==
  \/ \E q \in {inputQ, outputQ, intervQ} : KILL \in ToSet(q)
  \/ \E t \in {"processing", "output", "intervention"} : pc[t] = "done"
  => ~running \/ faulted # {}

\* What a shutdown without failing threads leaves behind: every event that was
\* accepted has been processed, its command has been handed over and its alert
\* has been written.  Only alerts of the state thread may be lost.
ShutdownIsComplete ==
  pc["main"] = "exited" /\ faulted = {} =>
    /\ inputQ = <<>>
    /\ intervQ = <<>>
    /\ ToSet(alerted) \cap EventIds \subseteq ToSet(written)

\* A thread that ends by an exception, as well as a signal, makes the daemon exit,
\* provided that senders leave recv a second of silence: the receiving loop does
\* not look at RUNNING.  (An exception of the processing thread is not among the
\* faults of the run: nobody passes !KILL on then, and main joins for ever.)
ShutdownTerminates == <>[](inbox = <<>>) => (errors \/ ~running ~> pc["main"] = "exited")

\* Alerts of the processing thread reach the alert file, shutdown or not.
AlertsGetWritten == \A e \in EventIds : e \in ToSet(alerted) ~> e \in ToSet(written)

\* Every alert of a completed run has been looked at by the mail thread, which
\* mails it, finds its priority too low, or warns that it is discarded.
MailSeesEveryAlert == pc["main"] = "exited" => mailQ = <<>>
=============================================================================
