-------------------------- MODULE InterventionDaemon --------------------------
(***************************************************************************)
(* ctguard-intervention: input_task receives commands from a socket,       *)
(* processing_task runs one of them after the other as a child process.    *)
(*                                                                         *)
(* The thread polls a child once a second until it has ended or            *)
(* command_timeout is over; only then it reads the two pipes the child     *)
(* writes to, first stdout, then stderr, each until nobody holds it open.  *)
(* So a child that prints more than a pipe takes, one that never ends, and *)
(* one that leaves a process behind all meet the thread in other states.   *)
(***************************************************************************)
EXTENDS Naturals, Sequences

CONSTANTS
  Actions,   \* cfg.actions: a sequence, see below
  PipeSize,  \* what a pipe takes
  Starts     \* what a run may begin with, see below

\* An action: the arguments its regex accepts, its whitelist, its command_timeout
\* and what its command may do.  A program is what the child does, and what is
\* done by the process it leaves behind, if it does: print to a stream, spawn, hang.
Steps == {"stdout", "stderr", "spawn", "hang"}
ASSUME ActionsAssumption ==
  \A i \in DOMAIN Actions :
    /\ {"name", "accepts", "whitelist", "timeout", "programs"} \subseteq DOMAIN Actions[i]
    /\ Actions[i].timeout \in Nat
    /\ \A program \in Actions[i].programs : program.child \in Seq(Steps) /\ program.rest \in Seq(Steps \ {"spawn"})
ASSUME PipeSizeAssumption == PipeSize \in Nat \ {0}
\* The datagrams that come one after the other, whether a signal comes, the calls
\* that may fail ("bind", "fork", "exec"), and whether SIGCHLD is ignored, which a
\* process inherits from the one that starts it.
ASSUME StartsAssumption ==
  \A start \in Starts :
    /\ start.signal \in BOOLEAN /\ start.ignored \in BOOLEAN
    /\ start.faults \subseteq {"bind", "fork", "exec"}
    /\ \A i \in DOMAIN start.datagrams :
         start.datagrams[i].kind \in {"empty", "garbage", "command"}

VARIABLES
  incoming,  \* the datagrams to come
  signal,    \* whether a signal is to come
  faults, ignored,
  socket,    \* the datagrams in the buffer of the socket
  queue,     \* input_queue
  main, running, errors,
  input,     \* where input_task is
  proc,      \* where processing_task is
  timeout,   \* of the command that runs: the seconds it has been polled, and its limit
  child,     \* the child process
  rest,      \* the process it leaves behind
  pipe,      \* what the pipes hold
  received,  \* history: the commands pushed to the queue
  handled,   \* history: how many of them were taken
  forked,    \* history: those of them that a child was forked for
  stray      \* history: SIGKILL was sent to a pid that is no child any more

daemonVars == <<faults, ignored, main, running, errors>>
inputVars  == <<incoming, socket, input, received>>
children   == <<child, rest, pipe>>
procVars   == <<proc, timeout, handled, forked, stray>>
vars == <<daemonVars, signal, inputVars, queue, children, procVars>>

KILL == [kind |-> "kill"]
Streams == {"stdout", "stderr"}

\* A process: none, one that has been forked or runs, a zombie, or one whose pid is
\* free again; what it has still to do; and whether it was sent SIGKILL.
NoProcess == [state |-> "none", todo |-> <<>>, spawn |-> <<>>, doomed |-> FALSE]
Alive(process) == process.state \in {"forked", "runs"}
\* The processes that hold the pipes open.
Held == Alive(child) \/ Alive(rest)

Init ==
  /\ \E start \in Starts :
       /\ incoming = start.datagrams /\ signal = start.signal
       /\ faults = start.faults /\ ignored = start.ignored
  /\ socket = <<>> /\ queue = <<>>
  /\ main = "waiting" /\ running = TRUE /\ errors = FALSE
  /\ input = "init" /\ proc = "take"
  /\ timeout = [polls |-> 0, limit |-> 0]
  /\ child = NoProcess /\ rest = NoProcess /\ pipe = [s \in Streams |-> 0]
  /\ received = <<>> /\ handled = 0 /\ forked = <<>> /\ stray = FALSE

-----------------------------------------------------------------------------
(* main *)

\* Faulty: an exception found is logged only.
MainPollsOn == errors /\ UNCHANGED vars

\* A signal, or an exception found after a second without one.
MainStops ==
  /\ main = "waiting"
  /\ main' = "stopping" /\ running' = FALSE
  /\ UNCHANGED <<faults, ignored, errors, inputVars, queue, children, procVars>>

MainPolls == errors /\ MainStops /\ UNCHANGED signal

MainSignal == signal /\ MainStops /\ signal' = FALSE

MainExits ==
  /\ main = "stopping" /\ input = "ended" /\ proc = "ended"
  /\ main' = "exited"
  /\ UNCHANGED <<faults, ignored, running, errors, signal, inputVars, queue, children, procVars>>

-----------------------------------------------------------------------------
(* input_task *)

others == <<signal, children, procVars>>

\* socket(), bind(), chmod().
InputBinds ==
  /\ input = "init"
  /\ input' = "check"
  /\ UNCHANGED <<others, daemonVars, incoming, socket, received, queue>>

InputThrows ==
  /\ input = "init" /\ "bind" \in faults
  /\ input' = "kills"
  /\ errors' = TRUE
  /\ UNCHANGED <<others, faults, ignored, main, running, incoming, socket, received, queue>>

\* The senders: as long as the socket is bound.
Arrive ==
  /\ input \in {"check", "recv"} /\ incoming # <<>>
  /\ socket' = Append(socket, Head(incoming))
  /\ incoming' = Tail(incoming)
  /\ UNCHANGED <<others, daemonVars, input, received, queue>>

\* while (RUNNING); behind it the socket is removed.
InputCheck ==
  /\ input = "check"
  /\ input' = IF running THEN "recv" ELSE "kills"
  /\ UNCHANGED <<others, daemonVars, incoming, socket, received, queue>>

\* recv() gives up after a second without a datagram.
InputTimeout ==
  /\ input = "recv" /\ socket = <<>>
  /\ input' = "check"
  /\ UNCHANGED <<others, daemonVars, incoming, socket, received, queue>>

\* An empty datagram leads to the test of RUNNING, and is decoded, too: in vain.
InputReceives ==
  /\ input = "recv" /\ socket # <<>>
  /\ socket' = Tail(socket)
  /\ IF Head(socket).kind = "command"
     THEN queue' = Append(queue, Head(socket)) /\ received' = Append(received, Head(socket))
     ELSE UNCHANGED <<queue, received>>
  /\ input' = IF Head(socket).kind = "empty" THEN "check" ELSE "recv"
  /\ UNCHANGED <<others, daemonVars, incoming>>

InputKills ==
  /\ input = "kills"
  /\ input' = "ended"
  /\ queue' = Append(queue, KILL)
  /\ UNCHANGED <<others, daemonVars, incoming, socket, received>>

-----------------------------------------------------------------------------
(* processing_task *)

\* The first action with the name of the command.
Named(command) == {i \in DOMAIN Actions : Actions[i].name = command.name}
ActionOf(command) == Actions[CHOOSE i \in Named(command) : \A j \in Named(command) : i <= j]

\* There is an action, its regex accepts the argument, and it is not whitelisted.
Runs(command) ==
  /\ Named(command) # {}
  /\ command.argument \in ActionOf(command).accepts \ ActionOf(command).whitelist

ProcTakes ==
  /\ proc = "take" /\ queue # <<>>
  /\ queue' = Tail(queue)
  /\ UNCHANGED <<signal, inputVars, faults, ignored, main, running, stray>>

ProcEnds ==
  /\ ProcTakes /\ Head(queue) = KILL
  /\ proc' = "ended"
  /\ UNCHANGED <<errors, child, rest, pipe, timeout, handled, forked>>

\* Faulty: return in place of continue.
ProcRefusesForGood ==
  /\ ProcTakes /\ Head(queue) # KILL /\ ~Runs(Head(queue))
  /\ handled' = handled + 1
  /\ proc' = "ended"
  /\ UNCHANGED <<errors, child, rest, pipe, timeout, forked>>

ProcRefuses ==
  /\ ProcTakes /\ Head(queue) # KILL /\ ~Runs(Head(queue))
  /\ handled' = handled + 1
  /\ UNCHANGED <<errors, proc, child, rest, pipe, timeout, forked>>

\* Two pipes, and a child for the command.
ProcForks ==
  /\ ProcTakes /\ Head(queue) # KILL /\ Runs(Head(queue))
  /\ \E program \in ActionOf(Head(queue)).programs :
       child' = [state |-> "forked", todo |-> program.child, spawn |-> program.rest, doomed |-> FALSE]
  /\ rest' = NoProcess
  /\ pipe' = [s \in Streams |-> 0]
  /\ timeout' = [polls |-> 0, limit |-> ActionOf(Head(queue)).timeout]
  /\ handled' = handled + 1
  /\ forked' = Append(forked, handled + 1)
  /\ proc' = "polls"
  /\ UNCHANGED errors

\* pipe2 or fork fails.
ProcThrows ==
  /\ "fork" \in faults
  /\ ProcTakes /\ Head(queue) # KILL /\ Runs(Head(queue))
  /\ handled' = handled + 1
  /\ errors' = TRUE
  /\ proc' = "ended"
  /\ UNCHANGED <<child, rest, pipe, timeout, forked>>

polling == <<signal, daemonVars, inputVars, queue, rest, pipe, handled, forked>>

\* Faulty: a child that hangs is polled for ever.
PollExpiresNever == proc = "polls" /\ Alive(child) /\ timeout.polls >= timeout.limit /\ UNCHANGED vars

\* waitpid() finds the child running, the first time, a second later...
PollWaits ==
  /\ proc = "polls" /\ Alive(child) /\ timeout.polls < timeout.limit
  /\ timeout' = [timeout EXCEPT !.polls = @ + 1]
  /\ UNCHANGED <<polling, proc, child, stray>>

PollExpires ==
  /\ proc = "polls" /\ Alive(child) /\ timeout.polls >= timeout.limit
  /\ proc' = "kills"
  /\ UNCHANGED <<polling, timeout, child, stray>>

\* Faulty: the break is missing, and the next waitpid() fails.
PollReapsOn ==
  /\ proc = "polls" /\ child.state = "zombie"
  /\ child' = [child EXCEPT !.state = "free"]
  /\ UNCHANGED <<polling, proc, timeout, stray>>

PollReaps ==
  /\ proc = "polls" /\ child.state = "zombie"
  /\ child' = [child EXCEPT !.state = "free"]
  /\ proc' = "stdout"
  /\ UNCHANGED <<polling, timeout, stray>>

\* waitpid() does not know the pid.
PollFails ==
  /\ proc = "polls" /\ child.state = "free"
  /\ proc' = "kills"
  /\ UNCHANGED <<polling, timeout, child, stray>>

\* kill(pid, SIGKILL): the process ends by it when it is scheduled.
ProcKills ==
  /\ proc = "kills"
  /\ child' = [child EXCEPT !.doomed = TRUE]
  /\ stray' = (stray \/ child.state = "free")
  /\ proc' = "stdout"
  /\ UNCHANGED <<polling, timeout>>

\* read() of what there is.
Reads(stream) ==
  /\ proc = stream /\ pipe[stream] > 0
  /\ pipe' = [pipe EXCEPT ![stream] = 0]
  /\ UNCHANGED <<signal, daemonVars, inputVars, queue, child, rest, procVars>>

Following(stream) == IF stream = "stdout" THEN "stderr" ELSE "take"

\* Faulty: a pipe that holds nothing is taken for one that has ended.
ReadsEmpty(stream) ==
  /\ proc = stream /\ pipe[stream] = 0
  /\ proc' = Following(stream)
  /\ UNCHANGED <<polling, timeout, child, stray>>

\* read() returns 0: nobody holds the pipe.
ReadsEnd(stream) ==
  /\ proc = stream /\ pipe[stream] = 0 /\ ~Held
  /\ proc' = Following(stream)
  /\ UNCHANGED <<polling, timeout, child, stray>>

-----------------------------------------------------------------------------
(* The child and the process it leaves behind *)

world == <<signal, daemonVars, inputVars, queue, procVars>>

Dead == IF ignored THEN "free" ELSE "zombie"

\* run_cmd up to execv().
ChildExecs ==
  /\ child.state = "forked"
  /\ child' = [child EXCEPT !.state = "runs"]
  /\ UNCHANGED <<world, rest, pipe>>

\* chdir, the user, the group, dup2 or execv: the child exits.
ChildFails ==
  /\ child.state = "forked" /\ "exec" \in faults
  /\ child' = [child EXCEPT !.state = Dead]
  /\ UNCHANGED <<world, rest, pipe>>

\* write() waits for room.
Room(stream) == stream \in Streams /\ pipe[stream] < PipeSize

ChildPrints ==
  /\ child.state = "runs" /\ child.todo # <<>> /\ Room(Head(child.todo))
  /\ pipe' = [pipe EXCEPT ![Head(child.todo)] = @ + 1]
  /\ child' = [child EXCEPT !.todo = Tail(@)]
  /\ UNCHANGED <<world, rest>>

ChildSpawns ==
  /\ child.state = "runs" /\ child.todo # <<>> /\ Head(child.todo) = "spawn"
  /\ rest' = [NoProcess EXCEPT !.state = "runs", !.todo = child.spawn]
  /\ child' = [child EXCEPT !.todo = Tail(@)]
  /\ UNCHANGED <<world, pipe>>

\* By itself or by SIGKILL.
ChildDies ==
  /\ Alive(child) /\ (child.doomed \/ (child.state = "runs" /\ child.todo = <<>>))
  /\ child' = [child EXCEPT !.state = Dead]
  /\ UNCHANGED <<world, rest, pipe>>

RestPrints ==
  /\ Alive(rest) /\ rest.todo # <<>> /\ Room(Head(rest.todo))
  /\ pipe' = [pipe EXCEPT ![Head(rest.todo)] = @ + 1]
  /\ rest' = [rest EXCEPT !.todo = Tail(@)]
  /\ UNCHANGED <<world, child>>

RestDies ==
  /\ Alive(rest) /\ rest.todo = <<>>
  /\ rest' = NoProcess
  /\ UNCHANGED <<world, child, pipe>>

-----------------------------------------------------------------------------
Main  == MainPolls \/ MainExits
Input == InputBinds \/ InputThrows \/ InputCheck \/ InputTimeout \/ InputReceives \/ InputKills
Poll  == PollWaits \/ PollExpires \/ PollReaps \/ PollFails
Read  == \E stream \in Streams : Reads(stream) \/ ReadsEnd(stream)
Proc  == ProcEnds \/ ProcRefuses \/ ProcForks \/ ProcThrows \/ Poll \/ ProcKills \/ Read
Child == ChildExecs \/ ChildFails \/ ChildPrints \/ ChildSpawns \/ ChildDies
Rest  == RestPrints \/ RestDies

Next == Main \/ MainSignal \/ Arrive \/ Input \/ Proc \/ Child \/ Rest

Spec == Init /\ [][Next]_vars

\* Threads and processes that can go on do.
FairSpec == Spec /\ WF_vars(Main) /\ WF_vars(Input) /\ WF_vars(Proc) /\ WF_vars(Child) /\ WF_vars(Rest)

-----------------------------------------------------------------------------
(* Properties *)

\* A child is forked for the commands the configuration lets run, and for no
\* other, each once and in the order of their arrival; no refused command, failing
\* exec, timeout or signal makes the thread leave one out, and an orderly shutdown
\* is over only when everything that was received has been handled.
ForkedInOrder ==
  LET expected == {i \in 1..handled : Runs(received[i])}
      served == {forked[i] : i \in DOMAIN forked}
  IN  /\ \A i, j \in DOMAIN forked : i < j => forked[i] < forked[j]
      /\ \/ served = expected
         \/ errors /\ proc = "ended" /\ handled \in expected /\ served = expected \ {handled}
      /\ main = "exited" /\ ~errors => handled = Len(received)

\* The output of one command at a time: when the next one is taken, no process of
\* an earlier one can print into the log any more, also if its child was killed or
\* has left a process behind; so a line is never ascribed to the wrong command.  A
\* process that closed or redirected its output may still run, as may a child that
\* was killed and is not awaited.
OneCommandAtATime == proc \in {"take", "ended"} => ~Held /\ pipe = [s \in Streams |-> 0]

\* Polling, the end of the child and its timeout race: SIGKILL is sent only to a
\* child whose pid can not have been given to another process.  It takes a daemon
\* that was started with SIGCHLD ignored to break it.
KillsOwnChild == stray => ignored

\* Every command is over some time, whether its child prints more than a pipe takes
\* or never ends: only a process it leaves behind keeps the thread.
CommandsEnd == proc \notin {"take", "ended"} ~> (proc \in {"take", "ended"} \/ Alive(rest))

\* After a signal or an exception the daemon exits, unless it waits for a process
\* that a command has left behind and that still holds a pipe.
ShutdownTerminates == (main = "stopping" \/ errors) ~> (main = "exited" \/ Alive(rest))
================================================================================
