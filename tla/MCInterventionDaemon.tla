------------------------- MODULE MCInterventionDaemon -------------------------
(***************************************************************************)
(* A configuration, commands and programs for InterventionDaemon.          *)
(***************************************************************************)
EXTENDS InterventionDaemon

Command(name, argument) == [kind |-> "command", name |-> name, argument |-> argument]
Program(own, left) == [child |-> own, rest |-> left]

\* "block" has two entries, the second of which is never used.
MCActions == <<
  [name |-> "block", accepts |-> {"a", "b"}, whitelist |-> {"b"}, timeout |-> 1,
   programs |-> {Program(<<"stdout", "stderr">>, <<>>), Program(<<"stdout", "stdout">>, <<>>), Program(<<"hang">>, <<>>)}],
  [name |-> "notify", accepts |-> {"a"}, whitelist |-> {}, timeout |-> 0,
   programs |-> {Program(<<"spawn", "stdout">>, <<"stderr">>), Program(<<"spawn">>, <<"stdout", "stderr", "stderr">>)}],
  [name |-> "block", accepts |-> {"c"}, whitelist |-> {}, timeout |-> 0, programs |-> {}] >>

Start(datagrams, sig, failing, ign) ==
  [datagrams |-> datagrams, signal |-> sig, faults |-> failing, ignored |-> ign]

Block(argument) == Command("block", argument)
Notify == Command("notify", "a")
Unknown == Command("unblock", "a")
Empty   == [kind |-> "empty"]
Garbage == [kind |-> "garbage"]

\* Commands that run between such that do not; every call failing once; SIGCHLD
\* ignored.
MCStarts ==
  { Start(<<Block("a"), Block("c"), Notify, Block("a")>>, TRUE, {}, FALSE),
    Start(<<Notify, Empty, Block("b"), Block("a")>>, TRUE, {}, FALSE),
    Start(<<Garbage, Unknown, Block("a"), Notify>>, FALSE, {"bind", "fork", "exec"}, FALSE),
    Start(<<Block("a"), Notify>>, TRUE, {}, TRUE) }
================================================================================
