------------------------------ MODULE MCDiskScan ------------------------------
(***************************************************************************)
(* Small file systems for DiskScan.                                        *)
(***************************************************************************)
EXTENDS DiskScan

File(attr, content) == [type |-> "file", attr |-> attr, content |-> content, readable |-> TRUE]
Link(attr, target)  == [type |-> "link", attr |-> attr, content |-> target, readable |-> TRUE]

A == File("a", "x")  \* and A with another attribute, another content, and as a link
B == File("b", "x")
C == File("a", "y")
L == Link("a", "x")
M == Link("b", "y")

MCPaths       == {"p", "q"}
MCDirectories == <<{"p", "q"}>>
MCRealtime    == {"p"}
MCObjects     == {A, B, C, L, M}

Both(p, q) == ("p" :> p) @@ ("q" :> q)

\* p becomes one after the other what history says; q stays as it is.
Start(p, q, known, history, sc, si, threads) ==
  [disk |-> Both(p, q), known |-> known, singlerun |-> FALSE, changes |-> Both(history, <<>>), scans |-> sc, signals |-> si,
   faults |-> threads]
Once(start) == [start EXCEPT !.singlerun = TRUE]

\* A change during the initial scan, with a signal or an exception at any time;
\* rows that are out of date, a link, a single run, and two scans that overlap.
MCStarts ==
  { Start(A, Gone, <<>>, <<Gone>>, 0, 1, {}),
    Start(A, Gone, <<>>, <<B>>, 0, 1, {}),
    Start(A, Gone, <<>>, <<B>>, 0, 0, {"event", "rtevent", "alert"}),
    Start(C, Gone, Both(A, A), <<Gone, L>>, 0, 0, {}),
    Start(L, Gone, Both(L, A), <<M, B>>, 0, 0, {}),
    Once(Start(A, A, <<>>, <<C>>, 0, 0, {"alert", "event"})),
    Start(A, Gone, <<>>, <<Gone, A>>, 1, 0, {}),
    Start(Gone, Gone, <<>>, <<A, Gone>>, 1, 0, {}),
    Start(A, Gone, "p" :> A, <<B>>, 1, 0, {}) }
================================================================================
