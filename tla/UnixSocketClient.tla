--------------------------- MODULE UnixSocketClient ---------------------------
(***************************************************************************)
(* libs::unix_socket_client: the sending end of the datagram socket to the *)
(* next daemon.  send() reconnects when the receiver was restarted; it     *)
(* returns when the datagram is delivered and throws when it is not.       *)
(*                                                                         *)
(* The incarnations of the receiver are numbered; a socket is connected to *)
(* one of them.  OutputTask uses send() as one step; here are the system   *)
(* calls it is made of, with the receiver changing between them.           *)
(***************************************************************************)
EXTENDS Integers

CONSTANTS
  MaxIncarnations,  \* bound: number of starts of the receiver
  MaxCalls,         \* bound: number of calls of send()
  SystemFails       \* whether the system may refuse a call: no descriptor for
                    \* socket(), no right to connect(), no memory for send()

ASSUME ConstantsAssumption ==
  MaxIncarnations \in Nat \ {0} /\ MaxCalls \in Nat \ {0} /\ SystemFails \in BOOLEAN

VARIABLES
  receiver,    \* the bound receiver: reading, stalled (its buffer full) or gone
  incarnation, \* the number of its latest start
  sock,        \* m_socket: NoSocket, Fresh or the incarnation it is connected to
  step,        \* where the client is
  calls,       \* number of calls of send() so far
  delivered,   \* number of datagrams delivered in the current call
  fits,        \* whether the message of the current call fits into a datagram
  missed,      \* history: whether the receiver was gone during the current call
  failed       \* history: whether the system refused a call of the current
               \* send(), or had left the client without a socket before it

clientVars == <<receiver, incarnation, sock, step, calls, delivered, fits, missed, failed>>

NoSocket == -1   \* INVALID_SOCKET
Fresh    == 0    \* a socket that is not connected

ClientInit ==
  /\ receiver = "reading"
  /\ incarnation = 1
  /\ sock = 1             \* the constructor has connected
  /\ step = "idle"
  /\ calls = 0
  /\ delivered = 0
  /\ fits = TRUE
  /\ missed = FALSE
  /\ failed = FALSE

-----------------------------------------------------------------------------
(* The receiver                                                            *)

ReceiverStops ==
  /\ receiver # "gone"
  /\ receiver' = "gone"
  /\ missed' = TRUE
  /\ UNCHANGED <<incarnation, sock, step, calls, delivered, fits, failed>>

ReceiverStarts ==
  /\ receiver = "gone"
  /\ incarnation < MaxIncarnations
  /\ receiver' = "reading"
  /\ incarnation' = incarnation + 1
  /\ UNCHANGED <<sock, step, calls, delivered, fits, missed, failed>>

ReceiverStallsOrReads ==
  /\ receiver # "gone"
  /\ receiver' \in {"reading", "stalled"} \ {receiver}
  /\ UNCHANGED <<incarnation, sock, step, calls, delivered, fits, missed, failed>>

-----------------------------------------------------------------------------
(* send()                                                                  *)

Call ==
  /\ step \in {"idle", "ok", "thrown"}
  /\ calls < MaxCalls
  /\ calls' = calls + 1
  /\ delivered' = 0
  /\ fits' \in BOOLEAN
  /\ missed' = (receiver = "gone")
  /\ failed' = (sock = NoSocket)
  /\ step' = "sendall"
  /\ UNCHANGED <<receiver, incarnation, sock>>

Connected == sock = incarnation /\ receiver # "gone"

\* The datagram goes to a receiver that reads; one that is stalled blocks send.
SendallDelivers ==
  /\ step = "sendall"
  /\ Connected
  /\ fits
  /\ receiver = "reading"
  /\ delivered' = delivered + 1
  /\ step' = "ok"
  /\ UNCHANGED <<receiver, incarnation, sock, calls, fits, missed, failed>>

\* Faulty: a receiver that was restarted is an error like any other.
SendallGivesUp ==
  /\ step = "sendall"
  /\ sock # NoSocket
  /\ ~Connected
  /\ step' = "thrown"
  /\ UNCHANGED <<receiver, incarnation, sock, calls, delivered, fits, missed, failed>>

\* ENOTCONN from a fresh socket, ECONNREFUSED from one whose receiver has gone:
\* close() and connect(), to retry.
SendallRefused ==
  /\ step = "sendall"
  /\ sock # NoSocket
  /\ ~Connected
  /\ fits \/ sock = Fresh
  /\ step' = "socket"
  /\ UNCHANGED <<receiver, incarnation, sock, calls, delivered, fits, missed, failed>>

\* EBADF from INVALID_SOCKET: no retry, and m_socket stays what it is.
SendallBadSocket ==
  /\ step = "sendall"
  /\ sock = NoSocket
  /\ step' = "thrown"
  /\ UNCHANGED <<receiver, incarnation, sock, calls, delivered, fits, missed, failed>>

\* EMSGSIZE, whatever the receiver does: only ENOTCONN is looked for before it.
SendallTooLarge ==
  /\ step = "sendall"
  /\ sock \notin {NoSocket, Fresh}
  /\ ~fits
  /\ step' = "thrown"
  /\ UNCHANGED <<receiver, incarnation, sock, calls, delivered, fits, missed, failed>>

\* Any other errno, such as ENOBUFS, ENOMEM or EINTR: no retry, and the socket
\* is kept as it is.
SendallFails ==
  /\ SystemFails
  /\ step = "sendall"
  /\ sock \notin {NoSocket, Fresh}
  /\ failed' = TRUE
  /\ step' = "thrown"
  /\ UNCHANGED <<receiver, incarnation, sock, calls, delivered, fits, missed>>

\* Faulty: the new socket is not connected.
SocketOnly ==
  /\ step = "socket"
  /\ sock' = Fresh
  /\ step' = "sendall"
  /\ UNCHANGED <<receiver, incarnation, calls, delivered, fits, missed, failed>>

SocketOk ==
  /\ step = "socket"
  /\ sock' = Fresh
  /\ step' = "connect"
  /\ UNCHANGED <<receiver, incarnation, calls, delivered, fits, missed, failed>>

SocketThrows ==
  /\ SystemFails
  /\ step = "socket"
  /\ sock' = NoSocket
  /\ failed' = TRUE
  /\ step' = "thrown"
  /\ UNCHANGED <<receiver, incarnation, calls, delivered, fits, missed>>

ConnectOk ==
  /\ step = "connect"
  /\ receiver # "gone"
  /\ sock' = incarnation
  /\ step' = "sendall"
  /\ UNCHANGED <<receiver, incarnation, calls, delivered, fits, missed, failed>>

\* Faulty: the exception of connect() is swallowed.
ConnectIgnored ==
  /\ step = "connect"
  /\ receiver = "gone"
  /\ step' = "ok"
  /\ UNCHANGED <<receiver, incarnation, sock, calls, delivered, fits, missed, failed>>

\* The fresh socket is kept: the next call starts with ENOTCONN.
ConnectThrows ==
  /\ step = "connect"
  /\ receiver = "gone"
  /\ step' = "thrown"
  /\ UNCHANGED <<receiver, incarnation, sock, calls, delivered, fits, missed, failed>>

\* Any other errno, such as EACCES: the fresh socket is kept as well.
ConnectFails ==
  /\ SystemFails
  /\ step = "connect"
  /\ failed' = TRUE
  /\ step' = "thrown"
  /\ UNCHANGED <<receiver, incarnation, sock, calls, delivered, fits, missed>>

-----------------------------------------------------------------------------
Receiver == ReceiverStops \/ ReceiverStarts \/ ReceiverStallsOrReads
Send == \/ SendallDelivers \/ SendallRefused
        \/ SendallBadSocket \/ SendallTooLarge \/ SendallFails
        \/ SocketOk \/ SocketThrows \/ ConnectOk \/ ConnectThrows \/ ConnectFails

ClientNext == Receiver \/ Call \/ Send

ClientSpec == ClientInit /\ [][ClientNext]_clientVars

\* A call that can go on goes on; nothing is assumed of the receiver.
FairClientSpec == ClientSpec /\ WF_clientVars(Send)

-----------------------------------------------------------------------------
ClientTypeOK ==
  /\ receiver \in {"reading", "stalled", "gone"}
  /\ incarnation \in 1..MaxIncarnations
  /\ sock \in NoSocket..incarnation
  /\ step \in {"idle", "sendall", "socket", "connect", "ok", "thrown"}
  /\ calls \in 0..MaxCalls
  /\ delivered \in 0..1
  /\ fits \in BOOLEAN
  /\ missed \in BOOLEAN
  /\ failed \in BOOLEAN

\* A call that returns has delivered its datagram exactly once, one that throws
\* has not: the caller may resend without delivering anything twice.
ReturnsIffDelivered ==
  /\ step = "ok" => delivered = 1
  /\ step # "ok" => delivered = 0

\* A restart of the receiver is no error, wherever it falls between two system
\* calls: a call throws only if the receiver was gone at some time during it, if
\* its message fits into no datagram, if the system refused one of its calls,
\* or if an earlier call was left without a socket.
RestartIsNoError == step = "thrown" => missed \/ ~fits \/ failed

\* A call comes to its end unless the receiver keeps it waiting.
SendReturns ==
  <>[](receiver # "stalled") => (step = "sendall" ~> step \in {"ok", "thrown"})
=============================================================================
