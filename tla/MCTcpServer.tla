----------------------------- MODULE MCTcpServer -----------------------------
(* Constants for model checking TcpServer.                                 *)
EXTENDS TcpServer

CONSTANTS c1, c2

MCClients == {c1, c2}

\* 0 to 3 are the standard streams and the listening socket.
MCSlots == {4, 5, 6}
=============================================================================
