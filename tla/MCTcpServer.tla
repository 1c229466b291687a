---------------------------- MODULE MCTcpServer ----------------------------
(* Instances of TcpServer for TLC.                                       *)
EXTENDS TcpServer

CONSTANTS B, W1, U

\* One worker loop besides the base loop: removal crosses threads.
OneWorker == <<W1>>
\* A thread off the loops that keeps the handle the connection callback
\* gave it and calls send() and shutdown() on it.
OneUser == {U}
NoUser == {}
=============================================================================
