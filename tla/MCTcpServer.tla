----------------------------- MODULE MCTcpServer -----------------------------
(* Instances of TcpServer for TLC. *)
EXTENDS TcpServer

CONSTANTS c1, c2, c3

ThreeConnections == {c1, c2, c3}
TwoTimeouts == {5000, 20500}
=============================================================================
