-------------------------- MODULE MCStreamingServer --------------------------
(* Instances of StreamingServer for TLC. *)
EXTENDS StreamingServer

CONSTANTS c1, c2, c3

ThreeConnections == {c1, c2, c3}
=============================================================================
