---------------------------- MODULE MCDispatcher ----------------------------
(* Instances of Dispatcher for TLC. *)
EXTENDS Dispatcher, TLC

CONSTANTS s1, s2, s3, w1, w2

ThreeSessions == {s1, s2, s3}
TwoWriters == {w1, w2}

Symmetry == Permutations(ThreeSessions) \cup Permutations(TwoWriters)
=============================================================================
