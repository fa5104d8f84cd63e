--------------------------- MODULE MCServerSession ---------------------------
(* Instances of ServerSession for TLC. *)
EXTENDS ServerSession

CONSTANTS m1, m2, m3

TwoMessages == {m1, m2}
ThreeMessages == {m1, m2, m3}
TwoIds == {1, 2}
=============================================================================
