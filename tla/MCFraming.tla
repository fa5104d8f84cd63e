------------------------------ MODULE MCFraming ------------------------------
(* Instances of Framing for TLC. *)
EXTENDS Framing

(* One buffer or two, from nothing to one byte more than fits in a message.*)
MCSources ==
    {<<b>> : b \in BoundedSeq(Byte, 1)}
    \cup {<<<<0, 1>>>>, <<<<1, 1, 0>>>>, <<<<0, 0, 0, 1>>>>}
    \cup {<<<<1>>, <<1>>>>, <<<<>>, <<1, 0, 0>>>>, <<<<1, 0>>, <<0, 1>>>>}
=============================================================================
