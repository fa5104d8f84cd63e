--------------------------- MODULE MessageChannel ---------------------------
(***************************************************************************)
(* What one server session promises to the stream that writes to it and to *)
(* the client at the other end of the connection, without the strand, the  *)
(* timer or the operations in flight that bring it about.                  *)
(*                                                                         *)
(* Messages are offered in any number.  The channel puts frames on a byte  *)
(* stream: a frame is the size header of a message followed by its body.   *)
(* Frames are never mixed, a message is framed at most once, only messages *)
(* that were offered appear, and nothing is added once the channel is shut.*)
(* The channel promises neither the order nor the delivery of what it was  *)
(* offered: a message may be dropped at any time, silently.                *)
(***************************************************************************)
EXTENDS Naturals, Sequences

CONSTANT Messages   \* one value per call of Write

VARIABLES
    offered,    \* messages handed to the channel
    wire,       \* parts of frames put on the byte stream, oldest first
    open        \* whether the byte stream can still grow

vars == <<offered, wire, open>>

\* A frame is written as two buffers: the size of the message and its content.
Part == [msg : Messages, part : {"header", "body"}]

Header(m) == [msg |-> m, part |-> "header"]
Body(m) == [msg |-> m, part |-> "body"]

\* The byte stream ends in the middle of a frame.
Torn(w) == w # <<>> /\ w[Len(w)].part = "header"

Init == offered = {} /\ wire = <<>> /\ open = TRUE

Offer(m) ==
    /\ offered' = offered \cup {m}
    /\ UNCHANGED <<wire, open>>

\* A frame begins between two frames, for a message not framed before.
BeginFrame(m) ==
    /\ open
    /\ m \in offered
    /\ ~Torn(wire)
    /\ \A i \in 1..Len(wire) : wire[i].msg # m
    /\ wire' = Append(wire, Header(m))
    /\ UNCHANGED <<offered, open>>

\* The frame that was begun is the one that goes on.
EndFrame(m) ==
    /\ open
    /\ wire # <<>> /\ wire[Len(wire)] = Header(m)
    /\ wire' = Append(wire, Body(m))
    /\ UNCHANGED <<offered, open>>

Shut ==
    /\ open' = FALSE
    /\ UNCHANGED <<offered, wire>>

Next ==
    \/ \E m \in Messages : Offer(m) \/ BeginFrame(m) \/ EndFrame(m)
    \/ Shut

Spec == Init /\ [][Next]_vars
=============================================================================
