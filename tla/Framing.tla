------------------------------- MODULE Framing -------------------------------
(***************************************************************************)
(* Messages as bytes: how Message gathers, checks and encodes what a       *)
(* stream is given to write (LibCarla/source/carla/streaming/Message.h,    *)
(* Stream.h), and how the Encoder of a client reads it back, header and    *)
(* body (streaming/low_level/tcp/Client.h).  A frame is the size of the    *)
(* message, HeaderSize bytes in the order of the machine, and its data.    *)
(*                                                                         *)
(* Frames are put on the wire whole and one at a time, which module        *)
(* ServerSession is about, until the connection breaks: then any number of *)
(* bytes is still to come, and the client starts over on a new connection. *)
(* Assertions are not compiled in.                                         *)
(***************************************************************************)
EXTENDS Integers, Sequences, SequencesExt

CONSTANTS
    Base,           \* values of a byte: 256
    HeaderSize,     \* sizeof(size_type): 4
    Sources,        \* what is written: sequences of buffers of bytes
    MaxMessages,    \* bound on the messages written in a behaviour
    MaxBreaks       \* bound on the connections that break

Byte == 0..(Base - 1)

ASSUME ParametersAssumption ==
    /\ Base \in Nat \ {0, 1} /\ HeaderSize \in Nat \ {0}
    /\ Sources \subseteq Seq(Seq(Byte))
    /\ MaxMessages \in Nat /\ MaxBreaks \in Nat

(* What a byte of a number in memory is worth, the lowest byte first. *)
Weight[i \in 0..HeaderSize] == IF i = 0 THEN 1 ELSE Base * Weight[i - 1]

(* One more than std::numeric_limits<size_type>::max(). *)
SizeLimit == Weight[HeaderSize]

VARIABLES
    written,    \* for every connection, the bytes of what was written
    received,   \* for every connection, what the callback was given
    open,       \* the server is still at the other end of the latest one
    stream,     \* its bytes that were sent and not read
    size        \* the size read into the encoder, or -1 while it is awaited

vars == <<written, received, open, stream, size>>

TypeOK ==
    /\ written \in Seq(Seq(Seq(Byte))) /\ written # <<>>
    /\ received \in Seq(Seq(Seq(Byte))) /\ Len(received) = Len(written)
    /\ open \in BOOLEAN
    /\ stream \in Seq(Byte)
    /\ size \in -1..(SizeLimit - 1)

Init ==
    /\ written = <<<<>>>> /\ received = <<<<>>>>
    /\ open = TRUE /\ stream = <<>> /\ size = -1

Latest == Len(written)

-----------------------------------------------------------------------------
(* Message.                                                                *)

buffer_size(source) == Len(FlattenSeq(source))

\* Mutated: a size that is out of range by one is taken.
FitsOrOneMore(n) == n <= SizeLimit

(* The constructor throws at a size that is too big ... *)
Fits(n) == n <= SizeLimit - 1

(* ... casts it to size_type, and buffer_copy fills the message. *)
Message(source) ==
    LET n == buffer_size(source) % SizeLimit IN
    [size |-> n, data |-> SubSeq(FlattenSeq(source), 1, n)]

(* The memory of a size. *)
SizeBytes(n) == [i \in 1..HeaderSize |-> (n \div Weight[i - 1]) % Base]

(* The memory of _size, and the data. *)
encode(m) == SizeBytes(m.size) \o m.data

(* Stream::Write.  Without a server nothing reaches the connection. *)
Write(source) ==
    /\ Len(FlattenSeq(written)) < MaxMessages
    /\ Fits(buffer_size(source))
    /\ LET m == Message(source) IN
       /\ written' = [written EXCEPT ![Latest] = Append(@, FlattenSeq(source))]
       /\ stream' = IF open THEN stream \o encode(m) ELSE stream
    /\ UNCHANGED <<received, open, size>>

(* Only some of the bytes that were sent will arrive. *)
Break ==
    /\ open /\ Latest <= MaxBreaks
    /\ open' = FALSE
    /\ \E n \in 0..Len(stream) : stream' = SubSeq(stream, 1, n)
    /\ UNCHANGED <<written, received, size>>

-----------------------------------------------------------------------------
(* Encoder and Client::ReadData.                                           *)

(* The size in the memory of a header. *)
Decode(header) ==
    LET value[i \in 0..HeaderSize] ==
            IF i = 0 THEN 0 ELSE value[i - 1] + header[i] * Weight[i - 1]
    IN  value[HeaderSize]

(* A new connection, and a new encoder. *)
StartOver ==
    /\ written' = Append(written, <<>>)
    /\ open' = TRUE /\ stream' = <<>> /\ size' = -1

(* handle_read_header: a size that is not zero is the size of the body. *)
ReadHeader ==
    /\ size = -1
    /\ Len(stream) >= HeaderSize
    /\ LET n == Decode(SubSeq(stream, 1, HeaderSize)) IN
       /\ n > 0
       /\ size' = n
    /\ stream' = SubSeq(stream, HeaderSize + 1, Len(stream))
    /\ UNCHANGED <<written, received, open>>

(* ... and a size that is zero is taken for an error.                      *)
ReadZero ==
    /\ size = -1
    /\ Len(stream) >= HeaderSize
    /\ Decode(SubSeq(stream, 1, HeaderSize)) = 0
    /\ StartOver
    /\ received' = Append(received, <<>>)

\* Mutated: no other header is read after a message.
ReadsOnce ==
    /\ size # -1 /\ received[Latest] = <<>>
    /\ Len(stream) >= size
    /\ received' = [received EXCEPT ![Latest] = Append(@, SubSeq(stream, 1, size))]
    /\ stream' = SubSeq(stream, size + 1, Len(stream))
    /\ size' = -1
    /\ UNCHANGED <<written, open>>

(* handle_read_data: the message is popped and given to the callback, the  *)
(* next header is read.                                                    *)
ReadBody ==
    /\ size # -1
    /\ Len(stream) >= size
    /\ received' = [received EXCEPT ![Latest] = Append(@, SubSeq(stream, 1, size))]
    /\ stream' = SubSeq(stream, size + 1, Len(stream))
    /\ size' = -1
    /\ UNCHANGED <<written, open>>

Missing == Len(stream) < IF size = -1 THEN HeaderSize ELSE size

\* Mutated: the callback is given what there is.
GivesWhatCame ==
    /\ ~open /\ Missing
    /\ StartOver
    /\ received' = Append(IF size = -1
                            THEN received
                            ELSE [received EXCEPT ![Latest] = Append(@, stream)], <<>>)

(* The connection ends before the header or the body is complete: what     *)
(* came of it is dropped with the encoder.                                 *)
ReadFails ==
    /\ ~open /\ Missing
    /\ StartOver
    /\ received' = Append(received, <<>>)

Read == ReadHeader \/ ReadZero \/ ReadBody \/ ReadFails

Next == (\E source \in Sources : Write(source)) \/ Break \/ Read

Spec == Init /\ [][Next]_vars

(* What has arrived is read, and an error is noticed. *)
FairSpec == Spec /\ WF_vars(Read)

-----------------------------------------------------------------------------
(* Properties.                                                             *)

(* What a client gives to its callback are, on every connection, the       *)
(* messages that were written to it from the first one on, byte for byte,  *)
(* without a gap and without a part of a message, wherever it broke        *)
(* (Client.h:188-221; test_streaming_message.cpp does it for one message   *)
(* without a wire).                                                        *)
ReceivedAsWritten == \A c \in 1..Latest : IsPrefix(received[c], written[c])

(* An empty message, which only an assertion refuses, and nothing else     *)
(* makes a client give up a connection that works (Client.h:207,           *)
(* Message.h:55-60, 124).                                                  *)
BreaksOnEmpty ==
    [][open /\ StartOver =>
         /\ Len(received[Latest]) < Len(written[Latest])
         /\ written[Latest][Len(received[Latest]) + 1] = <<>>]_vars

(* However often it broke, every message that is written to the latest     *)
(* connection is received.                                                 *)
AllAreReceived == <>[](received[Latest] = written[Latest])
=============================================================================
