------------------------------ MODULE TcpClient ------------------------------
(***************************************************************************)
(* One subscription of a streaming client                                  *)
(* (LibCarla/source/carla/streaming/low_level/tcp/Client.h).               *)
(*                                                                         *)
(* The client connects, sends the id of its stream, and then reads the     *)
(* header and the body of one message after the other; "if anything fails  *)
(* start over from the very top".  All of it is one chain of continuations *)
(* over a strand: a task, or an operation of the socket and its handler.   *)
(* The timer between two attempts to connect, the call of Stop and the     *)
(* callbacks with the messages are off the strand.                         *)
(***************************************************************************)
EXTENDS Naturals, Sequences, FiniteSets

CONSTANT MaxMessages    \* bound on the messages read in a behaviour

ASSUME MessagesAssumption == MaxMessages \in Nat

VARIABLES
    server,     \* "up" | "down": whether the endpoint accepts and serves
    socket,     \* "open" | "closed": _socket.is_open()
    linked,     \* the socket has a working connection
    subscribed, \* the stream id was sent on the present connection
    pending,    \* operations of the socket started and not completed
    timer,      \* "off" | "waiting" | "fired": _connection_timer
    strand,     \* tasks posted to _strand and not executed yet
    stop,       \* "no" | "called" | "posted": how far a call of Stop is
    done,       \* _done
    read,       \* history: number of messages read
    posted      \* callbacks posted to the io_service and not run

vars == <<server, socket, linked, subscribed, pending, timer, strand, stop,
          done, read, posted>>

connVars == <<socket, linked, subscribed>>
stopVars == <<stop, done>>
dataVars == <<read, posted>>

Operations == {"connect", "send", "header", "body"}

(* A task is a continuation to start ("Connect", "ReadData"), what Stop    *)
(* posts, or the handler of an operation with its result.  A header that   *)
(* announces an empty message is handled like one that failed.             *)
Task == [do : {"Connect", "ReadData", "Stop"}]
           \cup [do : Operations, ok : BOOLEAN]

Start(what) == [do |-> what]
Handler(op, b) == [do |-> op, ok |-> b]

TypeOK ==
    /\ server \in {"up", "down"}
    /\ socket \in {"open", "closed"}
    /\ linked \in BOOLEAN
    /\ subscribed \in BOOLEAN
    /\ pending \subseteq Operations
    /\ timer \in {"off", "waiting", "fired"}
    /\ strand \in Seq(Task)
    /\ stop \in {"no", "called", "posted"}
    /\ done \in BOOLEAN
    /\ read \in 0..MaxMessages
    /\ posted \subseteq 1..MaxMessages

(* The constructor calls Connect. *)
Init ==
    /\ server \in {"up", "down"}
    /\ socket = "closed" /\ linked = FALSE /\ subscribed = FALSE
    /\ pending = {}
    /\ timer = "off"
    /\ strand = <<Start("Connect")>>
    /\ stop = "no" /\ done = FALSE
    /\ read = 0 /\ posted = {}

-----------------------------------------------------------------------------
(* The tasks of the strand.                                                *)

HeadIs(t) == strand # <<>> /\ Head(strand) = t

\* Mutated: _done is not looked at.
ConnectsWhenDone ==
    /\ HeadIs(Start("Connect"))
    /\ socket' = "open" /\ linked' = FALSE /\ subscribed' = FALSE
    /\ pending' = pending \cup {"connect"}
    /\ strand' = Tail(strand)
    /\ UNCHANGED <<server, timer, stopVars, dataVars>>

(* Connect: close what is open and connect anew, unless it is done.        *)
(* async_connect opens the socket.                                         *)
ExecuteConnect ==
    /\ HeadIs(Start("Connect"))
    /\ strand' = Tail(strand)
    /\ IF done
         THEN UNCHANGED <<connVars, pending>>
         ELSE /\ socket' = "open" /\ linked' = FALSE /\ subscribed' = FALSE
              /\ pending' = pending \cup {"connect"}
    /\ UNCHANGED <<server, timer, stopVars, dataVars>>

\* Mutated: starts to read without sending the id.
ForgetsToSubscribe ==
    /\ strand # <<>> /\ Head(strand).do = "connect"
    /\ IF Head(strand).ok
         THEN /\ strand' = Append(Tail(strand), Start("ReadData"))
              /\ UNCHANGED timer
         ELSE /\ timer' = "waiting"
              /\ strand' = Tail(strand)
    /\ UNCHANGED <<server, connVars, pending, stopVars, dataVars>>

\* Mutated: gives up when the connection is refused.
GivesUp ==
    /\ strand # <<>> /\ Head(strand).do = "connect"
    /\ strand' = Tail(strand)
    /\ pending' = IF Head(strand).ok THEN pending \cup {"send"} ELSE pending
    /\ UNCHANGED <<server, connVars, timer, stopVars, dataVars>>

(* handle_connect: send the stream id, or wait a second (Reconnect).       *)
HandleConnect ==
    /\ strand # <<>> /\ Head(strand).do = "connect"
    /\ strand' = Tail(strand)
    /\ IF Head(strand).ok
         THEN pending' = pending \cup {"send"} /\ UNCHANGED timer
         ELSE timer' = "waiting" /\ UNCHANGED pending
    /\ UNCHANGED <<server, connVars, stopVars, dataVars>>

(* The handler of the write of the stream id. *)
HandleSend ==
    /\ strand # <<>> /\ Head(strand).do = "send"
    /\ strand' = Append(Tail(strand),
                        Start(IF Head(strand).ok THEN "ReadData" ELSE "Connect"))
    /\ UNCHANGED <<server, connVars, pending, timer, stopVars, dataVars>>

ExecuteReadData ==
    /\ HeadIs(Start("ReadData"))
    /\ strand' = Tail(strand)
    /\ pending' = IF done THEN pending ELSE pending \cup {"header"}
    /\ UNCHANGED <<server, connVars, timer, stopVars, dataVars>>

(* handle_read_header: read the body, or start over. *)
HandleHeader ==
    /\ strand # <<>> /\ Head(strand).do = "header"
    /\ IF Head(strand).ok
         THEN /\ pending' = pending \cup {"body"}
              /\ strand' = Tail(strand)
         ELSE /\ strand' = Append(Tail(strand), Start("Connect"))
              /\ UNCHANGED pending
    /\ UNCHANGED <<server, connVars, timer, stopVars, dataVars>>

\* Mutated: starts over and goes on reading.
ReadsOnAfterError ==
    /\ strand # <<>> /\ Head(strand).do = "body"
    /\ IF Head(strand).ok
         THEN /\ posted' = posted \cup {read}
              /\ strand' = Append(Tail(strand), Start("ReadData"))
         ELSE /\ strand' = Append(Append(Tail(strand), Start("Connect")),
                                  Start("ReadData"))
              /\ UNCHANGED posted
    /\ UNCHANGED <<server, connVars, pending, timer, stopVars, read>>

(* handle_read_data: post the callback with the message and read the next  *)
(* one, or start over.  _done is not looked at: a message that was read    *)
(* when Stop came still goes to the callback.                              *)
HandleBody ==
    /\ strand # <<>> /\ Head(strand).do = "body"
    /\ strand' = Append(Tail(strand),
                        Start(IF Head(strand).ok THEN "ReadData" ELSE "Connect"))
    /\ posted' = IF Head(strand).ok THEN posted \cup {read} ELSE posted
    /\ UNCHANGED <<server, connVars, pending, timer, stopVars, read>>

ExecuteStop ==
    /\ HeadIs(Start("Stop"))
    /\ strand' = Tail(strand)
    /\ done' = TRUE
    /\ socket' = "closed" /\ linked' = FALSE
    /\ UNCHANGED <<server, subscribed, pending, timer, stop, dataVars>>

ExecuteStrand ==
    \/ ExecuteConnect \/ HandleConnect \/ HandleSend
    \/ ExecuteReadData \/ HandleHeader \/ HandleBody
    \/ ExecuteStop

-----------------------------------------------------------------------------
(* The operations of the socket.                                           *)

Complete(op, b) ==
    /\ op \in pending
    /\ pending' = pending \ {op}
    /\ strand' = Append(strand, Handler(op, b))
    /\ UNCHANGED <<timer, stopVars, posted>>

Connected ==
    /\ socket = "open" /\ server = "up"
    /\ Complete("connect", TRUE)
    /\ linked' = TRUE
    /\ UNCHANGED <<server, socket, subscribed, read>>

Refused ==
    /\ socket = "closed" \/ server = "down"
    /\ Complete("connect", FALSE)
    /\ UNCHANGED <<server, connVars, read>>

IdSent ==
    /\ linked
    /\ Complete("send", TRUE)
    /\ subscribed' = TRUE
    /\ UNCHANGED <<server, socket, linked, read>>

(* A header of a message that is not empty; with the body, the message is  *)
(* counted.                                                                *)
HeaderRead ==
    /\ linked /\ read < MaxMessages
    /\ Complete("header", TRUE)
    /\ UNCHANGED <<server, connVars, read>>

HeaderOfEmpty ==
    /\ linked
    /\ Complete("header", FALSE)
    /\ UNCHANGED <<server, connVars, read>>

BodyRead ==
    /\ linked /\ read < MaxMessages
    /\ Complete("body", TRUE)
    /\ read' = read + 1
    /\ UNCHANGED <<server, connVars>>

(* The connection broke, or the socket was closed. *)
Aborted(op) ==
    /\ ~linked
    /\ Complete(op, FALSE)
    /\ UNCHANGED <<server, connVars, read>>

Completion ==
    Connected \/ Refused \/ IdSent \/ \E op \in {"send", "header", "body"} : Aborted(op)

Data == HeaderRead \/ HeaderOfEmpty \/ BodyRead

-----------------------------------------------------------------------------
(* Off the strand.                                                         *)

TimerExpires ==
    /\ timer = "waiting"
    /\ timer' = "fired"
    /\ UNCHANGED <<server, connVars, pending, strand, stopVars, dataVars>>

(* The handler of the wait posts Connect. *)
TimerHandler ==
    /\ timer = "fired"
    /\ timer' = "off"
    /\ strand' = Append(strand, Start("Connect"))
    /\ UNCHANGED <<server, connVars, pending, stopVars, dataVars>>

(* Stop cancels the wait, the handler of which then does nothing; a wait   *)
(* that is over is not cancelled ...                                       *)
StopCancels ==
    /\ stop = "no"
    /\ stop' = "called"
    /\ timer' = IF timer = "waiting" THEN "off" ELSE timer
    /\ UNCHANGED <<server, connVars, pending, strand, done, dataVars>>

(* ... and then posts the rest to the strand, which may have armed the     *)
(* timer in between.                                                       *)
StopPosts ==
    /\ stop = "called"
    /\ stop' = "posted"
    /\ strand' = Append(strand, Start("Stop"))
    /\ UNCHANGED <<server, connVars, pending, timer, done, dataVars>>

(* Workers run the callbacks in any order. *)
RunCallback(n) ==
    /\ n \in posted
    /\ posted' = posted \ {n}
    /\ UNCHANGED <<server, connVars, pending, timer, strand, stopVars, read>>

(* The server stops serving; connections to it break. *)
ServerGoesDown ==
    /\ server = "up"
    /\ server' = "down"
    /\ linked' = FALSE
    /\ UNCHANGED <<socket, subscribed, pending, timer, strand, stopVars, dataVars>>

ServerComesUp ==
    /\ server = "down"
    /\ server' = "up"
    /\ UNCHANGED <<connVars, pending, timer, strand, stopVars, dataVars>>

(* A session of the server times out, or the network fails. *)
ConnectionBreaks ==
    /\ linked
    /\ linked' = FALSE
    /\ UNCHANGED <<server, socket, subscribed, pending, timer, strand, stopVars, dataVars>>

Next ==
    \/ ExecuteStrand
    \/ Completion
    \/ Data
    \/ TimerExpires \/ TimerHandler
    \/ StopCancels \/ StopPosts
    \/ \E n \in posted : RunCallback(n)
    \/ ServerGoesDown \/ ServerComesUp \/ ConnectionBreaks

Spec == Init /\ [][Next]_vars

(* The io_service is served, timers expire, a connection to a server that  *)
(* is up is made and takes the id.  Messages may never come.               *)
Fairness ==
    /\ WF_vars(ExecuteStrand)
    /\ WF_vars(Completion)
    /\ WF_vars(TimerExpires \/ TimerHandler)
    /\ WF_vars(StopPosts)

FairSpec == Spec /\ Fairness

-----------------------------------------------------------------------------
(* Properties.                                                             *)

(* Everything the client has going on, apart from Stop.                    *)
Continuations ==
    Cardinality(pending)
    + Cardinality({i \in 1..Len(strand) : strand[i].do # "Stop"})
    + (IF timer = "off" THEN 0 ELSE 1)

(* The client is one chain: retries, timers and handlers never fork it,    *)
(* which would put two reads on one socket, and nothing but Stop ends it   *)
(* (Client.h:137-229).                                                     *)
SingleChain ==
    /\ Continuations <= 1
    /\ stop = "no" => Continuations = 1

(* The client reads only on a connection on which it sent the id of its    *)
(* stream (Client.h:149-160): reading starts with a whole header.          *)
ReadsWhatItAskedFor ==
    (pending \cap {"header", "body"} # {} /\ linked) => subscribed

(* How many steps a client that is done still takes, at most: a connection *)
(* that is attempted fails, and so does what is read; each time the client *)
(* starts over, until it comes to look at _done.                           *)
StepsOfTask(t) ==
    IF t.do \in {"Connect", "ReadData"} THEN 1
    ELSE IF t.do = "connect" \/ (t.do = "header" /\ t.ok) THEN 4 ELSE 2

StepsLeft ==
    IF pending # {} THEN IF "connect" \in pending THEN 5 ELSE 3
    ELSE IF timer # "off" THEN IF timer = "waiting" THEN 3 ELSE 2
    ELSE IF strand # <<>> THEN StepsOfTask(Head(strand))
    ELSE 0

Moves == ExecuteStrand \/ Completion \/ Data \/ TimerExpires \/ TimerHandler

(* Stop is final, and it works: whatever the client was at when _done is   *)
(* set, five more steps of its own at most bring it to rest - an attempt   *)
(* to connect that fails, and one more round through the timer - and it    *)
(* never has an open socket again (Client.h:95-103, 137-229).              *)
WindsDown ==
    [][done => /\ done' /\ socket' = "closed" /\ ~linked'
               /\ Moves => StepsLeft' < StepsLeft
               /\ ~Moves => StepsLeft' = StepsLeft]_vars

(* A stopped client comes to rest: no operation, no timer, no task is left *)
(* that would touch it.                                                    *)
ComesToRest ==
    stop # "no" ~> done /\ Continuations = 0

(* "if anything fails start over from the very top" (Client.h:199): with a *)
(* server that stays up and a network that stays up, a client that is not  *)
(* stopped is subscribed again and again ready to read.                    *)
Resubscribes ==
    <>[](server = "up" /\ stop = "no") /\ <>[][~ConnectionBreaks]_vars
        => []<>(linked /\ subscribed)
=============================================================================
