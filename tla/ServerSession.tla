---------------------------- MODULE ServerSession ----------------------------
(***************************************************************************)
(* One TCP session of the streaming server                                 *)
(* (LibCarla/source/carla/streaming/low_level/tcp/ServerSession.h).        *)
(*                                                                         *)
(* A session is an accepted socket, an inactivity deadline and a strand.   *)
(* Its state is changed by                                                 *)
(*   - the tasks of the strand, executed one at a time in FIFO order;      *)
(*   - the chain of StartTimer handlers, which does NOT go through the     *)
(*     strand and so runs on any worker of the io_service at the same time *)
(*     as a strand task;                                                   *)
(*   - the threads that call Write, which only post to the strand;         *)
(*   - the operating system, which completes reads and writes.             *)
(* The actions below are exactly these steps.                              *)
(***************************************************************************)
EXTENDS Naturals, Sequences, FiniteSets

CONSTANTS
    Messages,       \* one value per call of Write
    StreamIds,      \* what a client may send as the id of its stream
    UnsetIsPast     \* does a deadline never set compare <= now()?

(* The deadline of a new session is not set before the strand runs the     *)
(* task of Open.  How the date-time library orders "not a date time" and   *)
(* now() decides what the first StartTimer does; both answers are allowed. *)
ASSUME UnsetAssumption == UnsetIsPast \in BOOLEAN
ASSUME StreamIdAssumption == StreamIds \subseteq Nat

VARIABLES
    opened,     \* Open was called
    socket,     \* "open" | "closed": _socket.is_open()
    peer,       \* "up" | "down": the connection, as our side can know it
    stream_id,  \* _stream_id
    reading,    \* an async_read of the stream id is pending
    callback,   \* "none" | "posted" | "called": the functor given to Open
    deadline,   \* "unset" | "future" | "past": _deadline.expires_at()
    timer,      \* where the chain of StartTimer calls is
    strand,     \* tasks posted to _strand and not executed yet
    is_writing, \* _is_writing
    inflight,   \* async_writes started and not completed
    wire,       \* what the socket took, in order, as halves of frames
    status      \* history: what became of each message

vars == <<opened, socket, peer, stream_id, reading, callback, deadline, timer,
          strand, is_writing, inflight, wire, status>>

connVars == <<opened, socket, peer>>
queryVars == <<stream_id, reading, callback>>
timerVars == <<deadline, timer>>
writeVars == <<is_writing, inflight, wire, status>>

-----------------------------------------------------------------------------
(* The tasks of the strand.  A handler wrapped by the strand is a task too,*)
(* queued when its operation completes.                                    *)
Task ==
    [op : {"open", "close"}]
        \cup [op : {"query"}, ok : BOOLEAN]
        \cup [op : {"write"}, msg : Messages]
        \cup [op : {"sent"}, msg : Messages, ok : BOOLEAN]

OpenTask == [op |-> "open"]
CloseTask == [op |-> "close"]
QueryTask(b) == [op |-> "query", ok |-> b]
WriteTask(m) == [op |-> "write", msg |-> m]
SentTask(m, b) == [op |-> "sent", msg |-> m, ok |-> b]

Queued(t) == \E i \in 1..Len(strand) : strand[i] = t

(* An async_write in flight: how many of the two buffers of the message    *)
(* (size header, body) the socket has taken.                               *)
Transfer == [msg : Messages, parts : 0..2]

Part == [msg : Messages, part : {"header", "body"}]
Header(m) == [msg |-> m, part |-> "header"]
Body(m) == [msg |-> m, part |-> "body"]

TypeOK ==
    /\ opened \in BOOLEAN
    /\ socket \in {"open", "closed"}
    /\ peer \in {"up", "down"}
    /\ stream_id \in StreamIds \cup {0}
    /\ reading \in BOOLEAN
    /\ callback \in {"none", "posted", "called"}
    /\ deadline \in {"unset", "future", "past"}
    /\ timer \in {"stopped", "checking", "arming", "waiting", "early"}
    /\ strand \in Seq(Task)
    /\ is_writing \in BOOLEAN
    /\ inflight \subseteq Transfer
    /\ wire \in Seq(Part)
    /\ status \in [Messages -> {"new", "pending", "sent", "failed"}]

(* A session is constructed before async_accept; it is handed to Open with *)
(* its socket connected.                                                   *)
Init ==
    /\ opened = FALSE
    /\ socket = "open"
    /\ peer = "up"
    /\ stream_id = 0
    /\ reading = FALSE
    /\ callback = "none"
    /\ deadline = "unset"
    /\ timer = "stopped"
    /\ strand = <<>>
    /\ is_writing = FALSE
    /\ inflight = {}
    /\ wire = <<>>
    /\ status = [m \in Messages |-> "new"]

-----------------------------------------------------------------------------
(* The inactivity deadline.                                                *)

Expired == deadline = "past" \/ (deadline = "unset" /\ UnsetIsPast)

(* expires_from_now cancels the pending wait and then moves the deadline.  *)
(* A cancelled wait runs its handler like one that is over.  StartTimer is *)
(* not on the strand: a wait that is armed between the cancellation and    *)
(* the assignment is armed on the expiry that is being replaced and ends   *)
(* before the new deadline ("early").                                      *)
\* Mutated: a cancelled wait does not go round again (if (!ec) StartTimer()).
LosesCancelledWait ==
    CASE timer \in {"waiting", "early"} -> {"stopped"}
      [] timer = "arming"               -> {"arming", "early"}
      [] OTHER                          -> {timer}

TimerAfterRearm ==
    CASE timer \in {"waiting", "early"} -> {"checking", "early"}
      [] timer = "arming"               -> {"arming", "early"}
      [] OTHER                          -> {timer}

Rearm ==
    /\ deadline' = "future"
    /\ timer' \in TimerAfterRearm

(* The first call of StartTimer, from Open: nothing of this session is on  *)
(* the strand yet, the deadline cannot change meanwhile.                   *)
Open ==
    /\ ~opened
    /\ opened' = TRUE
    /\ timer' = IF Expired THEN "stopped" ELSE "waiting"
    /\ strand' = Append(IF Expired THEN Append(strand, CloseTask) ELSE strand,
                        OpenTask)
    /\ UNCHANGED <<socket, peer, deadline, queryVars, writeVars>>

(* The wait is over and its handler is given to a worker. *)
TimerFires ==
    /\ \/ timer = "waiting" /\ deadline # "future"
       \/ timer = "early"
    /\ timer' = "checking"
    /\ UNCHANGED <<connVars, queryVars, deadline, strand, writeVars>>

(* StartTimer compares the deadline with the clock: close for good ... *)
TimerExpires ==
    /\ timer = "checking"
    /\ Expired
    /\ timer' = "stopped"
    /\ strand' = Append(strand, CloseTask)
    /\ UNCHANGED <<connVars, queryVars, deadline, writeVars>>

(* ... or wait again: the comparison, and then the call of async_wait.     *)
TimerGoesOn ==
    /\ timer = "checking"
    /\ ~Expired
    /\ timer' = "arming"
    /\ UNCHANGED <<connVars, queryVars, deadline, strand, writeVars>>

TimerArms ==
    /\ timer = "arming"
    /\ timer' = "waiting"
    /\ UNCHANGED <<connVars, queryVars, deadline, strand, writeVars>>

TimePasses ==
    /\ deadline = "future"
    /\ deadline' = "past"
    /\ UNCHANGED <<connVars, queryVars, timer, strand, writeVars>>

-----------------------------------------------------------------------------
(* Opening: reading the stream id.                                         *)

ExecuteOpen ==
    /\ strand # <<>> /\ Head(strand) = OpenTask
    /\ strand' = Tail(strand)
    /\ Rearm
    /\ reading' = TRUE
    /\ UNCHANGED <<connVars, stream_id, callback, writeVars>>

(* The id arrives.  A client that sent it and left is read just the same.  *)
ReadStreamId(id) ==
    /\ reading
    /\ socket = "open"
    /\ stream_id' = id
    /\ reading' = FALSE
    /\ strand' = Append(strand, QueryTask(TRUE))
    /\ UNCHANGED <<connVars, callback, timerVars, writeVars>>

(* The connection breaks before the id, or closing the socket aborts the   *)
(* read.                                                                   *)
ReadFails ==
    /\ reading
    /\ socket = "closed" \/ peer = "down"
    /\ reading' = FALSE
    /\ strand' = Append(strand, QueryTask(FALSE))
    /\ UNCHANGED <<connVars, stream_id, callback, timerVars, writeVars>>

(* handle_query: give the session to the callback, through the io_service  *)
(* and off the strand, or close it.                                        *)
ExecuteQuery ==
    /\ strand # <<>> /\ Head(strand).op = "query"
    /\ IF Head(strand).ok
         THEN /\ callback' = "posted"
              /\ strand' = Tail(strand)
         ELSE /\ strand' = Append(Tail(strand), CloseTask)
              /\ UNCHANGED callback
    /\ UNCHANGED <<connVars, stream_id, reading, timerVars, writeVars>>

RunCallback ==
    /\ callback = "posted"
    /\ callback' = "called"
    /\ UNCHANGED <<connVars, stream_id, reading, timerVars, strand, writeVars>>

-----------------------------------------------------------------------------
(* Writing messages.                                                       *)

(* Write, called by whoever got the session from the callback. *)
Write(m) ==
    /\ callback = "called"
    /\ status[m] = "new"
    /\ status' = [status EXCEPT ![m] = "pending"]
    /\ strand' = Append(strand, WriteTask(m))
    /\ UNCHANGED <<connVars, queryVars, timerVars, is_writing, inflight, wire>>

\* Mutated: the message is dropped when a write is in progress.
DropsWhenBusy(m) ==
    /\ strand # <<>> /\ Head(strand) = WriteTask(m)
    /\ is_writing
    /\ strand' = Tail(strand)
    /\ UNCHANGED <<connVars, queryVars, timerVars, writeVars>>

\* Mutated: no return after reposting.
RepostsAndWrites(m) ==
    /\ strand # <<>> /\ Head(strand) = WriteTask(m)
    /\ is_writing
    /\ strand' = Append(Tail(strand), WriteTask(m))
    /\ Rearm
    /\ inflight' = inflight \cup {[msg |-> m, parts |-> 0]}
    /\ UNCHANGED <<connVars, queryVars, is_writing, wire, status>>

(* The posted task finds a write in progress and posts itself again: it    *)
(* goes behind everything posted in the meantime.                          *)
ExecuteRepost(m) ==
    /\ strand # <<>> /\ Head(strand) = WriteTask(m)
    /\ is_writing
    /\ strand' = Append(Tail(strand), WriteTask(m))
    /\ UNCHANGED <<connVars, queryVars, timerVars, writeVars>>

\* Mutated: _is_writing is not looked at.
WritesWhenBusy(m) ==
    /\ strand # <<>> /\ Head(strand) = WriteTask(m)
    /\ is_writing' = TRUE
    /\ strand' = Tail(strand)
    /\ Rearm
    /\ inflight' = inflight \cup {[msg |-> m, parts |-> 0]}
    /\ UNCHANGED <<connVars, queryVars, wire, status>>

ExecuteWrite(m) ==
    /\ strand # <<>> /\ Head(strand) = WriteTask(m)
    /\ ~is_writing
    /\ is_writing' = TRUE
    /\ strand' = Tail(strand)
    /\ Rearm
    /\ inflight' = inflight \cup {[msg |-> m, parts |-> 0]}
    /\ UNCHANGED <<connVars, queryVars, wire, status>>

\* Mutated: the write runs past its last buffer.
RunsOver(x) ==
    /\ x \in inflight
    /\ socket = "open" /\ peer = "up"
    /\ wire' = Append(wire, IF x.parts = 0 THEN Header(x.msg) ELSE Body(x.msg))
    /\ inflight' = (inflight \ {x}) \cup {[x EXCEPT !.parts = @ + 1]}
    /\ UNCHANGED <<connVars, queryVars, timerVars, strand, is_writing, status>>

(* The socket takes the next buffer of a write in flight. *)
Transmit(x) ==
    /\ x \in inflight
    /\ x.parts < 2
    /\ socket = "open" /\ peer = "up"
    /\ wire' = Append(wire, IF x.parts = 0 THEN Header(x.msg) ELSE Body(x.msg))
    /\ inflight' = (inflight \ {x}) \cup {[x EXCEPT !.parts = @ + 1]}
    /\ UNCHANGED <<connVars, queryVars, timerVars, strand, is_writing, status>>

(* A write completes when both buffers are taken, or with an error when    *)
(* the connection broke or the socket was closed.                          *)
WriteCompletes(x) ==
    /\ x \in inflight
    /\ x.parts = 2 \/ socket = "closed" \/ peer = "down"
    /\ inflight' = inflight \ {x}
    /\ strand' = Append(strand, SentTask(x.msg, x.parts = 2))
    /\ UNCHANGED <<connVars, queryVars, timerVars, is_writing, wire, status>>

\* Mutated: the error code is not looked at.
AlwaysSent ==
    /\ strand # <<>> /\ Head(strand).op = "sent"
    /\ is_writing' = FALSE
    /\ strand' = Tail(strand)
    /\ status' = [status EXCEPT ![Head(strand).msg] = "sent"]
    /\ UNCHANGED <<connVars, queryVars, timerVars, inflight, wire>>

\* Mutated: an error returns before _is_writing is reset.
KeepsFlagOnError ==
    /\ strand # <<>> /\ Head(strand).op = "sent"
    /\ is_writing' = ~Head(strand).ok
    /\ strand' = Tail(strand)
    /\ status' = [status EXCEPT ![Head(strand).msg] =
                    IF Head(strand).ok THEN "sent" ELSE "failed"]
    /\ UNCHANGED <<connVars, queryVars, timerVars, inflight, wire>>

(* handle_sent.  An error is logged; the session stays as it is. *)
ExecuteSent ==
    /\ strand # <<>> /\ Head(strand).op = "sent"
    /\ is_writing' = FALSE
    /\ strand' = Tail(strand)
    /\ status' = [status EXCEPT ![Head(strand).msg] =
                    IF Head(strand).ok THEN "sent" ELSE "failed"]
    /\ UNCHANGED <<connVars, queryVars, timerVars, inflight, wire>>

-----------------------------------------------------------------------------
(* Closing.                                                                *)

ExecuteClose ==
    /\ strand # <<>> /\ Head(strand) = CloseTask
    /\ socket' = "closed"
    /\ strand' = Tail(strand)
    /\ UNCHANGED <<opened, peer, queryVars, timerVars, writeVars>>

(* The client goes away, or the network fails. *)
PeerGoesDown ==
    /\ peer = "up"
    /\ peer' = "down"
    /\ UNCHANGED <<opened, socket, queryVars, timerVars, strand, writeVars>>

-----------------------------------------------------------------------------
ExecuteStrand ==
    \/ ExecuteOpen
    \/ ExecuteQuery
    \/ \E m \in Messages : ExecuteRepost(m) \/ ExecuteWrite(m)
    \/ ExecuteSent
    \/ ExecuteClose

Timer == TimerFires \/ TimerExpires \/ TimerGoesOn \/ TimerArms

Completion == ReadFails \/ \E x \in inflight : WriteCompletes(x)

Next ==
    \/ Open
    \/ ExecuteStrand
    \/ Timer
    \/ TimePasses
    \/ \E id \in StreamIds : ReadStreamId(id)
    \/ RunCallback
    \/ \E m \in Messages : Write(m)
    \/ \E x \in inflight : Transmit(x)
    \/ Completion
    \/ PeerGoesDown

Spec == Init /\ [][Next]_vars

(* What the io_service guarantees while its workers run: posted tasks are  *)
(* executed, waits end, operations that can complete do.  Nothing is       *)
(* assumed of the peer, of the network or of the callers.                  *)
Fairness ==
    /\ WF_vars(ExecuteStrand)
    /\ WF_vars(Timer)
    /\ WF_vars(TimePasses)
    /\ WF_vars(Completion)
    /\ WF_vars(RunCallback)

FairSpec == Spec /\ Fairness

-----------------------------------------------------------------------------
(* Properties.                                                             *)

(* The connection carries whole frames: every body follows its own header, *)
(* and nothing but its body follows a header.  Writes are asynchronous and *)
(* the strand alone does not keep two of them from mixing; the flag        *)
(* _is_writing (ServerSession.h:104-109) and handle_sent have to.          *)
Framed ==
    \A i \in 1..Len(wire) :
        /\ wire[i].part = "header" /\ i < Len(wire)
              => wire[i + 1] = Body(wire[i].msg)
        /\ wire[i].part = "body"
              => i > 1 /\ wire[i - 1] = Header(wire[i].msg)

(* A message that was accepted and has not ended is in exactly one place:  *)
(* a task waiting for its turn, a write in flight, or a completion to be   *)
(* handled.  Reposting (ServerSession.h:104-108) neither loses nor doubles *)
(* a message, whatever is posted around it.                                *)
PlacesOf(m) ==
    Cardinality({i \in 1..Len(strand) : strand[i] = WriteTask(m)})
    + Cardinality({x \in inflight : x.msg = m})
    + Cardinality({i \in 1..Len(strand) :
                       strand[i].op = "sent" /\ strand[i].msg = m})

EachMessageOnce ==
    \A m \in Messages : PlacesOf(m) = IF status[m] = "pending" THEN 1 ELSE 0

(* What handle_sent concludes is what happened on the connection: a message*)
(* counts as sent exactly when all of it went out.                         *)
OutcomeIsTrue ==
    \A m \in Messages :
        LET whole == \E i \in 1..Len(wire) : wire[i] = Body(m)
        IN  /\ status[m] = "sent" => whole
            /\ status[m] \in {"new", "failed"} => ~whole

(* An open session is always watched: the chain of StartTimer calls (which *)
(* ends for good when it posts a close) is alive, or a close is queued.    *)
(* The chain runs off the strand while strand tasks cancel its wait and    *)
(* move its deadline; it must not be lost in between.                      *)
Watched ==
    opened /\ socket = "open" => timer # "stopped" \/ Queued(CloseTask)

(* The session implements the channel it is for its stream.                *)
Channel == INSTANCE MessageChannel
             WITH offered <- {m \in Messages : status[m] # "new"},
                  open <- (socket = "open")

ImplementsChannel == Channel!Spec

(* "The session closes itself after timeout of inactivity is met"          *)
(* (ServerSession.h:36-38): with finitely many messages to write, every    *)
(* opened session ends up closed, even if the client never sends its id,   *)
(* stops reading or leaves.                                                *)
ClosesItself == opened ~> socket = "closed"

(* Every accepted message ends: sent, or given up with an error.  A write  *)
(* stalled by the client holds up the messages behind it, which repost     *)
(* themselves forever; only the timeout gets them out.                     *)
EveryWriteEnds ==
    \A m \in Messages :
        status[m] = "pending" ~> status[m] \in {"sent", "failed"}

(* DEBUG_ASSERT_EQ(bytes_received, sizeof(_stream_id)) at                  *)
(* ServerSession.h:72 is evaluated before the error code is looked at: it  *)
(* claims that every read of the stream id got all of its bytes.           *)
QueryGotItsBytes ==
    strand # <<>> /\ Head(strand).op = "query" => Head(strand).ok
=============================================================================
