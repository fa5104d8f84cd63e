------------------------- MODULE ServerSessionProofs -------------------------
(***************************************************************************)
(* What holds of a server session for every set of messages and stream     *)
(* ids, and for both ways of ordering an unset deadline.                   *)
(*                                                                         *)
(* The argument has two legs.  Watched is inductive with TypeOK.  Framed   *)
(* is not: it needs OneWriter (the flag _is_writing covers a write from    *)
(* async_write to handle_sent) and HalfFrame (a half frame belongs to the  *)
(* write in flight); together they are FrameInv.  That a message is framed *)
(* at most once needs to know where each message is (OnePlace) and what of *)
(* it is on the wire (WireByPlace); with them WireInv implies OutcomeIsTrue*)
(* and every step maps to a step of MessageChannel or to a stutter.        *)
(***************************************************************************)
EXTENDS ServerSession, SequenceTheorems, FiniteSetTheorems, TLAPS

(* A task that carries message m: it waits for its turn or it is the       *)
(* completion of its write.                                                *)
Carries(t, m) == t.op \in {"write", "sent"} /\ t.msg = m

(* One write at a time: the flag covers the write from async_write to      *)
(* handle_sent.                                                            *)
OneWriter ==
    /\ \A x, y \in inflight : x = y
    /\ inflight # {} => is_writing
    /\ \A i \in 1..Len(strand) :
          strand[i].op = "sent" => is_writing /\ inflight = {}
    /\ \A i, j \in 1..Len(strand) :
          strand[i].op = "sent" /\ strand[j].op = "sent" => i = j

(* A connection that ends in half a frame is in the middle of the one      *)
(* write in flight, unless it is broken or closed.                         *)
HalfFrame ==
    /\ \A x \in inflight :
          x.parts = 1 => wire # <<>> /\ wire[Len(wire)] = Header(x.msg)
    /\ wire # <<>> /\ wire[Len(wire)].part = "header"
         /\ socket = "open" /\ peer = "up"
       => \E x \in inflight : x.parts = 1

FrameInv == TypeOK /\ OneWriter /\ HalfFrame /\ Framed

(* Where a message that has not ended is, without counting.                *)
OnePlace ==
    /\ \A m \in Messages : \A i, j \in 1..Len(strand) :
          Carries(strand[i], m) /\ Carries(strand[j], m) => i = j
    /\ \A x \in inflight : \A i \in 1..Len(strand) : ~Carries(strand[i], x.msg)
    /\ \A x \in inflight : status[x.msg] = "pending"
    /\ \A m \in Messages : \A i \in 1..Len(strand) :
          Carries(strand[i], m) => status[m] = "pending"

OnWire(p) == \E i \in 1..Len(wire) : wire[i] = p

(* What of a message is on the connection, by the place it is in.          *)
WireByPlace ==
    /\ \A m \in Messages : status[m] = "new" => ~OnWire(Header(m))
    /\ \A i \in 1..Len(strand) :
          strand[i].op = "write" => ~OnWire(Header(strand[i].msg))
    /\ \A x \in inflight : x.parts = 0 => ~OnWire(Header(x.msg))
    /\ \A x \in inflight : OnWire(Body(x.msg)) <=> x.parts = 2
    /\ \A i \in 1..Len(strand) :
          strand[i].op = "sent" =>
              (OnWire(Body(strand[i].msg)) <=> strand[i].ok)

PlaceInv == FrameInv /\ OnePlace

WireInv == PlaceInv /\ WireByPlace /\ OutcomeIsTrue

-----------------------------------------------------------------------------
(* Sequences used as queues, by index.                                     *)

LEMMA AppendIndexed ==
    ASSUME NEW S, NEW s \in Seq(S), NEW t \in S
    PROVE  /\ Append(s, t) \in Seq(S)
           /\ Append(s, t) # <<>>
           /\ Len(s) \in Nat
           /\ Len(Append(s, t)) = Len(s) + 1
           /\ \A i \in 1..Len(s) : Append(s, t)[i] = s[i]
           /\ Append(s, t)[Len(s) + 1] = t
BY AppendProperties, LenProperties

LEMMA TailIndexed ==
    ASSUME NEW S, NEW s \in Seq(S), s # <<>>
    PROVE  /\ Tail(s) \in Seq(S)
           /\ Head(s) \in S
           /\ Head(s) = s[1]
           /\ Len(s) \in Nat \ {0}
           /\ 1 \in 1..Len(s)
           /\ Len(Tail(s)) = Len(s) - 1
           /\ \A i \in 1..Len(Tail(s)) : Tail(s)[i] = s[i + 1]
BY HeadTailProperties, LenProperties, EmptySeq

LEMMA TasksTyped ==
    ASSUME NEW m \in Messages, NEW b \in BOOLEAN
    PROVE  /\ OpenTask \in Task /\ CloseTask \in Task /\ QueryTask(b) \in Task
           /\ WriteTask(m) \in Task /\ SentTask(m, b) \in Task
BY DEF Task, OpenTask, CloseTask, QueryTask, WriteTask, SentTask

-----------------------------------------------------------------------------
(* Types.                                                                  *)

LEMMA InitType == Init => TypeOK
<1> SUFFICES ASSUME Init PROVE TypeOK
  OBVIOUS
<1>1. strand \in Seq(Task) /\ wire \in Seq(Part)
  BY EmptySeq DEF Init
<1> QED
  BY <1>1 DEF Init, TypeOK

LEMMA RearmTyped ==
    ASSUME TypeOK, Rearm
    PROVE  /\ deadline' \in {"unset", "future", "past"}
           /\ timer' \in {"stopped", "checking", "arming", "waiting", "early"}
           /\ timer' = "stopped" <=> timer = "stopped"
BY DEF TypeOK, Rearm, TimerAfterRearm

LEMMA StepType == TypeOK /\ [Next]_vars => TypeOK'
<1> SUFFICES ASSUME TypeOK, [Next]_vars PROVE TypeOK'
  OBVIOUS
<1> USE DEF connVars, queryVars, timerVars, writeVars
<1>1. CASE Open
  <2>1. OpenTask \in Task /\ CloseTask \in Task
    BY DEF Task, OpenTask, CloseTask
  <2>2. (IF Expired THEN Append(strand, CloseTask) ELSE strand) \in Seq(Task)
    BY <2>1, AppendIndexed DEF TypeOK
  <2>3. strand' \in Seq(Task)
    BY <1>1, <2>1, <2>2, AppendIndexed DEF Open
  <2> QED
    BY <1>1, <2>3 DEF TypeOK, Open
<1>2. CASE ExecuteOpen
  <2>1. strand' \in Seq(Task)
    BY <1>2, TailIndexed DEF ExecuteOpen, TypeOK
  <2> QED
    BY <1>2, <2>1, RearmTyped DEF TypeOK, ExecuteOpen
<1>3. CASE ExecuteQuery
  <2>1. CloseTask \in Task
    BY DEF Task, CloseTask
  <2>2. Tail(strand) \in Seq(Task)
    BY <1>3, TailIndexed DEF ExecuteQuery, TypeOK
  <2>3. Append(Tail(strand), CloseTask) \in Seq(Task)
    BY <2>1, <2>2, AppendIndexed
  <2> QED
    BY <1>3, <2>2, <2>3 DEF TypeOK, ExecuteQuery
<1>4. ASSUME NEW m \in Messages, ExecuteRepost(m) PROVE TypeOK'
  <2>1. WriteTask(m) \in Task
    BY DEF Task, WriteTask
  <2>2. Tail(strand) \in Seq(Task)
    BY <1>4, TailIndexed DEF ExecuteRepost, TypeOK
  <2>3. strand' \in Seq(Task)
    BY <1>4, <2>1, <2>2, AppendIndexed DEF ExecuteRepost
  <2> QED
    BY <1>4, <2>3 DEF TypeOK, ExecuteRepost
<1>5. ASSUME NEW m \in Messages, ExecuteWrite(m) PROVE TypeOK'
  <2>1. strand' \in Seq(Task)
    BY <1>5, TailIndexed DEF ExecuteWrite, TypeOK
  <2>2. inflight' \subseteq Transfer
    BY <1>5 DEF ExecuteWrite, TypeOK, Transfer
  <2> QED
    BY <1>5, <2>1, <2>2, RearmTyped DEF TypeOK, ExecuteWrite
<1>6. CASE ExecuteSent
  <2>1. strand' \in Seq(Task)
    BY <1>6, TailIndexed DEF ExecuteSent, TypeOK
  <2>2. status' \in [Messages -> {"new", "pending", "sent", "failed"}]
    BY <1>6 DEF ExecuteSent, TypeOK
  <2> QED
    BY <1>6, <2>1, <2>2 DEF TypeOK, ExecuteSent
<1>7. CASE ExecuteClose
  <2>1. strand' \in Seq(Task)
    BY <1>7, TailIndexed DEF ExecuteClose, TypeOK
  <2> QED
    BY <1>7, <2>1 DEF TypeOK, ExecuteClose
<1>8. CASE Timer
  <2>1. CASE TimerExpires
    <3>1. CloseTask \in Task
      BY DEF Task, CloseTask
    <3>2. strand' \in Seq(Task)
      BY <2>1, <3>1, AppendIndexed DEF TimerExpires, TypeOK
    <3> QED
      BY <2>1, <3>2 DEF TypeOK, TimerExpires
  <2>2. CASE TimerFires \/ TimerGoesOn \/ TimerArms
    BY <2>2 DEF TypeOK, TimerFires, TimerGoesOn, TimerArms
  <2> QED
    BY <1>8, <2>1, <2>2 DEF Timer
<1>9. CASE TimePasses \/ RunCallback \/ PeerGoesDown
  BY <1>9 DEF TypeOK, TimePasses, RunCallback, PeerGoesDown
<1>10. ASSUME NEW id \in StreamIds, ReadStreamId(id) PROVE TypeOK'
  <2>1. QueryTask(TRUE) \in Task
    BY DEF Task, QueryTask
  <2>2. strand' \in Seq(Task)
    BY <1>10, <2>1, AppendIndexed DEF ReadStreamId, TypeOK
  <2> QED
    BY <1>10, <2>2 DEF TypeOK, ReadStreamId
<1>11. CASE ReadFails
  <2>1. QueryTask(FALSE) \in Task
    BY DEF Task, QueryTask
  <2>2. strand' \in Seq(Task)
    BY <1>11, <2>1, AppendIndexed DEF ReadFails, TypeOK
  <2> QED
    BY <1>11, <2>2 DEF TypeOK, ReadFails
<1>12. ASSUME NEW m \in Messages, Write(m) PROVE TypeOK'
  <2>1. WriteTask(m) \in Task
    BY DEF Task, WriteTask
  <2>2. strand' \in Seq(Task)
    BY <1>12, <2>1, AppendIndexed DEF Write, TypeOK
  <2>3. status' \in [Messages -> {"new", "pending", "sent", "failed"}]
    BY <1>12 DEF Write, TypeOK
  <2> QED
    BY <1>12, <2>2, <2>3 DEF TypeOK, Write
<1>13. ASSUME NEW x \in inflight, Transmit(x) PROVE TypeOK'
  <2>1. x \in Transfer /\ x.parts \in {0, 1} /\ x.msg \in Messages
    BY <1>13 DEF Transmit, TypeOK, Transfer
  <2>2. (IF x.parts = 0 THEN Header(x.msg) ELSE Body(x.msg)) \in Part
    BY <2>1 DEF Part, Header, Body
  <2>3. wire' \in Seq(Part)
    BY <1>13, <2>2, AppendIndexed DEF Transmit, TypeOK
  <2>4. [x EXCEPT !.parts = @ + 1] \in Transfer
    BY <2>1 DEF Transfer
  <2>5. inflight' \subseteq Transfer
    BY <1>13, <2>4 DEF Transmit, TypeOK
  <2> QED
    BY <1>13, <2>3, <2>5 DEF TypeOK, Transmit
<1>14. ASSUME NEW x \in inflight, WriteCompletes(x) PROVE TypeOK'
  <2>1. SentTask(x.msg, x.parts = 2) \in Task
    BY DEF TypeOK, Transfer, Task, SentTask
  <2>2. strand' \in Seq(Task)
    BY <1>14, <2>1, AppendIndexed DEF WriteCompletes, TypeOK
  <2> QED
    BY <1>14, <2>2 DEF TypeOK, WriteCompletes
<1>15. CASE UNCHANGED vars
  BY <1>15 DEF TypeOK, vars
<1> QED
  BY <1>1, <1>2, <1>3, <1>4, <1>5, <1>6, <1>7, <1>8, <1>9, <1>10, <1>11,
     <1>12, <1>13, <1>14, <1>15
  DEF Next, ExecuteStrand, Completion

(* Every state of a session is of the declared types. *)
THEOREM TypeCorrect == Spec => []TypeOK
BY InitType, StepType, PTL DEF Spec

-----------------------------------------------------------------------------
(* An open session is watched.                                             *)

LEMMA InitWatched == Init => Watched
BY DEF Init, Watched

(* A queued close stays queued until it is executed, and the execution of  *)
(* any other task leaves it in the queue.                                  *)
LEMMA CloseStaysAppended ==
    ASSUME strand \in Seq(Task), NEW t \in Task, Queued(CloseTask),
           strand' = Append(strand, t)
    PROVE  Queued(CloseTask)'
BY AppendIndexed DEF Queued

LEMMA CloseStaysTail ==
    ASSUME strand \in Seq(Task), strand # <<>>, Head(strand) # CloseTask,
           Queued(CloseTask), strand' = Tail(strand)
    PROVE  Queued(CloseTask)'
<1>1. PICK i \in 1..Len(strand) : strand[i] = CloseTask
  BY DEF Queued
<1>2. i # 1 /\ i - 1 \in 1..Len(strand') /\ strand'[i - 1] = strand[i]
  BY <1>1, TailIndexed
<1> QED
  BY <1>1, <1>2 DEF Queued, CloseTask

LEMMA CloseStaysMoved ==
    ASSUME strand \in Seq(Task), strand # <<>>, Head(strand) # CloseTask,
           NEW t \in Task, Queued(CloseTask), strand' = Append(Tail(strand), t)
    PROVE  Queued(CloseTask)'
<1>1. PICK i \in 1..Len(strand) : strand[i] = CloseTask
  BY DEF Queued
<1>2. i # 1 /\ i - 1 \in 1..Len(Tail(strand)) /\ Tail(strand)[i - 1] = strand[i]
  BY <1>1, TailIndexed
<1>3. Tail(strand) \in Seq(Task)
  BY TailIndexed
<1>4. i - 1 \in 1..Len(strand') /\ strand'[i - 1] = CloseTask
  BY <1>1, <1>2, <1>3, AppendIndexed
<1> QED
  BY <1>4 DEF Queued, CloseTask

LEMMA StepWatched == TypeOK /\ Watched /\ [Next]_vars => Watched'
<1> SUFFICES ASSUME TypeOK, Watched, [Next]_vars, opened', (socket = "open")'
             PROVE  (timer # "stopped")' \/ Queued(CloseTask)'
  BY DEF Watched
<1> USE DEF connVars, queryVars, timerVars, writeVars
<1>0. strand \in Seq(Task)
  BY DEF TypeOK
<1>1. CASE Open
  <2>1. CASE Expired
    <3>1. CloseTask \in Task /\ OpenTask \in Task
      BY DEF Task, OpenTask, CloseTask
    <3>2. Append(strand, CloseTask) \in Seq(Task)
      BY <1>0, <3>1, AppendIndexed
    <3>3. /\ Len(strand) + 1 \in 1..Len(strand')
          /\ strand'[Len(strand) + 1] = CloseTask
      BY <1>0, <1>1, <2>1, <3>1, <3>2, AppendIndexed DEF Open
    <3> QED
      BY <3>3 DEF Queued, CloseTask
  <2>2. CASE ~Expired
    BY <1>1, <2>2 DEF Open
  <2> QED
    BY <2>1, <2>2
<1>2. CASE ExecuteOpen
  <2>1. Head(strand) # CloseTask
    BY <1>2 DEF ExecuteOpen, OpenTask, CloseTask
  <2> QED
    BY <1>0, <1>2, <2>1, CloseStaysTail, RearmTyped DEF ExecuteOpen, Watched
<1>3. CASE ExecuteQuery
  <2>1. Head(strand) # CloseTask /\ CloseTask \in Task
    BY <1>3 DEF ExecuteQuery, CloseTask, Task
  <2> QED
    BY <1>0, <1>3, <2>1, CloseStaysTail, CloseStaysMoved DEF ExecuteQuery, Watched
<1>4. ASSUME NEW m \in Messages, ExecuteRepost(m)
      PROVE  (timer # "stopped")' \/ Queued(CloseTask)'
  <2>1. Head(strand) # CloseTask /\ WriteTask(m) \in Task
    BY <1>4 DEF ExecuteRepost, CloseTask, WriteTask, Task
  <2> QED
    BY <1>0, <1>4, <2>1, CloseStaysMoved DEF ExecuteRepost, Watched
<1>5. ASSUME NEW m \in Messages, ExecuteWrite(m)
      PROVE  (timer # "stopped")' \/ Queued(CloseTask)'
  <2>1. Head(strand) # CloseTask
    BY <1>5 DEF ExecuteWrite, CloseTask, WriteTask
  <2> QED
    BY <1>0, <1>5, <2>1, CloseStaysTail, RearmTyped DEF ExecuteWrite, Watched
<1>6. CASE ExecuteSent
  <2>1. Head(strand) # CloseTask
    BY <1>6 DEF ExecuteSent, CloseTask
  <2> QED
    BY <1>0, <1>6, <2>1, CloseStaysTail DEF ExecuteSent, Watched
<1>7. CASE ExecuteClose
  BY <1>7 DEF ExecuteClose
<1>8. CASE Timer
  <2>1. CASE TimerExpires
    <3>1. CloseTask \in Task
      BY DEF CloseTask, Task
    <3>2. Len(strand) + 1 \in 1..Len(strand') /\ strand'[Len(strand) + 1] = CloseTask
      BY <1>0, <2>1, <3>1, AppendIndexed DEF TimerExpires
    <3> QED
      BY <3>2 DEF Queued, CloseTask
  <2>2. CASE TimerFires \/ TimerGoesOn \/ TimerArms
    BY <2>2 DEF TimerFires, TimerGoesOn, TimerArms
  <2> QED
    BY <1>8, <2>1, <2>2 DEF Timer
<1>9. CASE TimePasses \/ RunCallback \/ PeerGoesDown \/ UNCHANGED vars
  BY <1>9 DEF TimePasses, RunCallback, PeerGoesDown, Watched, Queued, CloseTask, vars
<1>10. ASSUME NEW id \in StreamIds, ReadStreamId(id)
       PROVE  (timer # "stopped")' \/ Queued(CloseTask)'
  <2>1. QueryTask(TRUE) \in Task
    BY DEF Task, QueryTask
  <2> QED
    BY <1>0, <1>10, <2>1, CloseStaysAppended DEF ReadStreamId, Watched
<1>11. CASE ReadFails
  <2>1. QueryTask(FALSE) \in Task
    BY DEF Task, QueryTask
  <2> QED
    BY <1>0, <1>11, <2>1, CloseStaysAppended DEF ReadFails, Watched
<1>12. ASSUME NEW m \in Messages, Write(m)
       PROVE  (timer # "stopped")' \/ Queued(CloseTask)'
  <2>1. WriteTask(m) \in Task
    BY DEF Task, WriteTask
  <2> QED
    BY <1>0, <1>12, <2>1, CloseStaysAppended DEF Write, Watched
<1>13. ASSUME NEW x \in inflight, Transmit(x)
       PROVE  (timer # "stopped")' \/ Queued(CloseTask)'
  BY <1>13 DEF Transmit, Watched, Queued, CloseTask
<1>14. ASSUME NEW x \in inflight, WriteCompletes(x)
       PROVE  (timer # "stopped")' \/ Queued(CloseTask)'
  <2>1. SentTask(x.msg, x.parts = 2) \in Task
    BY DEF TypeOK, Transfer, Task, SentTask
  <2> QED
    BY <1>0, <1>14, <2>1, CloseStaysAppended DEF WriteCompletes, Watched
<1> QED
  BY <1>1, <1>2, <1>3, <1>4, <1>5, <1>6, <1>7, <1>8, <1>9, <1>10, <1>11,
     <1>12, <1>13, <1>14
  DEF Next, ExecuteStrand, Completion

(* An open session always has a live timer chain or a close on its way:    *)
(* the off-strand StartTimer and the strand tasks that cancel its wait     *)
(* never lose it between them.                                             *)
THEOREM AlwaysWatched == Spec => []Watched
<1>1. Init => TypeOK /\ Watched
  BY InitType, InitWatched
<1>2. TypeOK /\ Watched /\ [Next]_vars => TypeOK' /\ Watched'
  BY StepType, StepWatched
<1> QED
  BY <1>1, <1>2, PTL DEF Spec

-----------------------------------------------------------------------------
(* Frames are not mixed.                                                   *)

LEMMA InitFrame == Init => OneWriter /\ HalfFrame /\ Framed
<1> SUFFICES ASSUME Init PROVE OneWriter /\ HalfFrame /\ Framed
  OBVIOUS
<1>1. Len(strand) = 0 /\ Len(wire) = 0
  BY EmptySeq DEF Init
<1> QED
  BY <1>1 DEF Init, OneWriter, HalfFrame, Framed

(* Executing a task moves the others up by one.                            *)
LEMMA TailAddsNone ==
    ASSUME NEW s \in Seq(Task), s # <<>>
    PROVE  \A i \in 1..Len(Tail(s)) : i + 1 \in 1..Len(s) /\ s[i + 1] = Tail(s)[i]
BY TailIndexed

(* Every task that carries a message was there before the step, d places   *)
(* further back.                                                           *)
Shifted(d) ==
    \A i \in 1..Len(strand') : strand'[i].op \in {"write", "sent"} =>
        i + d \in 1..Len(strand) /\ strand[i + d] = strand'[i]

(* The steps that have nothing to do with the messages being written.      *)
OtherStep ==
    /\ UNCHANGED <<is_writing, inflight, wire, status>>
    /\ \E d \in {0, 1} : Shifted(d)

LEMMA AppendShifts ==
    ASSUME strand \in Seq(Task), NEW t \in Task, t.op \notin {"write", "sent"},
           strand' = Append(strand, t)
    PROVE  Shifted(0)
<1> SUFFICES ASSUME NEW i \in 1..Len(strand'), strand'[i].op \in {"write", "sent"}
             PROVE  i + 0 \in 1..Len(strand) /\ strand[i + 0] = strand'[i]
  BY DEF Shifted
<1>1. i # Len(strand) + 1
  BY AppendIndexed
<1>2. i \in 1..Len(strand) /\ i + 0 = i
  BY <1>1, AppendIndexed
<1> QED
  BY <1>2, AppendIndexed

LEMMA TailShifts ==
    ASSUME strand \in Seq(Task), strand # <<>>, strand' = Tail(strand)
    PROVE  Shifted(1)
BY TailAddsNone DEF Shifted

LEMMA MoveShifts ==
    ASSUME strand \in Seq(Task), strand # <<>>, NEW t \in Task,
           t.op \notin {"write", "sent"}, strand' = Append(Tail(strand), t)
    PROVE  Shifted(1)
<1>1. Tail(strand) \in Seq(Task)
  BY TailIndexed
<1> SUFFICES ASSUME NEW i \in 1..Len(strand'), strand'[i].op \in {"write", "sent"}
             PROVE  i + 1 \in 1..Len(strand) /\ strand[i + 1] = strand'[i]
  BY DEF Shifted
<1>2. i # Len(Tail(strand)) + 1
  BY <1>1, AppendIndexed
<1>3. i \in 1..Len(Tail(strand)) /\ strand'[i] = Tail(strand)[i]
  BY <1>1, <1>2, AppendIndexed
<1> QED
  BY <1>3, TailAddsNone

LEMMA StepKinds ==
    ASSUME TypeOK, [Next]_vars
    PROVE  \/ \E m \in Messages : Write(m) \/ ExecuteRepost(m) \/ ExecuteWrite(m)
           \/ \E x \in inflight : Transmit(x) \/ WriteCompletes(x)
           \/ ExecuteSent
           \/ OtherStep
<1> USE DEF connVars, queryVars, timerVars, writeVars
<1>0. strand \in Seq(Task)
  BY DEF TypeOK
<1>1. CASE Open
  <2>1. OpenTask \in Task /\ CloseTask \in Task
    BY DEF Task, OpenTask, CloseTask
  <2> DEFINE s == IF Expired THEN Append(strand, CloseTask) ELSE strand
  <2>2. /\ s \in Seq(Task)
        /\ Len(s) \in {Len(strand), Len(strand) + 1}
        /\ \A i \in 1..Len(strand) : s[i] = strand[i]
        /\ \A i \in 1..Len(s) : i \in 1..Len(strand) \/ s[i] = CloseTask
    BY <1>0, <2>1, AppendIndexed
  <2>3. strand' = Append(s, OpenTask)
    BY <1>1 DEF Open
  <2>4. \A i \in 1..Len(strand') : strand'[i].op \in {"write", "sent"} =>
            i + 0 \in 1..Len(strand) /\ strand[i + 0] = strand'[i]
    BY <2>1, <2>2, <2>3, AppendIndexed DEF OpenTask, CloseTask
  <2> QED
    BY <1>1, <2>4 DEF Open, OtherStep, Shifted
<1>2. CASE ExecuteOpen \/ ExecuteClose
  BY <1>0, <1>2, TailShifts DEF ExecuteOpen, ExecuteClose, OtherStep
<1>3. CASE ExecuteQuery
  <2>1. CloseTask \in Task /\ CloseTask.op \notin {"write", "sent"}
    BY DEF Task, CloseTask
  <2> QED
    BY <1>0, <1>3, <2>1, TailShifts, MoveShifts DEF ExecuteQuery, OtherStep
<1>4. CASE TimerExpires
  <2>1. CloseTask \in Task /\ CloseTask.op \notin {"write", "sent"}
    BY DEF Task, CloseTask
  <2> QED
    BY <1>0, <1>4, <2>1, AppendShifts DEF TimerExpires, OtherStep
<1>5. ASSUME NEW id \in StreamIds, ReadStreamId(id) PROVE OtherStep
  <2>1. QueryTask(TRUE) \in Task /\ QueryTask(TRUE).op \notin {"write", "sent"}
    BY DEF Task, QueryTask
  <2> QED
    BY <1>0, <1>5, <2>1, AppendShifts DEF ReadStreamId, OtherStep
<1>6. CASE ReadFails
  <2>1. QueryTask(FALSE) \in Task /\ QueryTask(FALSE).op \notin {"write", "sent"}
    BY DEF Task, QueryTask
  <2> QED
    BY <1>0, <1>6, <2>1, AppendShifts DEF ReadFails, OtherStep
<1>7. CASE TimerFires \/ TimerGoesOn \/ TimerArms \/ TimePasses \/ RunCallback
           \/ PeerGoesDown \/ UNCHANGED vars
  <2>1. strand' = strand /\ UNCHANGED <<is_writing, inflight, wire, status>>
    BY <1>7 DEF TimerFires, TimerGoesOn, TimerArms, TimePasses, RunCallback,
                PeerGoesDown, vars
  <2>2. \A i \in 1..Len(strand) : i + 0 = i
    BY <1>0, LenProperties
  <2>3. Shifted(0)
    BY <2>1, <2>2 DEF Shifted
  <2> QED
    BY <2>1, <2>3 DEF OtherStep
<1> QED
  BY <1>1, <1>2, <1>3, <1>4, <1>5, <1>6, <1>7
  DEF Next, ExecuteStrand, Timer, Completion

(* Reposting moves one task from the front to the back.                    *)
LEMMA RepostMoves ==
    ASSUME TypeOK, NEW m \in Messages, ExecuteRepost(m)
    PROVE  /\ Len(strand) \in Nat \ {0} /\ Len(strand') = Len(strand)
           /\ strand[1] = WriteTask(m) /\ strand'[Len(strand)] = WriteTask(m)
           /\ \A i \in 1..(Len(strand) - 1) : strand'[i] = strand[i + 1]
<1>1. strand \in Seq(Task) /\ strand # <<>> /\ WriteTask(m) \in Task
  BY DEF TypeOK, ExecuteRepost, Task, WriteTask
<1>2. Tail(strand) \in Seq(Task) /\ Len(Tail(strand)) = Len(strand) - 1
  BY <1>1, TailIndexed
<1>3. strand' = Append(Tail(strand), WriteTask(m)) /\ strand[1] = WriteTask(m)
  BY <1>1, TailIndexed DEF ExecuteRepost
<1> QED
  BY <1>1, <1>2, <1>3, TailIndexed, AppendIndexed

LEMMA StepOneWriter == FrameInv /\ [Next]_vars => OneWriter'
<1> SUFFICES ASSUME FrameInv, [Next]_vars PROVE OneWriter'
  OBVIOUS
<1> USE DEF connVars, queryVars, timerVars, writeVars
<1>0. TypeOK /\ strand \in Seq(Task) /\ OneWriter /\ Len(strand) \in Nat
  BY LenProperties DEF FrameInv, TypeOK
<1>1. CASE OtherStep
  <2>1. PICK d \in {0, 1} : Shifted(d)
    BY <1>1 DEF OtherStep
  <2>2. ASSUME NEW i \in 1..Len(strand'), NEW j \in 1..Len(strand'),
               strand'[i].op = "sent", strand'[j].op = "sent"
        PROVE  i = j /\ is_writing' /\ inflight' = {}
    <3>1. i + d = j + d /\ is_writing /\ inflight = {}
      BY <1>0, <2>1, <2>2 DEF OneWriter, Shifted
    <3> QED
      BY <1>1, <3>1 DEF OtherStep
  <2> QED
    BY <1>0, <1>1, <2>2 DEF OneWriter, OtherStep
<1>2. ASSUME NEW m \in Messages, ExecuteRepost(m) PROVE OneWriter'
  <2>1. \A i \in 1..Len(strand') : strand'[i].op = "sent" =>
            i + 1 \in 1..Len(strand) /\ strand[i + 1] = strand'[i]
    <3>1. /\ Len(strand) \in Nat \ {0} /\ Len(strand') = Len(strand)
          /\ strand'[Len(strand)] = WriteTask(m)
          /\ \A i \in 1..(Len(strand) - 1) : strand'[i] = strand[i + 1]
      BY <1>0, <1>2, RepostMoves
    <3>2. ASSUME NEW i \in 1..Len(strand'), strand'[i].op = "sent"
          PROVE  i \in 1..(Len(strand) - 1)
      BY <3>1, <3>2 DEF WriteTask
    <3> QED
      BY <3>1, <3>2
  <2> QED
    BY <1>0, <1>2, <2>1 DEF ExecuteRepost, OneWriter
<1>3. ASSUME NEW m \in Messages, ExecuteWrite(m) PROVE OneWriter'
  <2>1. \A i \in 1..Len(strand') : i + 1 \in 1..Len(strand) /\ strand[i + 1] = strand'[i]
    BY <1>0, <1>3, TailAddsNone DEF ExecuteWrite
  <2>2. inflight = {} /\ \A i \in 1..Len(strand) : strand[i].op # "sent"
    BY <1>0, <1>3 DEF ExecuteWrite, OneWriter
  <2> QED
    BY <1>3, <2>1, <2>2 DEF ExecuteWrite, OneWriter
<1>4. CASE ExecuteSent
  <2>1. \A i \in 1..Len(strand') : i + 1 \in 1..Len(strand) /\ strand[i + 1] = strand'[i]
    BY <1>0, <1>4, TailAddsNone DEF ExecuteSent
  <2>2. 1 \in 1..Len(strand) /\ strand[1].op = "sent"
    BY <1>0, <1>4, TailIndexed DEF ExecuteSent
  <2>3. inflight = {} /\ \A i \in 1..Len(strand') : strand'[i].op # "sent"
    BY <1>0, <2>1, <2>2 DEF OneWriter
  <2> QED
    BY <1>4, <2>3 DEF ExecuteSent, OneWriter
<1>5. ASSUME NEW m \in Messages, Write(m) PROVE OneWriter'
  <2>1. WriteTask(m) \in Task /\ WriteTask(m).op # "sent"
    BY DEF Task, WriteTask
  <2>2. \A i \in 1..Len(strand') : strand'[i].op = "sent" =>
            i \in 1..Len(strand) /\ strand[i] = strand'[i]
    <3>1. /\ Len(strand') = Len(strand) + 1
          /\ strand'[Len(strand) + 1] = WriteTask(m)
          /\ \A i \in 1..Len(strand) : strand'[i] = strand[i]
      BY <1>0, <1>5, <2>1, AppendIndexed DEF Write
    <3> QED
      BY <1>0, <2>1, <3>1
  <2> QED
    BY <1>0, <1>5, <2>2 DEF Write, OneWriter
<1>6. ASSUME NEW x \in inflight, Transmit(x) PROVE OneWriter'
  <2>1. inflight = {x}
    BY <1>0 DEF OneWriter
  <2>2. inflight' = {[x EXCEPT !.parts = @ + 1]}
    BY <1>6, <2>1 DEF Transmit
  <2> QED
    BY <1>0, <1>6, <2>1, <2>2 DEF Transmit, OneWriter
<1>7. ASSUME NEW x \in inflight, WriteCompletes(x) PROVE OneWriter'
  <2>1. SentTask(x.msg, x.parts = 2) \in Task
    BY DEF FrameInv, TypeOK, Transfer, Task, SentTask
  <2>2. /\ inflight' = {}
        /\ is_writing' = TRUE
        /\ \A i \in 1..Len(strand) : strand[i].op # "sent"
    BY <1>0, <1>7 DEF WriteCompletes, OneWriter, FrameInv, TypeOK
  <2>3. /\ Len(strand') = Len(strand) + 1
        /\ \A i \in 1..Len(strand) : strand'[i] = strand[i]
    BY <1>0, <1>7, <2>1, AppendIndexed DEF WriteCompletes
  <2>4. \A i \in 1..Len(strand') : strand'[i].op = "sent" => i = Len(strand) + 1
    BY <1>0, <2>2, <2>3
  <2> QED
    BY <2>2, <2>4 DEF OneWriter
<1> QED
  BY <1>0, <1>1, <1>2, <1>3, <1>4, <1>5, <1>6, <1>7, StepKinds

(* The steps that leave the connection and the write in flight alone.      *)
LEMMA QuietSteps ==
    ASSUME [Next]_vars
    PROVE  \/ \E m \in Messages : ExecuteWrite(m)
           \/ \E x \in inflight : Transmit(x) \/ WriteCompletes(x)
           \/ ExecuteClose
           \/ PeerGoesDown
           \/ UNCHANGED <<socket, peer, inflight, wire>>
<1> USE DEF connVars, queryVars, timerVars, writeVars
<1>1. CASE Open \/ Timer \/ TimePasses \/ RunCallback
  BY <1>1 DEF Open, Timer, TimerFires, TimerExpires, TimerGoesOn, TimerArms,
              TimePasses, RunCallback
<1>2. CASE ExecuteStrand
  BY <1>2 DEF ExecuteStrand, ExecuteOpen, ExecuteQuery, ExecuteRepost, ExecuteSent
<1>3. CASE (\E id \in StreamIds : ReadStreamId(id)) \/ Completion
  BY <1>3 DEF ReadStreamId, Completion, ReadFails
<1>4. CASE \E m \in Messages : Write(m)
  BY <1>4 DEF Write
<1>5. CASE UNCHANGED vars
  BY <1>5 DEF vars
<1> QED
  BY <1>1, <1>2, <1>3, <1>4, <1>5 DEF Next

(* A part goes out while its write is the only one: a header only between  *)
(* frames, a body only after its header.                                   *)
LEMMA TransmitInPlace ==
    ASSUME FrameInv, NEW x \in inflight, Transmit(x)
    PROVE  /\ inflight = {x}
           /\ x.parts \in {0, 1} /\ x.msg \in Messages
           /\ wire \in Seq(Part) /\ wire' \in Seq(Part)
           /\ Len(wire) \in Nat /\ Len(wire') = Len(wire) + 1
           /\ \A i \in 1..Len(wire) : wire'[i] = wire[i]
           /\ x.parts = 0 => /\ wire'[Len(wire) + 1] = Header(x.msg)
                             /\ wire # <<>> => wire[Len(wire)].part = "body"
           /\ x.parts = 1 => /\ wire'[Len(wire) + 1] = Body(x.msg)
                             /\ wire # <<>> /\ wire[Len(wire)] = Header(x.msg)
<1>1. inflight = {x}
  BY DEF FrameInv, OneWriter
<1>2. x.parts \in {0, 1} /\ x.msg \in Messages /\ wire \in Seq(Part)
  BY DEF Transmit, FrameInv, TypeOK, Transfer
<1>3. (IF x.parts = 0 THEN Header(x.msg) ELSE Body(x.msg)) \in Part
  BY <1>2 DEF Part, Header, Body
<1>4. /\ wire' \in Seq(Part)
      /\ Len(wire) \in Nat /\ Len(wire') = Len(wire) + 1
      /\ \A i \in 1..Len(wire) : wire'[i] = wire[i]
      /\ wire'[Len(wire) + 1] = IF x.parts = 0 THEN Header(x.msg) ELSE Body(x.msg)
  BY <1>2, <1>3, AppendIndexed DEF Transmit
<1>5. ASSUME x.parts = 0, wire # <<>> PROVE wire[Len(wire)].part = "body"
  <2>1. Len(wire) \in 1..Len(wire)
    BY <1>2, <1>5, TailIndexed
  <2>2. wire[Len(wire)] \in Part
    BY <1>2, <2>1, ElementOfSeq
  <2>3. wire[Len(wire)].part # "header"
    BY <1>1, <1>5 DEF Transmit, FrameInv, HalfFrame
  <2> QED
    BY <2>2, <2>3 DEF Part
<1>6. ASSUME x.parts = 1 PROVE wire # <<>> /\ wire[Len(wire)] = Header(x.msg)
  BY <1>6 DEF FrameInv, HalfFrame
<1> QED
  BY <1>1, <1>2, <1>4, <1>5, <1>6

LEMMA StepHalfFrame == FrameInv /\ [Next]_vars => HalfFrame'
<1> SUFFICES ASSUME FrameInv, [Next]_vars PROVE HalfFrame'
  OBVIOUS
<1> USE DEF connVars, queryVars, timerVars, writeVars
<1>1. ASSUME NEW m \in Messages, ExecuteWrite(m) PROVE HalfFrame'
  <2>1. inflight = {} /\ inflight' = {[msg |-> m, parts |-> 0]}
    BY <1>1 DEF FrameInv, OneWriter, ExecuteWrite
  <2>2. UNCHANGED <<wire, socket, peer>>
    BY <1>1 DEF ExecuteWrite
  <2> QED
    BY <2>1, <2>2 DEF FrameInv, HalfFrame
<1>2. ASSUME NEW x \in inflight, Transmit(x) PROVE HalfFrame'
  <2>1. inflight' = {[msg |-> x.msg, parts |-> x.parts + 1]}
    BY <1>2, TransmitInPlace DEF Transmit, FrameInv, TypeOK, Transfer
  <2>2. wire' # <<>>
    BY <1>2, TransmitInPlace, EmptySeq
  <2>3. CASE x.parts = 0
    BY <1>2, <2>1, <2>2, <2>3, TransmitInPlace DEF HalfFrame
  <2>4. CASE x.parts = 1
    <3>1. wire'[Len(wire')].part = "body"
      <4>1. wire'[Len(wire')] = Body(x.msg)
        BY <1>2, <2>4, TransmitInPlace
      <4> QED
        BY <4>1 DEF Body
    <3> QED
      BY <2>1, <2>4, <3>1 DEF HalfFrame
  <2> QED
    BY <1>2, <2>3, <2>4, TransmitInPlace
<1>3. ASSUME NEW x \in inflight, WriteCompletes(x) PROVE HalfFrame'
  <2>1. inflight = {x} /\ inflight' = {} /\ UNCHANGED <<wire, socket, peer>>
    BY <1>3 DEF FrameInv, OneWriter, WriteCompletes
  <2> QED
    BY <1>3, <2>1 DEF WriteCompletes, FrameInv, TypeOK, HalfFrame
<1>4. CASE ExecuteClose \/ PeerGoesDown
  BY <1>4 DEF ExecuteClose, PeerGoesDown, FrameInv, HalfFrame
<1>5. CASE UNCHANGED <<socket, peer, inflight, wire>>
  BY <1>5 DEF FrameInv, HalfFrame
<1> QED
  BY <1>1, <1>2, <1>3, <1>4, <1>5, QuietSteps

LEMMA StepFramed == FrameInv /\ [Next]_vars => Framed'
<1> SUFFICES ASSUME FrameInv, [Next]_vars PROVE Framed'
  OBVIOUS
<1>1. ASSUME NEW x \in inflight, Transmit(x) PROVE Framed'
  <2>1. Framed /\ Len(wire) \in Nat
    BY <1>1, TransmitInPlace DEF FrameInv
  <2> SUFFICES ASSUME NEW i \in 1..Len(wire')
               PROVE  /\ wire'[i].part = "header" /\ i < Len(wire')
                            => wire'[i + 1] = Body(wire'[i].msg)
                      /\ wire'[i].part = "body"
                            => i > 1 /\ wire'[i - 1] = Header(wire'[i].msg)
    BY DEF Framed, Body, Header
  <2>2. CASE i = Len(wire) + 1
    <3>0. Len(wire') = Len(wire) + 1
      BY <1>1, TransmitInPlace
    <3>1. CASE x.parts = 0
      <4>1. wire'[i] = Header(x.msg)
        BY <1>1, <2>2, <3>1, TransmitInPlace
      <4> QED
        BY <2>1, <2>2, <3>0, <4>1 DEF Header
    <3>2. CASE x.parts = 1
      <4>1. wire'[i] = Body(x.msg) /\ wire # <<>> /\ wire[Len(wire)] = Header(x.msg)
        BY <1>1, <2>2, <3>2, TransmitInPlace
      <4>2. Len(wire) \in 1..Len(wire)
        BY <1>1, <4>1, TransmitInPlace, TailIndexed
      <4>3. wire'[i - 1] = Header(x.msg) /\ i > 1
        BY <1>1, <2>1, <2>2, <4>1, <4>2, TransmitInPlace
      <4> QED
        BY <2>1, <2>2, <3>0, <4>1, <4>3 DEF Body
    <3> QED
      BY <1>1, <3>1, <3>2, TransmitInPlace
  <2>3. CASE i \in 1..Len(wire)
    <3>1. wire'[i] = wire[i]
      BY <1>1, <2>3, TransmitInPlace
    <3>2. CASE i < Len(wire)
      <4>1. i + 1 \in 1..Len(wire)
        BY <2>1, <2>3, <3>2
      <4> QED
        BY <1>1, <2>1, <2>3, <3>1, <3>2, <4>1, TransmitInPlace DEF Framed
    <3>3. CASE i = Len(wire)
      <4>1. wire # <<>>
        BY <2>3, EmptySeq, <3>3
      <4>2. ASSUME wire[i].part = "header" PROVE wire'[i + 1] = Body(wire[i].msg)
        <5>1. x.parts = 1 /\ wire[i] = Header(x.msg)
          BY <1>1, <3>3, <4>1, <4>2, TransmitInPlace
        <5> QED
          BY <1>1, <3>3, <5>1, TransmitInPlace DEF Header
      <4> QED
        BY <1>1, <2>1, <2>3, <3>1, <4>2, TransmitInPlace DEF Framed
    <3> QED
      BY <2>1, <2>3, <3>2, <3>3
  <2> QED
    BY <1>1, <2>1, <2>2, <2>3, TransmitInPlace
<1>2. ASSUME UNCHANGED wire PROVE Framed'
  BY <1>2 DEF FrameInv, Framed
<1>3. (\E x \in inflight : Transmit(x)) \/ UNCHANGED wire
  BY QuietSteps DEF ExecuteWrite, WriteCompletes, ExecuteClose, PeerGoesDown, writeVars
<1> QED
  BY <1>1, <1>2, <1>3

(* The connection of a session carries whole frames, each body right after *)
(* its own header, whatever the number of messages and of threads that     *)
(* write them.                                                             *)
THEOREM AlwaysFramed == Spec => []Framed
<1>1. Init => FrameInv
  BY InitType, InitFrame DEF FrameInv
<1>2. FrameInv /\ [Next]_vars => FrameInv'
  BY StepType, StepOneWriter, StepHalfFrame, StepFramed DEF FrameInv
<1>3. FrameInv => Framed
  BY DEF FrameInv
<1> QED
  BY <1>1, <1>2, <1>3, PTL DEF Spec

-----------------------------------------------------------------------------
(* A message is in one place, and its place tells what is on the wire.     *)

LEMMA InitPlace == Init => OnePlace /\ WireByPlace /\ OutcomeIsTrue
<1> SUFFICES ASSUME Init PROVE OnePlace /\ WireByPlace /\ OutcomeIsTrue
  OBVIOUS
<1>1. Len(strand) = 0 /\ Len(wire) = 0
  BY EmptySeq DEF Init
<1>2. OnePlace
  BY <1>1 DEF Init, OnePlace
<1>3. WireByPlace
  BY <1>1 DEF Init, WireByPlace, OnWire
<1>4. OutcomeIsTrue
  BY <1>1 DEF Init, OutcomeIsTrue
<1> QED
  BY <1>2, <1>3, <1>4

(* The head of the strand is the only place of the message it carries.     *)
LEMMA HeadIsOnlyPlace ==
    ASSUME PlaceInv, strand # <<>>, NEW m \in Messages, Carries(Head(strand), m)
    PROVE  /\ \A x \in inflight : x.msg # m
           /\ \A i \in 1..Len(Tail(strand)) : ~Carries(Tail(strand)[i], m)
           /\ status[m] = "pending"
<1>1. strand \in Seq(Task) /\ 1 \in 1..Len(strand) /\ Carries(strand[1], m)
  BY TailIndexed DEF PlaceInv, FrameInv, TypeOK
<1>2. \A i \in 1..Len(Tail(strand)) : i + 1 # 1
  BY <1>1, TailIndexed
<1> QED
  BY <1>1, <1>2, TailAddsNone DEF PlaceInv, OnePlace

LEMMA StepOnePlace == PlaceInv /\ [Next]_vars => OnePlace'
<1> SUFFICES ASSUME PlaceInv, [Next]_vars PROVE OnePlace'
  OBVIOUS
<1> USE DEF connVars, queryVars, timerVars, writeVars
<1>0. /\ TypeOK /\ FrameInv /\ OneWriter /\ OnePlace
      /\ strand \in Seq(Task) /\ Len(strand) \in Nat
  BY LenProperties DEF PlaceInv, FrameInv, TypeOK
<1>1. CASE OtherStep
  <2>1. PICK d \in {0, 1} : Shifted(d)
    BY <1>1 DEF OtherStep
  <2>2. ASSUME NEW m \in Messages, NEW i \in 1..Len(strand'), Carries(strand'[i], m)
        PROVE  i + d \in 1..Len(strand) /\ Carries(strand[i + d], m)
    BY <2>1, <2>2 DEF Shifted, Carries
  <2>3. ASSUME NEW x \in inflight PROVE x.msg \in Messages
    BY <1>0 DEF TypeOK, Transfer
  <2>4. ASSUME NEW m \in Messages, NEW i \in 1..Len(strand'), NEW j \in 1..Len(strand'),
               Carries(strand'[i], m), Carries(strand'[j], m)
        PROVE  i = j
    <3>1. i + d = j + d
      BY <1>0, <2>2, <2>4 DEF OnePlace
    <3> QED
      BY <3>1
  <2>5. \A x \in inflight : \A i \in 1..Len(strand') : ~Carries(strand'[i], x.msg)
    BY <1>0, <2>2, <2>3 DEF OnePlace
  <2>6. \A m \in Messages : \A i \in 1..Len(strand') :
            Carries(strand'[i], m) => status[m] = "pending"
    BY <1>0, <2>2 DEF OnePlace
  <2> QED
    BY <1>0, <1>1, <2>4, <2>5, <2>6 DEF OnePlace, OtherStep, Carries
<1>2. ASSUME NEW w \in Messages, ExecuteRepost(w) PROVE OnePlace'
  <2> DEFINE old(i) == IF i = Len(strand) THEN 1 ELSE i + 1
  <2>1. /\ Len(strand') = Len(strand)
        /\ \A i \in 1..Len(strand') : old(i) \in 1..Len(strand) /\ strand'[i] = strand[old(i)]
    <3>1. /\ Len(strand) \in Nat \ {0} /\ Len(strand') = Len(strand)
          /\ strand[1] = WriteTask(w) /\ strand'[Len(strand)] = WriteTask(w)
          /\ \A i \in 1..(Len(strand) - 1) : strand'[i] = strand[i + 1]
      BY <1>0, <1>2, RepostMoves
    <3> QED
      BY <3>1
  <2>2. \A i, j \in 1..Len(strand') : old(i) = old(j) => i = j
    BY <1>0, <2>1
  <2>3. inflight' = inflight /\ status' = status
    BY <1>2 DEF ExecuteRepost
  <2> HIDE DEF old
  <2> QED
    BY <1>0, <2>1, <2>2, <2>3 DEF OnePlace, Carries
<1>3. ASSUME NEW w \in Messages, ExecuteWrite(w) PROVE OnePlace'
  <2>1. strand # <<>> /\ Carries(Head(strand), w)
    BY <1>3 DEF ExecuteWrite, WriteTask, Carries
  <2>2. inflight' = {[msg |-> w, parts |-> 0]} /\ status' = status /\ strand' = Tail(strand)
    BY <1>0, <1>3 DEF ExecuteWrite, OneWriter
  <2>3. \A i \in 1..Len(strand') : ~Carries(strand'[i], w)
    BY <2>1, <2>2, HeadIsOnlyPlace
  <2>4. status[w] = "pending"
    BY <2>1, HeadIsOnlyPlace
  <2>5. \A i \in 1..Len(strand') : i + 1 \in 1..Len(strand) /\ strand[i + 1] = strand'[i]
    BY <1>0, <2>1, <2>2, TailAddsNone
  <2>6. \A i, j \in 1..Len(strand') : i + 1 = j + 1 => i = j
    OBVIOUS
  <2> QED
    BY <1>0, <2>2, <2>3, <2>4, <2>5, <2>6 DEF OnePlace, Carries
<1>4. CASE ExecuteSent
  <2> DEFINE h == Head(strand).msg
  <2>1. strand # <<>> /\ strand' = Tail(strand) /\ inflight' = inflight
    BY <1>4 DEF ExecuteSent
  <2>2. Head(strand) \in Task /\ Head(strand).op = "sent"
    BY <1>0, <1>4, TailIndexed DEF ExecuteSent
  <2>3. h \in Messages /\ Carries(Head(strand), h)
    BY <2>2 DEF Task, Carries
  <2>4. /\ \A x \in inflight : x.msg # h
        /\ \A i \in 1..Len(strand') : ~Carries(strand'[i], h)
    BY <2>1, <2>3, HeadIsOnlyPlace
  <2>5. \A m \in Messages : m # h => status'[m] = status[m]
    BY <1>0, <1>4 DEF ExecuteSent, TypeOK
  <2>6. \A i \in 1..Len(strand') : i + 1 \in 1..Len(strand) /\ strand[i + 1] = strand'[i]
    BY <1>0, <2>1, TailAddsNone
  <2>7. \A i, j \in 1..Len(strand') : i + 1 = j + 1 => i = j
    OBVIOUS
  <2>8. \A x \in inflight : x.msg \in Messages
    BY <1>0 DEF TypeOK, Transfer
  <2> HIDE DEF h
  <2> QED
    BY <1>0, <2>1, <2>4, <2>5, <2>6, <2>7, <2>8 DEF OnePlace, Carries
<1>5. ASSUME NEW w \in Messages, Write(w) PROVE OnePlace'
  <2>1. /\ Len(strand') = Len(strand) + 1
        /\ strand'[Len(strand) + 1] = WriteTask(w)
        /\ \A i \in 1..Len(strand) : strand'[i] = strand[i]
    <3>1. WriteTask(w) \in Task
      BY DEF Task, WriteTask
    <3> QED
      BY <1>0, <1>5, <3>1, AppendIndexed DEF Write
  <2>2. /\ inflight' = inflight
        /\ status[w] = "new" /\ status'[w] = "pending"
        /\ \A m \in Messages : m # w => status'[m] = status[m]
    BY <1>0, <1>5 DEF Write, TypeOK
  <2>3. \A i \in 1..Len(strand) : ~Carries(strand[i], w)
    BY <1>0, <2>2 DEF OnePlace
  <2>4. \A m \in Messages : Carries(WriteTask(w), m) <=> m = w
    BY DEF Carries, WriteTask
  <2>5. \A x \in inflight : x.msg \in Messages /\ x.msg # w
    BY <1>0, <2>2 DEF TypeOK, Transfer, OnePlace
  <2>6. \A i \in 1..Len(strand') : i = Len(strand) + 1 \/ i \in 1..Len(strand)
    BY <1>0, <2>1
  <2> QED
    BY <1>0, <2>1, <2>2, <2>3, <2>4, <2>5, <2>6 DEF OnePlace, Carries
<1>6. ASSUME NEW x \in inflight, Transmit(x) PROVE OnePlace'
  <2>1. inflight = {x} /\ inflight' = {[x EXCEPT !.parts = @ + 1]}
    BY <1>0, <1>6 DEF Transmit, OneWriter
  <2>2. [x EXCEPT !.parts = @ + 1].msg = x.msg
    BY <1>0 DEF TypeOK, Transfer
  <2>3. strand' = strand /\ status' = status
    BY <1>6 DEF Transmit
  <2> QED
    BY <1>0, <2>1, <2>2, <2>3 DEF OnePlace, Carries
<1>7. ASSUME NEW x \in inflight, WriteCompletes(x) PROVE OnePlace'
  <2> DEFINE t == SentTask(x.msg, x.parts = 2)
  <2>1. inflight' = {} /\ status' = status
    BY <1>0, <1>7 DEF WriteCompletes, OneWriter
  <2>2. t \in Task /\ x.msg \in Messages
    BY <1>0 DEF TypeOK, Transfer, Task, SentTask
  <2>3. /\ Len(strand') = Len(strand) + 1
        /\ strand'[Len(strand) + 1] = t
        /\ \A i \in 1..Len(strand) : strand'[i] = strand[i]
    BY <1>0, <1>7, <2>2, AppendIndexed DEF WriteCompletes
  <2>4. \A m \in Messages : Carries(t, m) <=> m = x.msg
    BY DEF Carries, SentTask
  <2>5. \A i \in 1..Len(strand) : ~Carries(strand[i], x.msg)
    BY <1>0 DEF OnePlace
  <2>6. status[x.msg] = "pending"
    BY <1>0 DEF OnePlace
  <2>7. \A i \in 1..Len(strand') : i = Len(strand) + 1 \/ i \in 1..Len(strand)
    BY <1>0, <2>3
  <2> HIDE DEF t
  <2> QED
    BY <1>0, <2>1, <2>2, <2>3, <2>4, <2>5, <2>6, <2>7 DEF OnePlace, Carries
<1> QED
  BY <1>0, <1>1, <1>2, <1>3, <1>4, <1>5, <1>6, <1>7, StepKinds

(* No body without its header.                                             *)
LEMMA NoHeaderNoBody ==
    ASSUME TypeOK, Framed, NEW m \in Messages, ~OnWire(Header(m))
    PROVE  ~OnWire(Body(m))
<1> SUFFICES ASSUME NEW i \in 1..Len(wire), wire[i] = Body(m) PROVE FALSE
  BY DEF OnWire
<1>1. i > 1 /\ wire[i - 1] = Header(m)
  BY DEF Framed, Body
<1>2. i - 1 \in 1..Len(wire)
  BY <1>1, LenProperties DEF TypeOK
<1> QED
  BY <1>1, <1>2 DEF OnWire

(* What a transmission adds to the wire.                                   *)
LEMMA TransmitAdds ==
    ASSUME FrameInv, NEW x \in inflight, Transmit(x), NEW p
    PROVE  OnWire(p)' <=> \/ OnWire(p)
                          \/ x.parts = 0 /\ p = Header(x.msg)
                          \/ x.parts = 1 /\ p = Body(x.msg)
<1>1. /\ Len(wire) \in Nat /\ Len(wire') = Len(wire) + 1
      /\ \A i \in 1..Len(wire) : wire'[i] = wire[i]
      /\ x.parts \in {0, 1}
      /\ x.parts = 0 => wire'[Len(wire) + 1] = Header(x.msg)
      /\ x.parts = 1 => wire'[Len(wire) + 1] = Body(x.msg)
  BY TransmitInPlace
<1>2. /\ Len(wire) + 1 \in 1..Len(wire')
      /\ \A i \in 1..Len(wire) : i \in 1..Len(wire')
      /\ \A i \in 1..Len(wire') : i \in 1..Len(wire) \/ i = Len(wire) + 1
  BY <1>1
<1> QED
  BY <1>1, <1>2 DEF OnWire

LEMMA PartsDiffer ==
    ASSUME NEW m \in Messages, NEW n \in Messages
    PROVE  /\ Header(m) # Body(n)
           /\ Header(m) = Header(n) <=> m = n
           /\ Body(m) = Body(n) <=> m = n
BY DEF Header, Body

(* The steps that put nothing on the wire. *)
LEMMA StepWireQuiet ==
    ASSUME WireInv, [Next]_vars, UNCHANGED wire
    PROVE  WireByPlace' /\ OutcomeIsTrue'
<1> USE DEF connVars, queryVars, timerVars, writeVars
<1>0. /\ TypeOK /\ FrameInv /\ PlaceInv /\ OneWriter /\ OnePlace /\ WireByPlace
      /\ OutcomeIsTrue /\ Framed /\ strand \in Seq(Task) /\ Len(strand) \in Nat
  BY LenProperties DEF WireInv, PlaceInv, FrameInv, TypeOK
<1>w. \A p : OnWire(p)' <=> OnWire(p)
  BY DEF OnWire
<1>o. ASSUME status' = status PROVE OutcomeIsTrue'
  BY <1>0, <1>o DEF OutcomeIsTrue
<1>1. CASE OtherStep
  <2>1. PICK d \in {0, 1} : Shifted(d)
    BY <1>1 DEF OtherStep
  <2>2. \A i \in 1..Len(strand') : strand'[i].op \in {"write", "sent"} =>
            i + d \in 1..Len(strand) /\ strand[i + d] = strand'[i]
    BY <2>1 DEF Shifted
  <2>3. status' = status /\ inflight' = inflight
    BY <1>1 DEF OtherStep
  <2> QED
    BY <1>0, <1>w, <1>o, <2>2, <2>3 DEF WireByPlace, Header, Body
<1>2. ASSUME NEW m \in Messages, ExecuteRepost(m) PROVE WireByPlace' /\ OutcomeIsTrue'
  <2>1. /\ Len(strand) \in Nat \ {0} /\ Len(strand') = Len(strand)
        /\ strand[1] = WriteTask(m) /\ strand'[Len(strand)] = WriteTask(m)
        /\ \A i \in 1..(Len(strand) - 1) : strand'[i] = strand[i + 1]
    BY <1>0, <1>2, RepostMoves
  <2>2. \A i \in 1..Len(strand') : \E j \in 1..Len(strand) : strand'[i] = strand[j]
    <3> TAKE i \in 1..Len(strand')
    <3>1. CASE i = Len(strand)
      BY <2>1, <3>1
    <3>2. CASE i \in 1..(Len(strand) - 1)
      BY <2>1, <3>2
    <3> QED
      BY <2>1, <3>1, <3>2
  <2>3. status' = status /\ inflight' = inflight
    BY <1>2 DEF ExecuteRepost
  <2> QED
    BY <1>0, <1>w, <1>o, <2>2, <2>3 DEF WireByPlace, Header, Body
<1>3. ASSUME NEW m \in Messages, ExecuteWrite(m) PROVE WireByPlace' /\ OutcomeIsTrue'
  <2>1. inflight' = {[msg |-> m, parts |-> 0]} /\ status' = status /\ strand' = Tail(strand)
    BY <1>0, <1>3 DEF ExecuteWrite, OneWriter
  <2>2. \A i \in 1..Len(strand') : i + 1 \in 1..Len(strand) /\ strand[i + 1] = strand'[i]
    BY <1>0, <1>3, <2>1, TailAddsNone DEF ExecuteWrite
  <2>3. ~OnWire(Header(m)) /\ ~OnWire(Body(m))
    <3>1. 1 \in 1..Len(strand) /\ strand[1] = WriteTask(m)
      BY <1>0, <1>3, TailIndexed DEF ExecuteWrite
    <3>2. strand[1].op = "write" /\ strand[1].msg = m
      BY <3>1 DEF WriteTask
    <3>3. ~OnWire(Header(m))
      BY <1>0, <3>1, <3>2 DEF WireByPlace
    <3> QED
      BY <1>0, <3>3, NoHeaderNoBody
  <2> QED
    BY <1>0, <1>w, <1>o, <2>1, <2>2, <2>3 DEF WireByPlace, Header, Body
<1>4. CASE ExecuteSent
  <2> DEFINE h == Head(strand)
  <2>1. /\ strand # <<>> /\ strand' = Tail(strand) /\ inflight' = inflight
        /\ h.op = "sent"
        /\ status' = [status EXCEPT ![h.msg] = IF h.ok THEN "sent" ELSE "failed"]
    BY <1>4 DEF ExecuteSent
  <2>2. h \in Task /\ h = strand[1] /\ 1 \in 1..Len(strand)
    BY <1>0, <2>1, TailIndexed
  <2>3. h.msg \in Messages
    BY <2>1, <2>2 DEF Task
  <2>4. \A i \in 1..Len(strand') : i + 1 \in 1..Len(strand) /\ strand[i + 1] = strand'[i]
    BY <1>0, <2>1, TailAddsNone
  <2>5. OnWire(Body(h.msg)) <=> h.ok
    BY <1>0, <2>1, <2>2 DEF WireByPlace
  <2>6. /\ status'[h.msg] = IF h.ok THEN "sent" ELSE "failed"
        /\ \A m \in Messages : m # h.msg => status'[m] = status[m]
    BY <1>0, <2>1, <2>3 DEF TypeOK
  <2> HIDE DEF h
  <2>7. OutcomeIsTrue'
    <3> SUFFICES ASSUME NEW m \in Messages
                 PROVE  /\ status'[m] = "sent" => OnWire(Body(m))'
                        /\ status'[m] \in {"new", "failed"} => ~OnWire(Body(m))'
      BY DEF OutcomeIsTrue, OnWire, Body
    <3>1. CASE m = h.msg
      BY <1>w, <2>5, <2>6, <3>1
    <3>2. CASE m # h.msg
      BY <1>0, <1>w, <2>6, <3>2 DEF OutcomeIsTrue, OnWire
    <3> QED
      BY <3>1, <3>2
  <2>8. \A m \in Messages : status'[m] = "new" => status[m] = "new"
    BY <2>6
  <2>9. WireByPlace'
    BY <1>0, <1>w, <2>1, <2>4, <2>8 DEF WireByPlace, Header, Body
  <2> QED
    BY <2>7, <2>9
<1>5. ASSUME NEW m \in Messages, Write(m) PROVE WireByPlace' /\ OutcomeIsTrue'
  <2>1. /\ inflight' = inflight
        /\ status[m] = "new" /\ status'[m] = "pending"
        /\ \A n \in Messages : n # m => status'[n] = status[n]
    BY <1>0, <1>5 DEF Write, TypeOK
  <2>2. WriteTask(m) \in Task /\ WriteTask(m).op = "write" /\ WriteTask(m).msg = m
    BY DEF Task, WriteTask
  <2>3. \A i \in 1..Len(strand') :
            \/ i \in 1..Len(strand) /\ strand'[i] = strand[i]
            \/ strand'[i] = WriteTask(m)
    BY <1>0, <1>5, <2>2, AppendIndexed DEF Write
  <2>4. ~OnWire(Header(m))
    BY <1>0, <2>1 DEF WireByPlace
  <2>5. WireByPlace'
    BY <1>0, <1>w, <2>1, <2>2, <2>3, <2>4 DEF WireByPlace, Header, Body
  <2>6. OutcomeIsTrue'
    BY <1>0, <2>1 DEF OutcomeIsTrue
  <2> QED
    BY <2>5, <2>6
<1>6. ASSUME NEW x \in inflight, WriteCompletes(x) PROVE WireByPlace' /\ OutcomeIsTrue'
  <2> DEFINE t == SentTask(x.msg, x.parts = 2)
  <2>1. inflight' = {} /\ status' = status
    BY <1>0, <1>6 DEF WriteCompletes, OneWriter
  <2>2. t \in Task /\ t.op = "sent" /\ t.msg = x.msg /\ t.ok = (x.parts = 2)
    BY <1>0 DEF TypeOK, Transfer, Task, SentTask
  <2>3. \A i \in 1..Len(strand') :
            \/ i \in 1..Len(strand) /\ strand'[i] = strand[i]
            \/ strand'[i] = t
    BY <1>0, <1>6, <2>2, AppendIndexed DEF WriteCompletes
  <2>4. OnWire(Body(x.msg)) <=> x.parts = 2
    BY <1>0 DEF WireByPlace
  <2> HIDE DEF t
  <2> QED
    BY <1>0, <1>w, <1>o, <2>1, <2>2, <2>3, <2>4 DEF WireByPlace, Header, Body
<1>7. ASSUME NEW x \in inflight, Transmit(x) PROVE FALSE
  BY <1>0, <1>7, TransmitInPlace
<1> QED
  BY <1>0, <1>1, <1>2, <1>3, <1>4, <1>5, <1>6, <1>7, StepKinds

LEMMA StepWireTransmit ==
    ASSUME WireInv, NEW x \in inflight, Transmit(x)
    PROVE  WireByPlace' /\ OutcomeIsTrue'
<1> USE DEF connVars, queryVars, timerVars, writeVars
<1>0. /\ TypeOK /\ FrameInv /\ OneWriter /\ OnePlace /\ WireByPlace
      /\ OutcomeIsTrue /\ Framed /\ strand \in Seq(Task)
  BY DEF WireInv, PlaceInv, FrameInv, TypeOK
<1>1. /\ inflight = {x} /\ x.parts \in {0, 1} /\ x.msg \in Messages
      /\ strand' = strand /\ status' = status /\ status[x.msg] = "pending"
  BY <1>0, TransmitInPlace DEF Transmit, OnePlace
<1>2. inflight' = {[msg |-> x.msg, parts |-> x.parts + 1]}
  BY <1>0, <1>1 DEF Transmit, TypeOK, Transfer
<1>3. \A m \in Messages : m # x.msg =>
          (OnWire(Header(m))' <=> OnWire(Header(m))) /\ (OnWire(Body(m))' <=> OnWire(Body(m)))
  <2> TAKE m \in Messages
  <2> HAVE m # x.msg
  <2>1. Header(m) # Header(x.msg) /\ Header(m) # Body(x.msg)
        /\ Body(m) # Body(x.msg) /\ Body(m) # Header(x.msg)
    BY <1>1, PartsDiffer
  <2>2. OnWire(Header(m))' <=> OnWire(Header(m))
    <3>1. \A p : p # Header(x.msg) /\ p # Body(x.msg) => (OnWire(p)' <=> OnWire(p))
      BY <1>0, TransmitAdds
    <3> QED
      BY <2>1, <3>1 DEF OnWire, Header
  <2>3. OnWire(Body(m))' <=> OnWire(Body(m))
    <3>1. \A p : p # Header(x.msg) /\ p # Body(x.msg) => (OnWire(p)' <=> OnWire(p))
      BY <1>0, TransmitAdds
    <3> QED
      BY <2>1, <3>1 DEF OnWire, Body
  <2> QED
    BY <2>2, <2>3
<1>4. OnWire(Body(x.msg))' <=> x.parts = 1
  <2>1. ~OnWire(Body(x.msg))
    BY <1>0, <1>1 DEF WireByPlace
  <2>2. Body(x.msg) # Header(x.msg)
    BY <1>1, PartsDiffer
  <2>3. \A p : OnWire(p)' <=> \/ OnWire(p)
                              \/ x.parts = 0 /\ p = Header(x.msg)
                              \/ x.parts = 1 /\ p = Body(x.msg)
    BY <1>0, TransmitAdds
  <2> QED
    BY <2>1, <2>2, <2>3 DEF OnWire, Body
<1>5. \A i \in 1..Len(strand) :
          strand[i].op \in {"write", "sent"} => strand[i].msg \in Messages /\ strand[i].msg # x.msg
  <2>1. \A i \in 1..Len(strand) : strand[i] \in Task
    BY <1>0, ElementOfSeq
  <2> QED
    BY <1>0, <2>1 DEF OnePlace, Carries, Task
<1>6. OutcomeIsTrue'
  <2> SUFFICES ASSUME NEW m \in Messages
               PROVE  /\ status[m] = "sent" => OnWire(Body(m))'
                      /\ status[m] \in {"new", "failed"} => ~OnWire(Body(m))'
    BY <1>1 DEF OutcomeIsTrue, OnWire, Body
  <2>1. CASE m = x.msg
    BY <1>1, <2>1
  <2>2. CASE m # x.msg
    BY <1>0, <1>3, <2>2 DEF OutcomeIsTrue, OnWire
  <2> QED
    BY <2>1, <2>2
<1>7. WireByPlace'
  <2>1. \A m \in Messages : status'[m] = "new" => ~OnWire(Header(m))'
    BY <1>0, <1>1, <1>3 DEF WireByPlace
  <2>2. \A i \in 1..Len(strand) :
            strand[i].op = "write" => ~OnWire(Header(strand[i].msg))'
    BY <1>0, <1>1, <1>3, <1>5 DEF WireByPlace, Header
  <2>3. \A i \in 1..Len(strand) :
            strand[i].op = "sent" => (OnWire(Body(strand[i].msg))' <=> strand[i].ok)
    BY <1>0, <1>1, <1>3, <1>5 DEF WireByPlace, Body
  <2>4. \A y \in inflight' : y.msg = x.msg /\ y.parts # 0 /\ (y.parts = 2 <=> x.parts = 1)
    BY <1>1, <1>2
  <2> QED
    BY <1>1, <1>4, <2>1, <2>2, <2>3, <2>4 DEF WireByPlace, OnWire, Header, Body
<1> QED
  BY <1>6, <1>7

LEMMA StepWireInv == WireInv /\ [Next]_vars => WireInv'
<1> SUFFICES ASSUME WireInv, [Next]_vars PROVE WireInv'
  OBVIOUS
<1>1. PlaceInv'
  BY StepType, StepOneWriter, StepHalfFrame, StepFramed, StepOnePlace
  DEF WireInv, PlaceInv, FrameInv
<1>2. (\E x \in inflight : Transmit(x)) \/ UNCHANGED wire
  BY QuietSteps DEF ExecuteWrite, WriteCompletes, ExecuteClose, PeerGoesDown, writeVars
<1>3. WireByPlace' /\ OutcomeIsTrue'
  BY <1>2, StepWireQuiet, StepWireTransmit
<1> QED
  BY <1>1, <1>3 DEF WireInv

LEMMA WireInvariant == Spec => []WireInv
<1>1. Init => WireInv
  BY InitType, InitFrame, InitPlace DEF WireInv, PlaceInv, FrameInv
<1> QED
  BY <1>1, StepWireInv, PTL DEF Spec

(* What handle_sent concludes of a message is what happened to it: sent    *)
(* exactly when its whole frame was taken by the connection.               *)
THEOREM OutcomeAlwaysTrue == Spec => []OutcomeIsTrue
<1>1. WireInv => OutcomeIsTrue
  BY DEF WireInv
<1> QED
  BY <1>1, WireInvariant, PTL

-----------------------------------------------------------------------------
(* No message is lost: what has not ended is somewhere.                    *)

CarriedIn(s, m) == \E i \in 1..Len(s) : Carries(s[i], m)

NotLost ==
    \A m \in Messages : status[m] = "pending" =>
        CarriedIn(strand, m) \/ \E x \in inflight : x.msg = m

LEMMA AppendCarries ==
    ASSUME NEW s \in Seq(Task), NEW t \in Task, NEW m
    PROVE  /\ Append(s, t) \in Seq(Task)
           /\ CarriedIn(s, m) \/ Carries(t, m) => CarriedIn(Append(s, t), m)
<1> DEFINE a == Append(s, t)
<1>1. /\ a \in Seq(Task) /\ Len(a) = Len(s) + 1 /\ Len(s) \in Nat
      /\ \A i \in 1..Len(s) : a[i] = s[i]
      /\ a[Len(s) + 1] = t
  BY AppendIndexed
<1> HIDE DEF a
<1>2. /\ Len(s) + 1 \in 1..Len(a)
      /\ \A i \in 1..Len(s) : i \in 1..Len(a)
  BY <1>1
<1>3. CarriedIn(s, m) \/ Carries(t, m) => CarriedIn(a, m)
  BY <1>1, <1>2 DEF CarriedIn
<1> QED
  BY <1>1, <1>3 DEF a

LEMMA TailCarries ==
    ASSUME NEW s \in Seq(Task), s # <<>>, NEW m, CarriedIn(s, m)
    PROVE  Carries(Head(s), m) \/ CarriedIn(Tail(s), m)
<1>1. PICK i \in 1..Len(s) : Carries(s[i], m)
  BY DEF CarriedIn
<1>2. CASE i = 1
  BY <1>1, <1>2, TailIndexed
<1>3. CASE i # 1
  <2>1. i - 1 \in 1..Len(Tail(s)) /\ Tail(s)[i - 1] = s[i]
    BY <1>3, TailIndexed
  <2> QED
    BY <1>1, <2>1 DEF CarriedIn
<1> QED
  BY <1>2, <1>3

(* A task without a message leaves, or joins, the queue. *)
LEMMA QuietNotLost ==
    ASSUME TypeOK, NotLost, UNCHANGED <<status, inflight>>,
           \/ strand' = strand
           \/ \E t \in Task : strand' = Append(strand, t)
           \/ \E t, u \in Task : strand' = Append(Append(strand, t), u)
           \/ /\ strand # <<>> /\ Head(strand).op \notin {"write", "sent"}
              /\ \/ strand' = Tail(strand)
                 \/ \E t \in Task : strand' = Append(Tail(strand), t)
    PROVE  NotLost'
<1>1. strand \in Seq(Task)
  BY DEF TypeOK
<1>2. ASSUME NEW m \in Messages, CarriedIn(strand, m) PROVE CarriedIn(strand', m)
  <2>1. CASE \E t \in Task : strand' = Append(strand, t)
    BY <1>1, <1>2, <2>1, AppendCarries
  <2>2. CASE \E t, u \in Task : strand' = Append(Append(strand, t), u)
    BY <1>1, <1>2, <2>2, AppendCarries
  <2>3. CASE strand # <<>> /\ Head(strand).op \notin {"write", "sent"}
    <3>1. Tail(strand) \in Seq(Task) /\ CarriedIn(Tail(strand), m)
      BY <1>1, <1>2, <2>3, TailIndexed, TailCarries DEF Carries
    <3> QED
      BY <1>2, <2>1, <2>2, <3>1, AppendCarries
  <2> QED
    BY <1>2, <2>1, <2>2, <2>3
<1> QED
  BY <1>2 DEF NotLost

LEMMA StepNotLost == TypeOK /\ NotLost /\ [Next]_vars => NotLost'
<1> SUFFICES ASSUME TypeOK, NotLost, [Next]_vars PROVE NotLost'
  OBVIOUS
<1> USE DEF connVars, queryVars, timerVars, writeVars
<1>0. strand \in Seq(Task) /\ OpenTask \in Task /\ CloseTask \in Task
  BY DEF TypeOK, Task, OpenTask, CloseTask
<1>1. CASE Open
  BY <1>0, <1>1, QuietNotLost DEF Open
<1>2. CASE ExecuteOpen \/ ExecuteClose
  BY <1>2, QuietNotLost DEF ExecuteOpen, ExecuteClose, OpenTask, CloseTask
<1>3. CASE ExecuteQuery
  BY <1>0, <1>3, QuietNotLost DEF ExecuteQuery
<1>4. CASE TimerExpires
  BY <1>0, <1>4, QuietNotLost DEF TimerExpires
<1>5. ASSUME NEW id \in StreamIds, ReadStreamId(id) PROVE NotLost'
  <2>1. QueryTask(TRUE) \in Task
    BY DEF Task, QueryTask
  <2> QED
    BY <1>5, <2>1, QuietNotLost DEF ReadStreamId
<1>6. CASE ReadFails
  <2>1. QueryTask(FALSE) \in Task
    BY DEF Task, QueryTask
  <2> QED
    BY <1>6, <2>1, QuietNotLost DEF ReadFails
<1>7. CASE TimerFires \/ TimerGoesOn \/ TimerArms \/ TimePasses \/ RunCallback
           \/ PeerGoesDown \/ UNCHANGED vars
  BY <1>7, QuietNotLost
     DEF TimerFires, TimerGoesOn, TimerArms, TimePasses, RunCallback,
         PeerGoesDown, vars
<1>8. ASSUME NEW w \in Messages, Write(w) PROVE NotLost'
  <2>1. WriteTask(w) \in Task /\ Carries(WriteTask(w), w)
    BY DEF Task, WriteTask, Carries
  <2>2. \A m \in Messages : CarriedIn(strand, m) \/ m = w => CarriedIn(strand', m)
    BY <1>0, <1>8, <2>1, AppendCarries DEF Write
  <2>3. \A m \in Messages : m # w => status'[m] = status[m]
    BY <1>8 DEF Write, TypeOK
  <2> QED
    BY <1>8, <2>2, <2>3 DEF Write, NotLost
<1>9. ASSUME NEW w \in Messages, ExecuteRepost(w) PROVE NotLost'
  <2>1. WriteTask(w) \in Task /\ \A m : Carries(WriteTask(w), m) => m = w
    BY DEF Task, WriteTask, Carries
  <2>2. Carries(WriteTask(w), w)
    BY DEF WriteTask, Carries
  <2>3. ASSUME NEW m \in Messages, CarriedIn(strand, m) PROVE CarriedIn(strand', m)
    <3>1. Tail(strand) \in Seq(Task)
      BY <1>0, <1>9, TailIndexed DEF ExecuteRepost
    <3>2. m = w \/ CarriedIn(Tail(strand), m)
      BY <1>0, <1>9, <2>1, <2>3, TailCarries DEF ExecuteRepost
    <3> QED
      BY <1>9, <2>1, <2>2, <3>1, <3>2, AppendCarries DEF ExecuteRepost
  <2> QED
    BY <1>9, <2>3 DEF ExecuteRepost, NotLost
<1>10. ASSUME NEW w \in Messages, ExecuteWrite(w) PROVE NotLost'
  <2>1. \A m : Carries(WriteTask(w), m) => m = w
    BY DEF WriteTask, Carries
  <2>2. ASSUME NEW m \in Messages, CarriedIn(strand, m)
        PROVE  m = w \/ CarriedIn(strand', m)
    BY <1>0, <1>10, <2>1, <2>2, TailCarries DEF ExecuteWrite
  <2>3. inflight' = inflight \cup {[msg |-> w, parts |-> 0]} /\ status' = status
    BY <1>10 DEF ExecuteWrite
  <2>4. [msg |-> w, parts |-> 0] \in inflight'
        /\ \A y \in inflight : y \in inflight'
    BY <2>3
  <2>5. \E y \in inflight' : y.msg = w
    <3>1. [msg |-> w, parts |-> 0].msg = w
      OBVIOUS
    <3> QED
      BY <2>4, <3>1
  <2>6. \A m \in Messages : status'[m] = "pending" =>
            CarriedIn(strand, m) \/ \E y \in inflight : y.msg = m
    BY <2>3 DEF NotLost
  <2> QED
    BY <2>2, <2>4, <2>5, <2>6 DEF NotLost
<1>11. CASE ExecuteSent
  <2> DEFINE h == Head(strand).msg
  <2>1. strand # <<>> /\ strand' = Tail(strand) /\ inflight' = inflight
    BY <1>11 DEF ExecuteSent
  <2>2. ASSUME NEW m \in Messages, CarriedIn(strand, m)
        PROVE  m = h \/ CarriedIn(strand', m)
    BY <1>0, <2>1, <2>2, TailCarries DEF Carries
  <2>3. /\ h \in Messages => status'[h] \in {"sent", "failed"}
        /\ \A m \in Messages : m # h => status'[m] = status[m]
    BY <1>11 DEF ExecuteSent, TypeOK
  <2> HIDE DEF h
  <2> QED
    BY <2>1, <2>2, <2>3 DEF NotLost
<1>12. ASSUME NEW x \in inflight, Transmit(x) PROVE NotLost'
  <2>1. [x EXCEPT !.parts = @ + 1].msg = x.msg
    BY DEF TypeOK, Transfer
  <2>2. /\ strand' = strand /\ status' = status
        /\ inflight' = (inflight \ {x}) \cup {[x EXCEPT !.parts = @ + 1]}
    BY <1>12 DEF Transmit
  <2>3. ASSUME NEW y \in inflight PROVE \E z \in inflight' : z.msg = y.msg
    <3>1. CASE y = x
      BY <2>1, <2>2, <3>1
    <3>2. CASE y # x
      BY <2>2, <3>2
    <3> QED
      BY <3>1, <3>2
  <2>4. \A m : CarriedIn(strand, m) => CarriedIn(strand', m)
    BY <2>2
  <2> SUFFICES ASSUME NEW m \in Messages, status'[m] = "pending"
               PROVE  CarriedIn(strand', m) \/ \E y \in inflight' : y.msg = m
    BY DEF NotLost
  <2>5. CarriedIn(strand, m) \/ \E y \in inflight : y.msg = m
    BY <2>2 DEF NotLost
  <2>6. CASE \E y \in inflight : y.msg = m
    <3>1. PICK y \in inflight : y.msg = m
      BY <2>6
    <3> QED
      BY <2>3, <3>1
  <2> QED
    BY <2>4, <2>5, <2>6
<1>13. ASSUME NEW x \in inflight, WriteCompletes(x) PROVE NotLost'
  <2> DEFINE t == SentTask(x.msg, x.parts = 2)
  <2>1. t \in Task /\ Carries(t, x.msg)
    BY DEF TypeOK, Transfer, Task, SentTask, Carries
  <2>2. /\ strand' = Append(strand, t) /\ status' = status
        /\ inflight' = inflight \ {x}
    BY <1>13 DEF WriteCompletes
  <2> HIDE DEF t
  <2>3. \A m : CarriedIn(strand, m) \/ m = x.msg => CarriedIn(strand', m)
    BY <1>0, <2>1, <2>2, AppendCarries
  <2> QED
    BY <2>2, <2>3 DEF NotLost
<1> QED
  BY <1>1, <1>2, <1>3, <1>4, <1>5, <1>6, <1>7, <1>8, <1>9, <1>10, <1>11, <1>12, <1>13
  DEF Next, ExecuteStrand, Timer, Completion

(* The places of a message, counted. *)
LEMMA CountPlaces ==
    ASSUME PlaceInv, NotLost, NEW m \in Messages
    PROVE  PlacesOf(m) = IF status[m] = "pending" THEN 1 ELSE 0
<1> DEFINE waits == {i \in 1..Len(strand) : strand[i] = WriteTask(m)}
           writes == {x \in inflight : x.msg = m}
           ends == {i \in 1..Len(strand) :
                       strand[i].op = "sent" /\ strand[i].msg = m}
<1>0. OnePlace /\ OneWriter /\ TypeOK /\ strand \in Seq(Task)
  BY DEF PlaceInv, FrameInv, TypeOK
<1>1. \A i \in 1..Len(strand) : Carries(strand[i], m) <=> i \in waits \/ i \in ends
  <2> SUFFICES ASSUME NEW i \in 1..Len(strand)
               PROVE  Carries(strand[i], m) <=> i \in waits \/ i \in ends
    OBVIOUS
  <2>1. strand[i] \in Task
    BY <1>0, ElementOfSeq
  <2>2. strand[i].op = "write" /\ strand[i].msg = m <=> strand[i] = WriteTask(m)
    BY <2>1 DEF Task, WriteTask
  <2> QED
    BY <2>2 DEF Carries
<1>2. \A i \in 1..Len(strand) : ~(i \in waits /\ i \in ends)
  BY DEF WriteTask
<1>3. PlacesOf(m) = Cardinality(waits) + Cardinality(writes) + Cardinality(ends)
  BY DEF PlacesOf
<1>4. waits \subseteq 1..Len(strand) /\ ends \subseteq 1..Len(strand)
  OBVIOUS
<1>5. \A x \in inflight : x \in writes <=> x.msg = m
  OBVIOUS
<1>6. writes \subseteq inflight
  OBVIOUS
<1> HIDE DEF waits, writes, ends
<1>7. /\ \A i, j \in waits \cup ends : i = j
      /\ waits \cup ends # {} => writes = {} /\ status[m] = "pending"
      /\ writes # {} => waits \cup ends = {} /\ status[m] = "pending"
      /\ \A x, y \in writes : x = y
  <2>1. \A i \in waits \cup ends : i \in 1..Len(strand) /\ Carries(strand[i], m)
    BY <1>1, <1>4
  <2>2. \A i, j \in waits \cup ends : i = j
    BY <1>0, <2>1 DEF OnePlace
  <2>3. \A i \in waits \cup ends : status[m] = "pending"
    BY <1>0, <2>1 DEF OnePlace
  <2>4. \A x \in writes : x \in inflight /\ x.msg = m
    BY <1>5, <1>6
  <2>5. \A x \in writes : status[m] = "pending"
    BY <1>0, <2>4 DEF OnePlace
  <2>6. \A x \in writes, i \in waits \cup ends : FALSE
    BY <1>0, <2>1, <2>4 DEF OnePlace
  <2>7. \A x, y \in writes : x = y
    BY <1>0, <2>4 DEF OneWriter
  <2> QED
    BY <2>2, <2>3, <2>5, <2>6, <2>7
<1>8. Cardinality({}) = 0 /\ \A x : Cardinality({x}) = 1
  BY FS_EmptySet, FS_Singleton
<1>9. CASE status[m] = "pending"
  <2>1. waits \cup ends # {} \/ writes # {}
    BY <1>1, <1>5, <1>9 DEF NotLost, CarriedIn
  <2>2. CASE writes # {}
    <3>1. PICK x : writes = {x}
      BY <1>7, <2>2
    <3>2. waits = {} /\ ends = {}
      BY <1>7, <2>2
    <3>3. Cardinality(waits) = 0 /\ Cardinality(writes) = 1 /\ Cardinality(ends) = 0
      BY <1>8, <3>1, <3>2
    <3>4. PlacesOf(m) = 1
      BY <1>3, <3>3
    <3> QED
      BY <1>9, <3>4
  <2>3. CASE waits # {}
    <3>1. PICK i : waits = {i}
      BY <1>7, <2>3
    <3>2. writes = {} /\ ends = {}
      BY <1>2, <1>4, <1>7, <3>1
    <3>3. Cardinality(waits) = 1 /\ Cardinality(writes) = 0 /\ Cardinality(ends) = 0
      BY <1>8, <3>1, <3>2
    <3>4. PlacesOf(m) = 1
      BY <1>3, <3>3
    <3> QED
      BY <1>9, <3>4
  <2>4. CASE ends # {}
    <3>1. PICK i : ends = {i}
      BY <1>7, <2>4
    <3>2. writes = {} /\ waits = {}
      BY <1>2, <1>4, <1>7, <3>1
    <3>3. Cardinality(waits) = 0 /\ Cardinality(writes) = 0 /\ Cardinality(ends) = 1
      BY <1>8, <3>1, <3>2
    <3>4. PlacesOf(m) = 1
      BY <1>3, <3>3
    <3> QED
      BY <1>9, <3>4
  <2> QED
    BY <2>1, <2>2, <2>3, <2>4
<1>10. CASE status[m] # "pending"
  <2>1. waits = {} /\ writes = {} /\ ends = {}
    BY <1>7, <1>10
  <2> QED
    BY <1>3, <1>8, <1>10, <2>1
<1> QED
  BY <1>9, <1>10

(* A message that was accepted and has not ended is in exactly one place,  *)
(* however often it reposts itself and whatever is posted around it        *)
(* (ServerSession.h:104-108).                                              *)
THEOREM EachMessageAlwaysOnce == Spec => []EachMessageOnce
<1>1. Init => NotLost
  BY DEF Init, NotLost
<1>2. Spec => []NotLost
  BY <1>1, StepNotLost, TypeCorrect, PTL DEF Spec
<1>3. WireInv /\ NotLost => EachMessageOnce
  BY CountPlaces DEF WireInv, EachMessageOnce
<1> QED
  BY <1>2, <1>3, WireInvariant, PTL

-----------------------------------------------------------------------------
(* The session implements the channel.                                     *)

offered == {m \in Messages : status[m] # "new"}

LEMMA InitChannel == Init => Channel!Init
BY DEF Init, Channel!Init

LEMMA StepChannel == WireInv /\ [Next]_vars => [Channel!Next]_(Channel!vars)
<1> SUFFICES ASSUME WireInv, [Next]_vars PROVE [Channel!Next]_(Channel!vars)
  OBVIOUS
<1> USE DEF connVars, queryVars, timerVars, writeVars
<1>0. /\ TypeOK /\ FrameInv /\ PlaceInv /\ OnePlace /\ WireByPlace /\ Framed
      /\ strand \in Seq(Task)
  BY DEF WireInv, PlaceInv, FrameInv, TypeOK
<1>1. ASSUME NEW m \in Messages, Write(m) PROVE Channel!Next
  <2>1. offered' = offered \cup {m}
    BY <1>0, <1>1 DEF Write, TypeOK, offered
  <2>2. Channel!Offer(m)
    BY <1>1, <2>1 DEF Write, Channel!Offer, offered
  <2> QED
    BY <2>2 DEF Channel!Next
<1>2. ASSUME NEW x \in inflight, Transmit(x) PROVE Channel!Next
  <2>1. /\ x.msg \in Messages /\ x.parts \in {0, 1} /\ socket = "open"
        /\ status' = status /\ socket' = socket
        /\ wire' = Append(wire, IF x.parts = 0 THEN Header(x.msg) ELSE Body(x.msg))
    BY <1>0, <1>2, TransmitInPlace DEF Transmit
  <2>2. CASE x.parts = 0
    <3>1. x.msg \in offered
      BY <1>0, <2>1 DEF OnePlace, offered
    <3>2. ~Channel!Torn(wire)
      BY <1>0, <1>2, <2>2, TransmitInPlace DEF Channel!Torn
    <3>3. \A i \in 1..Len(wire) : wire[i].msg # x.msg
      <4>1. ~OnWire(Header(x.msg)) /\ ~OnWire(Body(x.msg))
        BY <1>0, <2>2 DEF WireByPlace
      <4>2. \A i \in 1..Len(wire) : wire[i] \in Part
        BY <1>0, ElementOfSeq DEF TypeOK
      <4>3. \A i \in 1..Len(wire) : wire[i] = Header(wire[i].msg) \/ wire[i] = Body(wire[i].msg)
        BY <4>2 DEF Part, Header, Body
      <4> QED
        BY <4>1, <4>3 DEF OnWire
    <3>4. Channel!BeginFrame(x.msg)
      BY <2>1, <2>2, <3>1, <3>2, <3>3
      DEF Channel!BeginFrame, Channel!Header, Header, offered
    <3> QED
      BY <2>1, <3>4 DEF Channel!Next
  <2>3. CASE x.parts = 1
    <3>1. wire # <<>> /\ wire[Len(wire)] = Header(x.msg)
      BY <1>0, <1>2, <2>3, TransmitInPlace
    <3>2. Channel!EndFrame(x.msg)
      BY <2>1, <2>3, <3>1
      DEF Channel!EndFrame, Channel!Header, Channel!Body, Header, Body
    <3> QED
      BY <2>1, <3>2 DEF Channel!Next
  <2> QED
    BY <2>1, <2>2, <2>3
<1>3. CASE ExecuteClose
  <2>1. Channel!Shut
    BY <1>3 DEF ExecuteClose, Channel!Shut
  <2> QED
    BY <2>1 DEF Channel!Next
<1>4. CASE ExecuteSent
  <2> DEFINE h == Head(strand)
  <2>1. strand # <<>> /\ h \in Task /\ h.op = "sent"
    BY <1>0, <1>4, TailIndexed DEF ExecuteSent
  <2>2. h.msg \in Messages /\ Carries(h, h.msg)
    BY <2>1 DEF Task, Carries
  <2>3. status[h.msg] = "pending"
    BY <1>0, <2>1, <2>2, HeadIsOnlyPlace
  <2>4. offered' = offered
    BY <1>0, <1>4, <2>2, <2>3 DEF ExecuteSent, TypeOK, offered
  <2> QED
    BY <1>4, <2>4 DEF ExecuteSent, Channel!vars, offered
<1>5. CASE UNCHANGED <<status, wire, socket>>
  BY <1>5 DEF Channel!vars
<1>6. \/ \E m \in Messages : Write(m)
      \/ \E x \in inflight : Transmit(x)
      \/ ExecuteClose
      \/ ExecuteSent
      \/ UNCHANGED <<status, wire, socket>>
  <2>1. CASE OtherStep
    BY <2>1, QuietSteps
    DEF OtherStep, ExecuteWrite, WriteCompletes, PeerGoesDown
  <2> QED
    BY <1>0, <2>1, StepKinds DEF ExecuteRepost, ExecuteWrite, WriteCompletes
<1> QED
  BY <1>1, <1>2, <1>3, <1>4, <1>5, <1>6

(* A server session implements MessageChannel: whatever is written to it,  *)
(* by any number of threads, goes out as whole frames, each message at most*)
(* once, and nothing goes out after the socket is closed.                  *)
THEOREM SessionImplementsChannel == Spec => ImplementsChannel
<1>1. Init => Channel!Init
  BY InitChannel
<1>2. WireInv /\ [Next]_vars => [Channel!Next]_(Channel!vars)
  BY StepChannel
<1> QED
  BY <1>1, <1>2, WireInvariant, PTL DEF Spec, ImplementsChannel, Channel!Spec
=============================================================================
