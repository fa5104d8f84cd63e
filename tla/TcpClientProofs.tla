--------------------------- MODULE TcpClientProofs ---------------------------
(***************************************************************************)
(* The chain of a subscription, for any number of messages and any order   *)
(* of failures, timers and Stop: at any time the client has one operation, *)
(* or one task on its strand, or its timer, or, once it was stopped,       *)
(* nothing (Chain).  Each says what the client may rely on in it: who      *)
(* reads on a working connection has sent the stream id on it.             *)
(***************************************************************************)
EXTENDS TcpClient, FiniteSetTheorems, SequenceTheorems, TLAPS

(* Nothing but what Stop posted. *)
Rest(s) == \A i \in 1..Len(s) : s[i].do = "Stop"

(* The task n, and besides it nothing but what Stop posted. *)
OneTask(s, n) ==
    /\ n \in 1..Len(s) /\ s[n].do # "Stop"
    /\ \A i \in 1..Len(s) : i # n => s[i].do = "Stop"

(* A task that reads next, if the connection still works. *)
Reading(t) == t.do \in {"ReadData", "header", "body"} \/ (t.do = "send" /\ t.ok)

AtOperation(op) ==
    /\ pending = {op} /\ timer = "off" /\ Rest(strand)
    /\ op \in {"header", "body"} /\ linked => subscribed

AtTask(n) ==
    /\ pending = {} /\ timer = "off" /\ OneTask(strand, n)
    /\ Reading(strand[n]) /\ linked => subscribed
    /\ strand[n].do = "body" /\ strand[n].ok => read \in 1..MaxMessages

AtTimer == pending = {} /\ timer # "off" /\ Rest(strand)

Ended == pending = {} /\ timer = "off" /\ Rest(strand) /\ stop # "no"

Chain ==
    \/ \E op \in Operations : AtOperation(op)
    \/ \E n \in 1..Len(strand) : AtTask(n)
    \/ AtTimer
    \/ Ended

NoStop(s) == \A i \in 1..Len(s) : s[i].do # "Stop"

(* Only a call of Stop stops the client. *)
StopInv == stop # "posted" => ~done /\ NoStop(strand)

ChainInv == TypeOK /\ Chain /\ StopInv

-----------------------------------------------------------------------------
(* Tasks and strands.                                                      *)

LEMMA TaskFields ==
    /\ \A x \in {"Connect", "ReadData", "Stop"} :
           Start(x) \in Task /\ Start(x).do = x
    /\ \A op \in Operations, b \in BOOLEAN :
           Handler(op, b) \in Task /\ Handler(op, b).do = op /\ Handler(op, b).ok = b
    /\ \A t \in Task : t.do \in {"Connect", "ReadData", "Stop"} \cup Operations
BY DEF Start, Handler, Task, Operations

LEMMA HeadAndTail ==
    ASSUME NEW s \in Seq(Task), s # <<>>
    PROVE  /\ Head(s) = s[1] /\ 1 \in 1..Len(s) /\ Head(s) \in Task
           /\ Tail(s) \in Seq(Task) /\ Len(Tail(s)) = Len(s) - 1
           /\ \A i \in 1..Len(Tail(s)) : i + 1 \in 1..Len(s) /\ Tail(s)[i] = s[i + 1]
OBVIOUS

LEMMA Appended ==
    ASSUME NEW s \in Seq(Task), NEW t \in Task
    PROVE  /\ Append(s, t) \in Seq(Task) /\ Len(Append(s, t)) = Len(s) + 1
           /\ Append(s, t)[Len(s) + 1] = t
           /\ \A i \in 1..Len(s) : Append(s, t)[i] = s[i]
           /\ \A i \in 1..Len(Append(s, t)) : i \in 1..Len(s) \/ i = Len(s) + 1
OBVIOUS

LEMMA AppendTask ==
    ASSUME NEW s \in Seq(Task), NEW t \in Task, t.do # "Stop", Rest(s)
    PROVE  OneTask(Append(s, t), Len(s) + 1)
<1> DEFINE a == Append(s, t)
<1>1. /\ Len(a) = Len(s) + 1 /\ a[Len(s) + 1] = t
      /\ \A i \in 1..Len(s) : a[i] = s[i]
      /\ \A i \in 1..Len(a) : i \in 1..Len(s) \/ i = Len(s) + 1
    BY Appended
<1>2. Len(s) + 1 \in 1..Len(a)
    BY <1>1
<1> HIDE DEF a
<1>3. OneTask(a, Len(s) + 1)
    BY <1>1, <1>2 DEF OneTask, Rest
<1> QED BY <1>3 DEF a

LEMMA AppendStop ==
    ASSUME NEW s \in Seq(Task)
    PROVE  /\ Rest(s) => Rest(Append(s, Start("Stop")))
           /\ \A n \in 1..Len(s) : OneTask(s, n) => OneTask(Append(s, Start("Stop")), n)
<1> DEFINE t == Start("Stop")
           a == Append(s, t)
<1>1. t \in Task /\ t.do = "Stop"
    BY TaskFields
<1> HIDE DEF t
<1>2. /\ Len(a) = Len(s) + 1 /\ a[Len(s) + 1] = t
      /\ \A i \in 1..Len(s) : a[i] = s[i]
      /\ \A i \in 1..Len(a) : i \in 1..Len(s) \/ i = Len(s) + 1
      /\ \A i \in 1..Len(s) : i \in 1..Len(a)
    BY <1>1, Appended
<1> HIDE DEF a
<1>3. Rest(s) => Rest(a)
    BY <1>1, <1>2 DEF Rest
<1>4. ASSUME NEW n \in 1..Len(s), OneTask(s, n) PROVE OneTask(a, n)
    BY <1>1, <1>2, <1>4 DEF OneTask
<1> QED BY <1>3, <1>4 DEF a, t

LEMMA TailOfTask ==
    ASSUME NEW s \in Seq(Task), s # <<>>, Head(s).do # "Stop",
           NEW n \in 1..Len(s), OneTask(s, n)
    PROVE  n = 1 /\ Rest(Tail(s))
<1> DEFINE a == Tail(s)
<1>1. /\ Head(s) = s[1] /\ 1 \in 1..Len(s)
      /\ \A i \in 1..Len(a) : i + 1 \in 1..Len(s) /\ a[i] = s[i + 1]
    BY HeadAndTail
<1>2. n = 1
    BY <1>1 DEF OneTask
<1>3. Len(a) \in Nat
    BY HeadAndTail
<1> HIDE DEF a
<1>4. ASSUME NEW i \in 1..Len(a) PROVE a[i].do = "Stop"
    <2>1. i + 1 \in 1..Len(s) /\ i + 1 # 1
        BY <1>1, <1>3
    <2> QED BY <1>1, <1>2, <2>1 DEF OneTask
<1> QED BY <1>2, <1>4 DEF Rest, a

LEMMA TailOfStop ==
    ASSUME NEW s \in Seq(Task), s # <<>>, Head(s).do = "Stop"
    PROVE  /\ Rest(s) => Rest(Tail(s))
           /\ \A n \in 1..Len(s) : OneTask(s, n) =>
                  \E m \in 1..Len(Tail(s)) : OneTask(Tail(s), m) /\ Tail(s)[m] = s[n]
<1> DEFINE a == Tail(s)
<1>1. /\ Head(s) = s[1] /\ 1 \in 1..Len(s) /\ Len(a) = Len(s) - 1
      /\ \A i \in 1..Len(a) : i + 1 \in 1..Len(s) /\ a[i] = s[i + 1]
    BY HeadAndTail
<1>2. Len(s) \in Nat
    OBVIOUS
<1> HIDE DEF a
<1>3. Rest(s) => Rest(a)
    BY <1>1 DEF Rest
<1>4. ASSUME NEW n \in 1..Len(s), OneTask(s, n)
      PROVE  \E m \in 1..Len(a) : OneTask(a, m) /\ a[m] = s[n]
    <2> DEFINE m == n - 1
    <2>1. n # 1
        BY <1>1, <1>4 DEF OneTask
    <2>2. m \in 1..Len(a) /\ m + 1 = n
        BY <1>1, <1>2, <2>1
    <2>3. a[m] = s[n]
        BY <1>1, <2>2
    <2>4. ASSUME NEW i \in 1..Len(a), i # m PROVE a[i].do = "Stop"
        <3>1. i + 1 \in 1..Len(s) /\ i + 1 # n
            BY <1>1, <1>2, <2>2, <2>4
        <3> QED BY <1>1, <1>4, <3>1 DEF OneTask
    <2> HIDE DEF m
    <2>5. OneTask(a, m)
        BY <1>4, <2>2, <2>3, <2>4 DEF OneTask
    <2> QED BY <2>2, <2>3, <2>5
<1> QED BY <1>3, <1>4 DEF a

LEMMA NoStopKept ==
    ASSUME NEW s \in Seq(Task), NoStop(s)
    PROVE  /\ s # <<>> => NoStop(Tail(s)) /\ Head(s).do # "Stop"
           /\ \A t \in Task : t.do # "Stop" => NoStop(Append(s, t))
<1>1. ASSUME s # <<>> PROVE NoStop(Tail(s)) /\ Head(s).do # "Stop"
    BY <1>1, HeadAndTail DEF NoStop
<1>2. ASSUME NEW t \in Task, t.do # "Stop" PROVE NoStop(Append(s, t))
    <2> DEFINE a == Append(s, t)
    <2>1. /\ a[Len(s) + 1] = t
          /\ \A i \in 1..Len(s) : a[i] = s[i]
          /\ \A i \in 1..Len(a) : i \in 1..Len(s) \/ i = Len(s) + 1
        BY Appended
    <2> HIDE DEF a
    <2>2. NoStop(a)
        BY <1>2, <2>1 DEF NoStop
    <2> QED BY <2>2 DEF a
<1> QED BY <1>1, <1>2

-----------------------------------------------------------------------------
(* Where the chain is when a task or an operation is at hand, and where it *)
(* goes.                                                                   *)

LEMMA HeadTask ==
    ASSUME ChainInv, strand # <<>>, Head(strand).do # "Stop"
    PROVE  /\ AtTask(1) /\ Head(strand) = strand[1]
           /\ Tail(strand) \in Seq(Task) /\ Rest(Tail(strand))
<1>1. strand \in Seq(Task)
    BY DEF ChainInv, TypeOK
<1>2. Head(strand) = strand[1] /\ 1 \in 1..Len(strand) /\ Tail(strand) \in Seq(Task)
    BY <1>1, HeadAndTail
<1>3. ~Rest(strand)
    BY <1>2 DEF Rest
<1>4. PICK n \in 1..Len(strand) : AtTask(n)
    BY <1>3 DEF ChainInv, Chain, AtOperation, AtTimer, Ended
<1>5. n = 1 /\ Rest(Tail(strand))
    BY <1>1, <1>4, TailOfTask DEF AtTask
<1> QED BY <1>2, <1>4, <1>5

LEMMA OperationPending ==
    ASSUME ChainInv, NEW op \in pending
    PROVE  AtOperation(op) /\ op \in Operations /\ pending \ {op} = {}
<1>1. pending # {}
    OBVIOUS
<1>2. PICK o \in Operations : AtOperation(o)
    BY <1>1 DEF ChainInv, Chain, AtTask, AtTimer, Ended
<1>3. op = o
    BY <1>2 DEF AtOperation
<1> QED BY <1>2, <1>3 DEF AtOperation

LEMMA TimerRuns ==
    ASSUME ChainInv, timer # "off"
    PROVE  AtTimer
BY DEF ChainInv, Chain, AtOperation, AtTask, Ended

LEMMA BecomesTask ==
    ASSUME NEW s \in Seq(Task), Rest(s), NEW t \in Task, t.do # "Stop",
           strand' = Append(s, t), pending' = {}, timer' = "off",
           Reading(t) /\ linked' => subscribed',
           t.do = "body" /\ t.ok => read' \in 1..MaxMessages
    PROVE  Chain'
<1> DEFINE n == Len(s) + 1
<1>1. OneTask(strand', n) /\ strand'[n] = t
    BY AppendTask, Appended
<1> HIDE DEF n
<1>2. n \in 1..Len(strand')
    BY <1>1 DEF OneTask
<1>3. AtTask(n)'
    BY <1>1 DEF AtTask, Reading
<1> QED BY <1>2, <1>3 DEF Chain

LEMMA BecomesOperation ==
    ASSUME NEW op \in Operations, pending' = {op}, timer' = "off", Rest(strand'),
           op \in {"header", "body"} /\ linked' => subscribed'
    PROVE  Chain'
BY DEF Chain, AtOperation

(* The chain stays where it is. *)
LEMMA ChainStays ==
    ASSUME Chain, UNCHANGED <<pending, strand, stop, read>>,
           linked' => linked /\ subscribed' = subscribed,
           timer' = timer \/ (timer # "off" /\ timer' # "off")
    PROVE  Chain'
<1>1. CASE \E op \in Operations : AtOperation(op)
    <2>1. PICK op \in Operations : AtOperation(op)
        BY <1>1
    <2>2. AtOperation(op)'
        BY <2>1 DEF AtOperation
    <2> QED BY <2>2 DEF Chain
<1>2. CASE \E n \in 1..Len(strand) : AtTask(n)
    <2>1. PICK n \in 1..Len(strand) : AtTask(n)
        BY <1>2
    <2>2. AtTask(n)'
        BY <2>1 DEF AtTask
    <2>3. n \in 1..Len(strand')
        OBVIOUS
    <2> QED BY <2>2, <2>3 DEF Chain
<1>3. CASE AtTimer
    BY <1>3 DEF Chain, AtTimer
<1>4. CASE Ended
    BY <1>4 DEF Chain, Ended
<1> QED BY <1>1, <1>2, <1>3, <1>4 DEF Chain

-----------------------------------------------------------------------------
(* One lemma per action or group of actions.                               *)

LEMMA InitChain == Init => ChainInv
<1> SUFFICES ASSUME Init PROVE ChainInv
    OBVIOUS
<1> DEFINE t == Start("Connect")
<1>1. t \in Task /\ t.do = "Connect"
    BY TaskFields
<1> HIDE DEF t
<1>2. strand \in Seq(Task) /\ Len(strand) = 1 /\ strand[1] = t
    BY <1>1 DEF Init, t
<1>3. TypeOK
    <2>1. read \in 0..MaxMessages /\ posted \subseteq 1..MaxMessages
        BY MessagesAssumption DEF Init
    <2> QED BY <1>2, <2>1 DEF Init, TypeOK
<1>4. 1 \in 1..Len(strand) /\ \A i \in 1..Len(strand) : i = 1
    BY <1>2
<1>5. AtTask(1)
    BY <1>1, <1>2, <1>4 DEF Init, AtTask, OneTask, Reading
<1>6. NoStop(strand)
    BY <1>1, <1>2, <1>4 DEF NoStop
<1> QED BY <1>3, <1>4, <1>5, <1>6 DEF ChainInv, Chain, StopInv, Init

(* What every task but Stop leaves behind: its place on the strand. *)
LEMMA TaskDone ==
    ASSUME ChainInv, strand # <<>>, Head(strand).do # "Stop",
           UNCHANGED <<stop, done>>,
           \/ strand' = Tail(strand)
           \/ \E t \in Task : t.do # "Stop" /\ strand' = Append(Tail(strand), t)
    PROVE  strand' \in Seq(Task) /\ StopInv'
<1>1. strand \in Seq(Task) /\ Tail(strand) \in Seq(Task)
    BY HeadTask DEF ChainInv, TypeOK
<1>2. strand' \in Seq(Task)
    BY <1>1
<1>3. ASSUME NoStop(strand) PROVE NoStop(strand')
    <2>1. NoStop(Tail(strand))
        BY <1>1, <1>3, NoStopKept
    <2> QED BY <1>1, <2>1, NoStopKept
<1> QED BY <1>2, <1>3 DEF ChainInv, StopInv

LEMMA ConnectChain == ChainInv /\ ExecuteConnect => ChainInv'
<1> SUFFICES ASSUME ChainInv, ExecuteConnect PROVE ChainInv'
    OBVIOUS
<1>1. strand # <<>> /\ Head(strand).do # "Stop"
    BY TaskFields DEF ExecuteConnect, HeadIs
<1>2. AtTask(1) /\ Rest(Tail(strand))
    BY <1>1, HeadTask
<1>3. strand' \in Seq(Task) /\ StopInv'
    BY <1>1, TaskDone DEF ExecuteConnect, stopVars
<1>4. TypeOK'
    BY <1>3 DEF ExecuteConnect, ChainInv, TypeOK, Operations, connVars, stopVars, dataVars
<1>5. Rest(strand')
    BY <1>2 DEF ExecuteConnect
<1>6. ASSUME done PROVE Chain'
    BY <1>2, <1>5, <1>6 DEF ExecuteConnect, AtTask, Chain, Ended, ChainInv, StopInv,
                           connVars, stopVars
<1>7. ASSUME ~done PROVE Chain'
    <2>1. pending' = {"connect"} /\ timer' = "off"
        BY <1>2, <1>7 DEF ExecuteConnect, AtTask
    <2>2. "connect" \in Operations /\ "connect" \notin {"header", "body"}
        BY DEF Operations
    <2> QED BY <1>5, <2>1, <2>2, BecomesOperation
<1>8. Chain'
    BY <1>6, <1>7
<1> QED BY <1>3, <1>4, <1>8 DEF ChainInv

LEMMA ConnectedChain == ChainInv /\ HandleConnect => ChainInv'
<1> SUFFICES ASSUME ChainInv, HandleConnect PROVE ChainInv'
    OBVIOUS
<1>1. strand # <<>> /\ Head(strand).do # "Stop"
    BY DEF HandleConnect
<1>2. AtTask(1) /\ Rest(Tail(strand))
    BY <1>1, HeadTask
<1>3. strand' \in Seq(Task) /\ StopInv'
    BY <1>1, TaskDone DEF HandleConnect, stopVars
<1>4. TypeOK'
    BY <1>3 DEF HandleConnect, ChainInv, TypeOK, Operations, connVars, stopVars, dataVars
<1>5. Rest(strand')
    BY <1>2 DEF HandleConnect
<1>6. CASE Head(strand).ok
    <2>1. pending' = {"send"} /\ timer' = "off"
        BY <1>2, <1>6 DEF HandleConnect, AtTask
    <2>2. "send" \in Operations /\ "send" \notin {"header", "body"}
        BY DEF Operations
    <2> QED BY <1>3, <1>4, <1>5, <2>1, <2>2, BecomesOperation DEF ChainInv
<1>7. CASE ~Head(strand).ok
    BY <1>2, <1>3, <1>4, <1>5, <1>7 DEF HandleConnect, AtTask, AtTimer, Chain, ChainInv
<1> QED BY <1>6, <1>7

LEMMA SendChain == ChainInv /\ HandleSend => ChainInv'
<1> SUFFICES ASSUME ChainInv, HandleSend PROVE ChainInv'
    OBVIOUS
<1> DEFINE t == Start(IF Head(strand).ok THEN "ReadData" ELSE "Connect")
<1>1. strand # <<>> /\ Head(strand).do = "send"
    BY DEF HandleSend
<1>2. /\ AtTask(1) /\ Head(strand) = strand[1]
      /\ Tail(strand) \in Seq(Task) /\ Rest(Tail(strand))
    BY <1>1, HeadTask
<1>3. /\ t \in Task /\ t.do = (IF Head(strand).ok THEN "ReadData" ELSE "Connect")
      /\ strand' = Append(Tail(strand), t)
    BY TaskFields DEF HandleSend
<1> HIDE DEF t
<1>4. strand' \in Seq(Task) /\ StopInv'
    BY <1>1, <1>3, TaskDone DEF HandleSend, stopVars
<1>5. TypeOK'
    BY <1>4 DEF HandleSend, ChainInv, TypeOK, connVars, stopVars, dataVars
<1>6. Reading(t) /\ linked' => subscribed'
    BY <1>1, <1>2, <1>3 DEF AtTask, Reading, HandleSend, connVars
<1>7. Chain'
    BY <1>2, <1>3, <1>6, BecomesTask DEF HandleSend, AtTask
<1> QED BY <1>4, <1>5, <1>7 DEF ChainInv

LEMMA ReadDataChain == ChainInv /\ ExecuteReadData => ChainInv'
<1> SUFFICES ASSUME ChainInv, ExecuteReadData PROVE ChainInv'
    OBVIOUS
<1>1. strand # <<>> /\ Head(strand).do = "ReadData"
    BY TaskFields DEF ExecuteReadData, HeadIs
<1>2. AtTask(1) /\ Head(strand) = strand[1] /\ Rest(Tail(strand))
    BY <1>1, HeadTask
<1>3. strand' \in Seq(Task) /\ StopInv'
    BY <1>1, TaskDone DEF ExecuteReadData, stopVars
<1>4. TypeOK'
    BY <1>3 DEF ExecuteReadData, ChainInv, TypeOK, Operations, connVars, stopVars, dataVars
<1>5. Rest(strand')
    BY <1>2 DEF ExecuteReadData
<1>6. CASE done
    BY <1>2, <1>3, <1>4, <1>5, <1>6
       DEF ExecuteReadData, AtTask, Chain, Ended, ChainInv, StopInv, stopVars
<1>7. CASE ~done
    <2>1. pending' = {"header"} /\ timer' = "off" /\ "header" \in Operations
        BY <1>2, <1>7 DEF ExecuteReadData, AtTask, Operations
    <2>2. linked' => subscribed'
        BY <1>1, <1>2 DEF ExecuteReadData, AtTask, Reading, connVars
    <2> QED BY <1>3, <1>4, <1>5, <2>1, <2>2, BecomesOperation DEF ChainInv
<1> QED BY <1>6, <1>7

LEMMA HeaderChain == ChainInv /\ HandleHeader => ChainInv'
<1> SUFFICES ASSUME ChainInv, HandleHeader PROVE ChainInv'
    OBVIOUS
<1>1. strand # <<>> /\ Head(strand).do = "header"
    BY DEF HandleHeader
<1>2. /\ AtTask(1) /\ Head(strand) = strand[1]
      /\ Tail(strand) \in Seq(Task) /\ Rest(Tail(strand))
    BY <1>1, HeadTask
<1>3. CASE Head(strand).ok
    <2>1. strand' \in Seq(Task) /\ StopInv'
        BY <1>1, <1>3, TaskDone DEF HandleHeader, stopVars
    <2>2. TypeOK'
        BY <1>3, <2>1 DEF HandleHeader, ChainInv, TypeOK, Operations,
                         connVars, stopVars, dataVars
    <2>3. Rest(strand') /\ pending' = {"body"} /\ timer' = "off" /\ "body" \in Operations
        BY <1>2, <1>3 DEF HandleHeader, AtTask, Operations
    <2>4. linked' => subscribed'
        BY <1>1, <1>2 DEF HandleHeader, AtTask, Reading, connVars
    <2> QED BY <2>1, <2>2, <2>3, <2>4, BecomesOperation DEF ChainInv
<1>4. CASE ~Head(strand).ok
    <2> DEFINE t == Start("Connect")
    <2>1. t \in Task /\ t.do = "Connect" /\ strand' = Append(Tail(strand), t)
        BY <1>4, TaskFields DEF HandleHeader
    <2> HIDE DEF t
    <2>2. strand' \in Seq(Task) /\ StopInv'
        BY <1>1, <2>1, TaskDone DEF HandleHeader, stopVars
    <2>3. TypeOK'
        BY <1>4, <2>2 DEF HandleHeader, ChainInv, TypeOK, connVars, stopVars, dataVars
    <2>4. Chain'
        BY <1>2, <1>4, <2>1, BecomesTask DEF HandleHeader, AtTask, Reading
    <2> QED BY <2>2, <2>3, <2>4 DEF ChainInv
<1> QED BY <1>3, <1>4

LEMMA BodyChain == ChainInv /\ HandleBody => ChainInv'
<1> SUFFICES ASSUME ChainInv, HandleBody PROVE ChainInv'
    OBVIOUS
<1> DEFINE t == Start(IF Head(strand).ok THEN "ReadData" ELSE "Connect")
<1>1. strand # <<>> /\ Head(strand).do = "body"
    BY DEF HandleBody
<1>2. /\ AtTask(1) /\ Head(strand) = strand[1]
      /\ Tail(strand) \in Seq(Task) /\ Rest(Tail(strand))
    BY <1>1, HeadTask
<1>3. /\ t \in Task /\ t.do = (IF Head(strand).ok THEN "ReadData" ELSE "Connect")
      /\ strand' = Append(Tail(strand), t)
    BY TaskFields DEF HandleBody
<1> HIDE DEF t
<1>4. strand' \in Seq(Task) /\ StopInv'
    BY <1>1, <1>3, TaskDone DEF HandleBody, stopVars
<1>5. posted' \subseteq 1..MaxMessages
    BY <1>1, <1>2 DEF HandleBody, AtTask, ChainInv, TypeOK
<1>6. TypeOK'
    BY <1>4, <1>5 DEF HandleBody, ChainInv, TypeOK, connVars, stopVars
<1>7. Reading(t) /\ linked' => subscribed'
    BY <1>1, <1>2, <1>3 DEF AtTask, Reading, HandleBody, connVars
<1>8. Chain'
    BY <1>2, <1>3, <1>7, BecomesTask DEF HandleBody, AtTask
<1> QED BY <1>4, <1>6, <1>8 DEF ChainInv

LEMMA StopChain == ChainInv /\ ExecuteStop => ChainInv'
<1> SUFFICES ASSUME ChainInv, ExecuteStop PROVE ChainInv'
    OBVIOUS
<1>1. strand \in Seq(Task) /\ strand # <<>> /\ Head(strand).do = "Stop"
    BY TaskFields DEF ExecuteStop, HeadIs, ChainInv, TypeOK
<1>2. Head(strand) = strand[1] /\ 1 \in 1..Len(strand) /\ Tail(strand) \in Seq(Task)
    BY <1>1, HeadAndTail
<1>3. stop = "posted"
    BY <1>1, <1>2 DEF ChainInv, StopInv, NoStop
<1>4. StopInv'
    BY <1>3 DEF ExecuteStop, StopInv
<1>5. TypeOK'
    BY <1>2 DEF ExecuteStop, ChainInv, TypeOK, dataVars
<1>6. ASSUME \E op \in Operations : AtOperation(op) PROVE Chain'
    <2>1. PICK op \in Operations : AtOperation(op)
        BY <1>6
    <2>2. Rest(strand')
        BY <1>1, <2>1, TailOfStop DEF ExecuteStop, AtOperation
    <2> QED BY <2>1, <2>2, BecomesOperation DEF ExecuteStop, AtOperation
<1>7. ASSUME \E n \in 1..Len(strand) : AtTask(n) PROVE Chain'
    <2>1. PICK n \in 1..Len(strand) : AtTask(n)
        BY <1>7
    <2>2. PICK m \in 1..Len(strand') : OneTask(strand', m) /\ strand'[m] = strand[n]
        BY <1>1, <2>1, TailOfStop DEF ExecuteStop, AtTask
    <2>3. AtTask(m)'
        BY <2>1, <2>2 DEF ExecuteStop, AtTask, Reading, dataVars
    <2> QED BY <2>2, <2>3 DEF Chain
<1>8. ASSUME AtTimer PROVE Chain'
    BY <1>1, <1>8, TailOfStop DEF ExecuteStop, AtTimer, Chain
<1>9. ASSUME Ended PROVE Chain'
    BY <1>1, <1>9, TailOfStop DEF ExecuteStop, Ended, Chain
<1>10. Chain'
    BY <1>6, <1>7, <1>8, <1>9 DEF ChainInv, Chain
<1> QED BY <1>4, <1>5, <1>10 DEF ChainInv

LEMMA CompleteChain ==
    ASSUME ChainInv, NEW op \in pending, NEW b \in BOOLEAN, Complete(op, b),
           op \in {"header", "body"} \/ (op = "send" /\ b) => (linked' => subscribed'),
           op = "body" /\ b => read' \in 1..MaxMessages
    PROVE  strand' \in Seq(Task) /\ pending' = {} /\ Chain' /\ StopInv'
<1> DEFINE t == Handler(op, b)
<1>1. AtOperation(op) /\ op \in Operations /\ pending' = {}
    BY OperationPending DEF Complete
<1>2. t \in Task /\ t.do = op /\ t.ok = b /\ t.do # "Stop"
    BY <1>1, TaskFields DEF Operations
<1>3. strand' = Append(strand, t) /\ timer' = "off"
    BY <1>1 DEF Complete, AtOperation
<1> HIDE DEF t
<1>4. strand \in Seq(Task) /\ strand' \in Seq(Task)
    BY <1>2, <1>3 DEF ChainInv, TypeOK
<1>5. ASSUME Reading(t), linked' PROVE subscribed'
    <2>1. op \in {"header", "body"} \/ (op = "send" /\ b)
        BY <1>1, <1>2, <1>5 DEF Reading, Operations
    <2> QED BY <1>5, <2>1
<1>6. Chain'
    BY <1>1, <1>2, <1>3, <1>4, <1>5, BecomesTask DEF AtOperation
<1>7. StopInv'
    BY <1>2, <1>3, <1>4, NoStopKept DEF ChainInv, StopInv, Complete, stopVars
<1> QED BY <1>1, <1>4, <1>6, <1>7

LEMMA CompletionChain == ChainInv /\ (Completion \/ Data) => ChainInv'
<1> SUFFICES ASSUME ChainInv, Completion \/ Data PROVE ChainInv'
    OBVIOUS
<1> USE DEF connVars, stopVars
<1>1. CASE Connected
    <2>1. "connect" \in pending /\ Complete("connect", TRUE)
        BY <1>1 DEF Connected, Complete
    <2>2. strand' \in Seq(Task) /\ pending' = {} /\ Chain' /\ StopInv'
        BY <2>1, CompleteChain
    <2> QED BY <1>1, <2>2 DEF Connected, Complete, ChainInv, TypeOK
<1>2. CASE Refused
    <2>1. "connect" \in pending /\ Complete("connect", FALSE)
        BY <1>2 DEF Refused, Complete
    <2>2. strand' \in Seq(Task) /\ pending' = {} /\ Chain' /\ StopInv'
        BY <2>1, CompleteChain
    <2> QED BY <1>2, <2>2 DEF Refused, Complete, ChainInv, TypeOK
<1>3. CASE IdSent
    <2>1. "send" \in pending /\ Complete("send", TRUE) /\ subscribed'
        BY <1>3 DEF IdSent, Complete
    <2>2. strand' \in Seq(Task) /\ pending' = {} /\ Chain' /\ StopInv'
        BY <2>1, CompleteChain
    <2> QED BY <1>3, <2>2 DEF IdSent, Complete, ChainInv, TypeOK
<1>4. CASE \E op \in {"send", "header", "body"} : Aborted(op)
    <2>1. PICK op \in {"send", "header", "body"} : Aborted(op)
        BY <1>4
    <2>2. op \in pending /\ Complete(op, FALSE) /\ linked' = FALSE
        BY <2>1 DEF Aborted, Complete, ChainInv, TypeOK
    <2>3. strand' \in Seq(Task) /\ pending' = {} /\ Chain' /\ StopInv'
        BY <2>2, CompleteChain
    <2> QED BY <2>1, <2>3 DEF Aborted, Complete, ChainInv, TypeOK
<1>5. CASE HeaderRead \/ HeaderOfEmpty
    <2>1. PICK b \in BOOLEAN : "header" \in pending /\ Complete("header", b)
        BY <1>5 DEF HeaderRead, HeaderOfEmpty, Complete
    <2>2. AtOperation("header")
        BY <2>1, OperationPending
    <2>3. linked' => subscribed'
        BY <1>5, <2>2 DEF HeaderRead, HeaderOfEmpty, AtOperation
    <2>4. strand' \in Seq(Task) /\ pending' = {} /\ Chain' /\ StopInv'
        BY <2>1, <2>3, CompleteChain
    <2> QED BY <1>5, <2>4 DEF HeaderRead, HeaderOfEmpty, Complete, ChainInv, TypeOK
<1>6. CASE BodyRead
    <2>1. "body" \in pending /\ Complete("body", TRUE)
        BY <1>6 DEF BodyRead, Complete
    <2>2. AtOperation("body")
        BY <2>1, OperationPending
    <2>3. (linked' => subscribed') /\ read' \in 1..MaxMessages
        BY <1>6, <2>2, MessagesAssumption DEF BodyRead, AtOperation, ChainInv, TypeOK
    <2>4. strand' \in Seq(Task) /\ pending' = {} /\ Chain' /\ StopInv'
        BY <2>1, <2>3, CompleteChain
    <2>5. read' \in 0..MaxMessages
        BY <2>3
    <2> QED BY <1>6, <2>4, <2>5 DEF BodyRead, Complete, ChainInv, TypeOK
<1> QED BY <1>1, <1>2, <1>3, <1>4, <1>5, <1>6 DEF Completion, Data

LEMMA TimerChain == ChainInv /\ (TimerExpires \/ TimerHandler) => ChainInv'
<1> SUFFICES ASSUME ChainInv, TimerExpires \/ TimerHandler PROVE ChainInv'
    OBVIOUS
<1> USE DEF connVars, stopVars, dataVars
<1>1. CASE TimerExpires
    <2>1. Chain'
        BY <1>1, ChainStays DEF TimerExpires, ChainInv
    <2> QED BY <1>1, <2>1 DEF TimerExpires, ChainInv, TypeOK, StopInv
<1>2. CASE TimerHandler
    <2> DEFINE t == Start("Connect")
    <2>1. t \in Task /\ t.do = "Connect" /\ strand' = Append(strand, t)
        BY <1>2, TaskFields DEF TimerHandler
    <2> HIDE DEF t
    <2>2. AtTimer /\ strand \in Seq(Task) /\ strand' \in Seq(Task)
        BY <1>2, <2>1, TimerRuns DEF TimerHandler, ChainInv, TypeOK
    <2>3. Chain'
        BY <1>2, <2>1, <2>2, BecomesTask DEF TimerHandler, AtTimer, Reading
    <2>4. StopInv'
        BY <1>2, <2>1, <2>2, NoStopKept DEF TimerHandler, ChainInv, StopInv
    <2> QED BY <1>2, <2>2, <2>3, <2>4 DEF TimerHandler, ChainInv, TypeOK
<1> QED BY <1>1, <1>2

LEMMA StopCallChain == ChainInv /\ (StopCancels \/ StopPosts) => ChainInv'
<1> SUFFICES ASSUME ChainInv, StopCancels \/ StopPosts PROVE ChainInv'
    OBVIOUS
<1> USE DEF connVars, stopVars, dataVars
<1>1. CASE StopCancels
    <2>1. TypeOK' /\ StopInv'
        BY <1>1 DEF StopCancels, ChainInv, TypeOK, StopInv
    <2>2. CASE timer = "off"
        <3>1. CASE \E op \in Operations : AtOperation(op)
            BY <1>1, <2>1, <2>2, <3>1 DEF StopCancels, AtOperation, Chain, ChainInv
        <3>2. CASE \E n \in 1..Len(strand) : AtTask(n)
            <4>1. PICK n \in 1..Len(strand) : AtTask(n)
                BY <3>2
            <4>2. AtTask(n)' /\ n \in 1..Len(strand')
                BY <1>1, <2>2, <4>1 DEF StopCancels, AtTask
            <4> QED BY <2>1, <4>2 DEF Chain, ChainInv
        <3>3. CASE Ended
            BY <1>1, <2>1, <2>2, <3>3 DEF StopCancels, Ended, Chain, ChainInv
        <3> QED BY <2>2, <3>1, <3>2, <3>3 DEF ChainInv, Chain, AtTimer
    <2>3. CASE timer # "off"
        BY <1>1, <2>1, <2>3, TimerRuns
           DEF StopCancels, AtTimer, Ended, Chain, ChainInv
    <2> QED BY <2>2, <2>3
<1>2. CASE StopPosts
    <2>1. Start("Stop") \in Task /\ strand \in Seq(Task)
        BY TaskFields DEF ChainInv, TypeOK
    <2>2. TypeOK' /\ StopInv'
        BY <1>2, <2>1 DEF StopPosts, ChainInv, TypeOK, StopInv
    <2>3. CASE \E op \in Operations : AtOperation(op)
        BY <1>2, <2>1, <2>2, <2>3, AppendStop
           DEF StopPosts, AtOperation, Chain, ChainInv
    <2>4. CASE \E n \in 1..Len(strand) : AtTask(n)
        <3>1. PICK n \in 1..Len(strand) : AtTask(n)
            BY <2>4
        <3>2. /\ OneTask(strand', n) /\ strand'[n] = strand[n]
              /\ n \in 1..Len(strand')
            BY <1>2, <2>1, <3>1, AppendStop, Appended DEF StopPosts, AtTask
        <3>3. AtTask(n)'
            BY <1>2, <3>1, <3>2 DEF StopPosts, AtTask, Reading
        <3> QED BY <2>2, <3>2, <3>3 DEF Chain, ChainInv
    <2>5. CASE AtTimer
        BY <1>2, <2>1, <2>2, <2>5, AppendStop DEF StopPosts, AtTimer, Chain, ChainInv
    <2>6. CASE Ended
        BY <1>2, <2>1, <2>2, <2>6, AppendStop DEF StopPosts, Ended, Chain, ChainInv
    <2> QED BY <2>3, <2>4, <2>5, <2>6 DEF Chain, ChainInv
<1> QED BY <1>1, <1>2

LEMMA OutsideChain ==
    ChainInv /\ (\/ \E n \in posted : RunCallback(n)
                 \/ ServerGoesDown \/ ServerComesUp \/ ConnectionBreaks) => ChainInv'
<1> SUFFICES ASSUME ChainInv,
                    \/ \E n \in posted : RunCallback(n)
                    \/ ServerGoesDown \/ ServerComesUp \/ ConnectionBreaks
             PROVE ChainInv'
    OBVIOUS
<1> USE DEF connVars, stopVars, dataVars
<1>1. /\ UNCHANGED <<socket, subscribed, pending, timer, strand, stop, done, read>>
      /\ linked' \in BOOLEAN /\ (linked' => linked)
      /\ server' \in {"up", "down"} /\ posted' \subseteq posted
    <2>1. CASE \E n \in posted : RunCallback(n)
        BY <2>1 DEF RunCallback, ChainInv, TypeOK
    <2>2. CASE ServerGoesDown
        BY <2>2 DEF ServerGoesDown, ChainInv, TypeOK
    <2>3. CASE ServerComesUp
        BY <2>3 DEF ServerComesUp, ChainInv, TypeOK
    <2>4. CASE ConnectionBreaks
        BY <2>4 DEF ConnectionBreaks, ChainInv, TypeOK
    <2> QED BY <2>1, <2>2, <2>3, <2>4
<1>2. Chain'
    BY <1>1, ChainStays DEF ChainInv
<1> QED BY <1>1, <1>2 DEF ChainInv, TypeOK, StopInv

LEMMA NextChain == ChainInv /\ [Next]_vars => ChainInv'
<1>1. ChainInv /\ UNCHANGED vars => ChainInv'
    <2> SUFFICES ASSUME ChainInv, UNCHANGED vars PROVE ChainInv'
        OBVIOUS
    <2>1. Chain'
        BY ChainStays DEF ChainInv, vars
    <2> QED BY <2>1 DEF ChainInv, TypeOK, StopInv, vars
<1> QED BY <1>1, ConnectChain, ConnectedChain, SendChain, ReadDataChain, HeaderChain,
           BodyChain, StopChain, CompletionChain, TimerChain, StopCallChain,
           OutsideChain DEF Next, ExecuteStrand

-----------------------------------------------------------------------------

(* A subscription is at one place of its chain, and only Stop ends it      *)
(* (tcp/Client.h:95-229).                                                  *)
THEOREM ChainInvariant == Spec => []ChainInv
BY InitChain, NextChain, PTL DEF Spec

(* A subscription's state is of its type in any run: what a callback gets  *)
(* is one of the messages that were read, by its number (Client.h:204).    *)
THEOREM ClientTypeCorrect == Spec => []TypeOK
BY ChainInvariant, PTL DEF ChainInv

LEMMA CountTasks ==
    ASSUME NEW s \in Seq(Task)
    PROVE  LET others == {i \in 1..Len(s) : s[i].do # "Stop"}
           IN /\ Rest(s) => Cardinality(others) = 0
              /\ \A n \in 1..Len(s) : OneTask(s, n) => Cardinality(others) = 1
<1> DEFINE others == {i \in 1..Len(s) : s[i].do # "Stop"}
<1>1. ASSUME Rest(s) PROVE Cardinality(others) = 0
    <2>1. others = {}
        BY <1>1 DEF Rest
    <2> QED BY <2>1, FS_EmptySet
<1>2. ASSUME NEW n \in 1..Len(s), OneTask(s, n) PROVE Cardinality(others) = 1
    <2>1. others = {n}
        BY <1>2 DEF OneTask
    <2> QED BY <2>1, FS_Singleton
<1> QED BY <1>1, <1>2

(* The client is one chain of continuations, whatever fails, and nothing   *)
(* but Stop ends it (Client.h:137-229).                                    *)
THEOREM AlwaysSingleChain == Spec => []SingleChain
<1>1. ChainInv => SingleChain
    <2> SUFFICES ASSUME ChainInv PROVE SingleChain
        OBVIOUS
    <2> DEFINE tasks == {i \in 1..Len(strand) : strand[i].do # "Stop"}
    <2>1. /\ Rest(strand) => Cardinality(tasks) = 0
          /\ \A n \in 1..Len(strand) : OneTask(strand, n) => Cardinality(tasks) = 1
        BY CountTasks DEF ChainInv, TypeOK
    <2>2. /\ pending = {} => Cardinality(pending) = 0
          /\ \A op \in Operations : pending = {op} => Cardinality(pending) = 1
        BY FS_EmptySet, FS_Singleton
    <2>3. /\ Continuations <= 1
          /\ stop = "no" => Continuations = 1
        <3>1. CASE \E op \in Operations : AtOperation(op)
            <4>1. PICK op \in Operations : AtOperation(op)
                BY <3>1
            <4>2. Cardinality(pending) = 1 /\ Cardinality(tasks) = 0 /\ timer = "off"
                BY <2>1, <2>2, <4>1 DEF AtOperation
            <4> QED BY <4>2 DEF Continuations
        <3>2. CASE \E n \in 1..Len(strand) : AtTask(n)
            BY <2>1, <2>2, <3>2 DEF AtTask, Continuations
        <3>3. CASE AtTimer
            BY <2>1, <2>2, <3>3 DEF AtTimer, Continuations
        <3>4. CASE Ended
            BY <2>1, <2>2, <3>4 DEF Ended, Continuations
        <3> QED BY <3>1, <3>2, <3>3, <3>4 DEF ChainInv, Chain
    <2> QED BY <2>3 DEF SingleChain
<1> QED BY <1>1, ChainInvariant, PTL

(* The client reads only on a connection on which it sent the id of its    *)
(* stream (Client.h:149-160), after any number of reconnections.           *)
THEOREM AlwaysReadsWhatItAskedFor == Spec => []ReadsWhatItAskedFor
<1>1. ChainInv => ReadsWhatItAskedFor
    BY DEF ChainInv, Chain, ReadsWhatItAskedFor, AtOperation, AtTask, AtTimer, Ended
<1> QED BY <1>1, ChainInvariant, PTL
-----------------------------------------------------------------------------
(* The end of a client that was stopped.                                   *)

StopOnce(s) ==
    \A i, j \in 1..Len(s) : s[i].do = "Stop" /\ s[j].do = "Stop" => i = j

(* Stop posts once, and what it does to the socket stays.                  *)
DoneInv ==
    /\ StopOnce(strand)
    /\ done => stop = "posted" /\ NoStop(strand) /\ socket = "closed" /\ ~linked

LEMMA StopOnceKept ==
    ASSUME NEW s \in Seq(Task), StopOnce(s)
    PROVE  /\ s # <<>> => StopOnce(Tail(s)) /\ (Head(s).do = "Stop" => NoStop(Tail(s)))
           /\ \A t \in Task : t.do # "Stop" \/ NoStop(s) => StopOnce(Append(s, t))
<1>0. Len(s) \in Nat
    OBVIOUS
<1>1. ASSUME s # <<>> PROVE StopOnce(Tail(s)) /\ (Head(s).do = "Stop" => NoStop(Tail(s)))
    <2> DEFINE a == Tail(s)
    <2>1. /\ Head(s) = s[1] /\ 1 \in 1..Len(s)
          /\ \A i \in 1..Len(a) : i + 1 \in 1..Len(s) /\ a[i] = s[i + 1]
        BY <1>1, HeadAndTail
    <2>2. \A i, j \in 1..Len(a) : i + 1 = j + 1 => i = j
        OBVIOUS
    <2>3. \A i \in 1..Len(a) : i + 1 # 1
        OBVIOUS
    <2> HIDE DEF a
    <2>4. StopOnce(a)
        BY <2>1, <2>2 DEF StopOnce
    <2>5. ASSUME Head(s).do = "Stop" PROVE NoStop(a)
        BY <2>1, <2>3, <2>5 DEF StopOnce, NoStop
    <2> QED BY <2>4, <2>5 DEF a
<1>2. ASSUME NEW t \in Task, t.do # "Stop" \/ NoStop(s) PROVE StopOnce(Append(s, t))
    <2> DEFINE a == Append(s, t)
    <2>1. /\ a[Len(s) + 1] = t
          /\ \A i \in 1..Len(s) : a[i] = s[i]
          /\ \A i \in 1..Len(a) : i \in 1..Len(s) \/ i = Len(s) + 1
        BY Appended
    <2> HIDE DEF a
    <2>2. StopOnce(a)
        BY <1>2, <2>1 DEF StopOnce, NoStop
    <2> QED BY <2>2 DEF a
<1> QED BY <1>1, <1>2

(* A task that is not Stop was posted or executed.                         *)
LEMMA DoneStays ==
    ASSUME ChainInv, DoneInv, UNCHANGED <<stop, done>>,
           done => socket' = socket /\ ~linked',
           \/ strand' = strand
           \/ strand # <<>> /\ strand' = Tail(strand)
           \/ \E t \in Task : t.do # "Stop" /\ strand' = Append(strand, t)
           \/ strand # <<>> /\ \E t \in Task : t.do # "Stop" /\ strand' = Append(Tail(strand), t)
    PROVE  DoneInv'
<1>1. strand \in Seq(Task)
    BY DEF ChainInv, TypeOK
<1>2. StopOnce(strand') /\ (NoStop(strand) => NoStop(strand'))
    <2>1. CASE strand # <<>>
        <3>1. /\ Tail(strand) \in Seq(Task) /\ StopOnce(Tail(strand))
              /\ NoStop(strand) => NoStop(Tail(strand))
            BY <1>1, <2>1, HeadAndTail, StopOnceKept, NoStopKept DEF DoneInv
        <3> QED BY <1>1, <2>1, <3>1, StopOnceKept, NoStopKept DEF DoneInv
    <2>2. CASE strand = <<>>
        BY <1>1, <2>2, StopOnceKept, NoStopKept DEF DoneInv
    <2> QED BY <2>1, <2>2
<1> QED BY <1>2 DEF DoneInv

LEMMA NextDone == ChainInv /\ DoneInv /\ [Next]_vars => DoneInv'
<1> SUFFICES ASSUME ChainInv, DoneInv, [Next]_vars PROVE DoneInv'
    OBVIOUS
<1>0. /\ \A x \in {"Connect", "ReadData"} : Start(x) \in Task /\ Start(x).do # "Stop"
      /\ \A op \in Operations, b \in BOOLEAN :
             Handler(op, b) \in Task /\ Handler(op, b).do # "Stop"
    BY TaskFields DEF Operations
<1>1. CASE ExecuteConnect \/ ExecuteReadData
    BY <1>1, DoneStays DEF ExecuteConnect, ExecuteReadData, HeadIs, connVars, stopVars, DoneInv
<1>2. CASE HandleConnect
    BY <1>2, DoneStays DEF HandleConnect, connVars, stopVars, DoneInv
<1>3. CASE HandleSend \/ HandleBody
    BY <1>0, <1>3, DoneStays DEF HandleSend, HandleBody, connVars, stopVars, DoneInv
<1>4. CASE HandleHeader
    BY <1>0, <1>4, DoneStays DEF HandleHeader, connVars, stopVars, DoneInv
<1>5. CASE ExecuteStop
    <2>1. strand \in Seq(Task) /\ strand # <<>> /\ Head(strand).do = "Stop"
        BY <1>5, TaskFields DEF ExecuteStop, HeadIs, ChainInv, TypeOK
    <2>2. StopOnce(strand') /\ NoStop(strand')
        BY <1>5, <2>1, StopOnceKept DEF ExecuteStop, DoneInv
    <2>3. stop = "posted"
        BY <2>1, NoStopKept DEF ChainInv, StopInv
    <2> QED BY <1>5, <2>2, <2>3 DEF ExecuteStop, DoneInv
<1>6. CASE Completion \/ Data
    <2>1. PICK op \in Operations, b \in BOOLEAN : Complete(op, b)
        BY <1>6 DEF Completion, Data, Connected, Refused, IdSent, Aborted, HeaderRead,
                    HeaderOfEmpty, BodyRead, Operations
    <2>2. done => socket' = socket /\ ~linked'
        BY <1>6 DEF Completion, Data, Connected, Refused, IdSent, Aborted, HeaderRead,
                    HeaderOfEmpty, BodyRead, connVars, DoneInv
    <2> QED BY <1>0, <2>1, <2>2, DoneStays DEF Complete, stopVars
<1>7. CASE TimerExpires \/ TimerHandler
    BY <1>0, <1>7, DoneStays DEF TimerExpires, TimerHandler, connVars, stopVars, DoneInv
<1>8. CASE StopCancels
    BY <1>8 DEF StopCancels, connVars, ChainInv, StopInv, DoneInv
<1>9. CASE StopPosts
    <2>1. NoStop(strand) /\ ~done /\ strand \in Seq(Task) /\ Start("Stop") \in Task
        BY <1>9, TaskFields DEF StopPosts, ChainInv, StopInv, TypeOK
    <2> QED BY <1>9, <2>1, StopOnceKept DEF StopPosts, DoneInv
<1>10. CASE \/ \E n \in posted : RunCallback(n)
            \/ ServerGoesDown \/ ServerComesUp \/ ConnectionBreaks \/ UNCHANGED vars
    BY <1>10, DoneStays
       DEF RunCallback, ServerGoesDown, ServerComesUp, ConnectionBreaks, vars,
           connVars, stopVars, DoneInv
<1> QED BY <1>1, <1>2, <1>3, <1>4, <1>5, <1>6, <1>7, <1>8, <1>9, <1>10
        DEF Next, ExecuteStrand

LEMMA NothingButOne ==
    ASSUME NEW s \in Seq(Task), NoStop(s)
    PROVE  /\ Rest(s) => s = <<>>
           /\ \A n \in 1..Len(s) : OneTask(s, n) => Len(s) = 1
<1>1. ASSUME Rest(s) PROVE s = <<>>
    <2>1. \A i \in 1..Len(s) : FALSE
        BY <1>1 DEF NoStop, Rest
    <2>2. s # <<>> => 1 \in 1..Len(s)
        OBVIOUS
    <2> QED BY <2>1, <2>2
<1>2. ASSUME NEW n \in 1..Len(s), OneTask(s, n) PROVE Len(s) = 1
    <2>1. \A i \in 1..Len(s) : i = n
        BY <1>2 DEF NoStop, OneTask
    <2>2. Len(s) \in Nat
        OBVIOUS
    <2>3. 1 \in 1..Len(s) /\ Len(s) \in 1..Len(s)
        BY <2>1, <2>2
    <2> QED BY <2>1, <2>3
<1> QED BY <1>1, <1>2

(* Where a client that is done can be.                                     *)
LEMMA DonePlaces ==
    ASSUME ChainInv, DoneInv, done
    PROVE  /\ pending # {} => timer = "off" /\ strand = <<>>
                              /\ \E op \in Operations : pending = {op}
           /\ timer # "off" => pending = {} /\ strand = <<>>
           /\ strand # <<>> => pending = {} /\ timer = "off"
                               /\ Tail(strand) = <<>> /\ Head(strand).do # "Stop"
<1>1. strand \in Seq(Task) /\ NoStop(strand)
    BY DEF ChainInv, TypeOK, DoneInv
<1>2. strand # <<>> => Head(strand).do # "Stop"
    BY <1>1, NoStopKept
<1>3. CASE \E n \in 1..Len(strand) : AtTask(n)
    <2>1. Len(strand) = 1 /\ pending = {} /\ timer = "off"
        BY <1>1, <1>3, NothingButOne DEF AtTask
    <2>2. Tail(strand) \in Seq(Task) /\ Len(Tail(strand)) = 0
        <3>1. strand # <<>>
            BY <2>1
        <3>2. Tail(strand) \in Seq(Task) /\ Len(Tail(strand)) = Len(strand) - 1
            BY <1>1, <3>1, HeadAndTail
        <3> QED BY <2>1, <3>2
    <2>3. Tail(strand) = <<>>
        BY <2>2, EmptySeq
    <2> QED BY <1>2, <2>1, <2>3
<1>4. CASE (\E op \in Operations : AtOperation(op)) \/ AtTimer \/ Ended
    <2>1. strand = <<>>
        BY <1>1, <1>4, NothingButOne DEF AtOperation, AtTimer, Ended
    <2> QED BY <1>4, <2>1 DEF AtOperation, AtTimer, Ended
<1> QED BY <1>3, <1>4 DEF ChainInv, Chain

LEMMA OneTaskLeft ==
    ASSUME NEW t \in Task, strand' = Append(<<>>, t), pending' = {}, timer' = "off"
    PROVE  StepsLeft' = StepsOfTask(t)
<1>1. Append(<<>>, t) # <<>> /\ Head(Append(<<>>, t)) = t
    OBVIOUS
<1>2. strand' # <<>> /\ Head(strand') = t
    BY <1>1
<1> QED BY <1>2 DEF StepsLeft

LEMMA MoveIsLess ==
    ASSUME ChainInv, DoneInv, done, Moves
    PROVE  StepsLeft' < StepsLeft
<1>0. /\ \A x \in {"Connect", "ReadData"} : Start(x) \in Task /\ StepsOfTask(Start(x)) = 1
      /\ \A op \in Operations, b \in BOOLEAN :
             /\ Handler(op, b) \in Task
             /\ StepsOfTask(Handler(op, b)) =
                    IF op = "connect" \/ (op = "header" /\ b) THEN 4 ELSE 2
    BY TaskFields DEF StepsOfTask, Operations
<1>1. socket = "closed" /\ ~linked
    BY DEF DoneInv
<1>2. CASE ExecuteStrand
    <2>1. /\ strand # <<>> /\ pending = {} /\ timer = "off" /\ Tail(strand) = <<>>
          /\ Head(strand).do # "Stop"
        BY <1>2, DonePlaces DEF ExecuteStrand, ExecuteConnect, HandleConnect, HandleSend,
              ExecuteReadData, HandleHeader, HandleBody, ExecuteStop, HeadIs
    <2>2. StepsLeft = StepsOfTask(Head(strand))
        BY <2>1 DEF StepsLeft
    <2>3. CASE ExecuteConnect \/ ExecuteReadData
        <3>1. strand' = <<>> /\ pending' = {} /\ timer' = "off"
            BY <2>1, <2>3 DEF ExecuteConnect, ExecuteReadData
        <3>2. StepsLeft' = 0
            BY <3>1 DEF StepsLeft
        <3>3. StepsLeft = 1
            BY <1>0, <2>2, <2>3 DEF ExecuteConnect, ExecuteReadData, HeadIs
        <3> QED BY <3>2, <3>3
    <2>4. CASE HandleConnect
        <3>1. StepsLeft = 4
            BY <2>2, <2>4 DEF HandleConnect, StepsOfTask
        <3>2. CASE Head(strand).ok
            <4>1. pending' = {"send"}
                BY <2>1, <2>4, <3>2 DEF HandleConnect
            <4>2. StepsLeft' = 3
                BY <4>1 DEF StepsLeft
            <4> QED BY <3>1, <4>2
        <3>3. CASE ~Head(strand).ok
            <4>1. pending' = {} /\ timer' = "waiting"
                BY <2>1, <2>4, <3>3 DEF HandleConnect
            <4>2. StepsLeft' = 3
                BY <4>1 DEF StepsLeft
            <4> QED BY <3>1, <4>2
        <3> QED BY <3>2, <3>3
    <2>5. CASE HandleSend \/ HandleBody
        <3>1. PICK x \in {"Connect", "ReadData"} : strand' = Append(<<>>, Start(x))
            BY <2>1, <2>5 DEF HandleSend, HandleBody
        <3>2. StepsLeft' = 1
            BY <1>0, <2>1, <2>5, <3>1, OneTaskLeft DEF HandleSend, HandleBody
        <3>3. StepsLeft = 2
            BY <2>2, <2>5 DEF HandleSend, HandleBody, StepsOfTask
        <3> QED BY <3>2, <3>3
    <2>6. CASE HandleHeader
        <3>1. CASE Head(strand).ok
            <4>1. pending' = {"body"}
                BY <2>1, <2>6, <3>1 DEF HandleHeader
            <4>2. StepsLeft' = 3
                BY <4>1 DEF StepsLeft
            <4>3. StepsLeft = 4
                BY <2>2, <2>6, <3>1 DEF HandleHeader, StepsOfTask
            <4> QED BY <4>2, <4>3
        <3>2. CASE ~Head(strand).ok
            <4>1. StepsLeft' = 1
                BY <1>0, <2>1, <2>6, <3>2, OneTaskLeft DEF HandleHeader
            <4>2. StepsLeft = 2
                BY <2>2, <2>6, <3>2 DEF HandleHeader, StepsOfTask
            <4> QED BY <4>1, <4>2
        <3> QED BY <3>1, <3>2
    <2>7. ~ExecuteStop
        BY <2>1, TaskFields DEF ExecuteStop, HeadIs
    <2> QED BY <1>2, <2>3, <2>4, <2>5, <2>6, <2>7 DEF ExecuteStrand
<1>3. CASE Completion \/ Data
    <2>1. PICK op \in Operations : Complete(op, FALSE)
        BY <1>1, <1>3 DEF Completion, Data, Connected, Refused, IdSent, Aborted, HeaderRead,
                    HeaderOfEmpty, BodyRead, Operations
    <2>2. pending = {op} /\ timer = "off" /\ strand = <<>>
        BY <2>1, DonePlaces DEF Complete
    <2>3. StepsLeft = IF op = "connect" THEN 5 ELSE 3
        BY <2>2 DEF StepsLeft
    <2>4. StepsLeft' = IF op = "connect" THEN 4 ELSE 2
        <3>1. Handler(op, FALSE) \in Task /\ strand' = Append(<<>>, Handler(op, FALSE))
            BY <1>0, <2>1, <2>2 DEF Complete
        <3>2. pending' = {} /\ timer' = "off"
            BY <2>1, <2>2 DEF Complete
        <3>3. StepsLeft' = StepsOfTask(Handler(op, FALSE))
            BY <3>1, <3>2, OneTaskLeft
        <3> QED BY <1>0, <3>3
    <2> QED BY <2>3, <2>4
<1>4. CASE TimerExpires
    <2>1. StepsLeft = 3 /\ StepsLeft' = 2
        BY <1>4, DonePlaces DEF TimerExpires, StepsLeft
    <2> QED BY <2>1
<1>5. CASE TimerHandler
    <2>1. pending = {} /\ strand = <<>> /\ StepsLeft = 2
        BY <1>5, DonePlaces DEF TimerHandler, StepsLeft
    <2>2. StepsLeft' = 1
        BY <1>0, <1>5, <2>1, OneTaskLeft DEF TimerHandler
    <2> QED BY <2>1, <2>2
<1> QED BY <1>2, <1>3, <1>4, <1>5 DEF Moves

(* A client that is done stays so, never opens its socket again, and every *)
(* step that it takes is one less to take (Client.h:95-103, 137-229).      *)
THEOREM StoppedAlwaysWindsDown == Spec => WindsDown
<1>1. Init => DoneInv
    <2>1. ASSUME Init PROVE StopOnce(strand)
        <3>1. strand = <<Start("Connect")>> /\ Len(strand) = 1
            BY <2>1 DEF Init
        <3> QED BY <3>1 DEF StopOnce
    <2> QED BY <2>1 DEF Init, DoneInv
<1>2. ASSUME ChainInv, DoneInv, [Next]_vars, done
      PROVE  /\ done' /\ socket' = "closed" /\ ~linked'
             /\ Moves => StepsLeft' < StepsLeft
             /\ ~Moves => StepsLeft' = StepsLeft
    <2>1. done'
        BY <1>2 DEF DoneInv, Next, ExecuteStrand, ExecuteConnect, HandleConnect, HandleSend,
              ExecuteReadData, HandleHeader, HandleBody, ExecuteStop, Completion, Data,
              Connected, Refused, IdSent, Aborted, HeaderRead, HeaderOfEmpty, BodyRead,
              Complete, TimerExpires, TimerHandler, StopCancels, StopPosts, RunCallback,
              ServerGoesDown, ServerComesUp, ConnectionBreaks, vars, stopVars
    <2>2. socket' = "closed" /\ ~linked'
        BY <1>2, <2>1, NextDone DEF DoneInv
    <2>3. ASSUME ~Moves PROVE StepsLeft' = StepsLeft
        <3>1. UNCHANGED <<pending, timer, strand>>
            BY <1>2, <2>3 DEF Moves, Next, DoneInv, StopCancels, StopPosts, RunCallback,
                  ServerGoesDown, ServerComesUp, ConnectionBreaks, vars
        <3> QED BY <3>1 DEF StepsLeft
    <2> QED BY <1>2, <2>1, <2>2, <2>3, MoveIsLess
<1>3. ChainInv /\ DoneInv /\ [Next]_vars => DoneInv'
    BY NextDone
<1>4. ChainInv /\ DoneInv /\ [Next]_vars =>
          (done => /\ done' /\ socket' = "closed" /\ ~linked'
                   /\ Moves => StepsLeft' < StepsLeft
                   /\ ~Moves => StepsLeft' = StepsLeft)
    BY <1>2
<1> QED BY <1>1, <1>3, <1>4, ChainInvariant, PTL DEF Spec, WindsDown
=============================================================================
