---------------------------- MODULE DrivingProofs ----------------------------
(***************************************************************************)
(* Proofs about modules RpcServer and Driving.  First the server: types,   *)
(* the frames of the workers, the number of times a function runs, and     *)
(* whose vehicle a control reaches, for every number of workers and of     *)
(* calls and every width of the ids.  Then the server with its vehicles:   *)
(* it is the server of RpcServer, so that what is proved of the one holds  *)
(* of the other, and its vehicles obey, for any controls, any places, and  *)
(* any number of blueprints.                                               *)
(***************************************************************************)
EXTENDS Driving, FiniteSetTheorems, TLAPS

-----------------------------------------------------------------------------
(* The inductive invariant.                                                *)

(* What a call went through says how often it ran; only a call that was    *)
(* answered has its answer; only synchronous calls are posted.             *)
StageInv ==
    \A k \in Numbers :
        /\ calls[k].stage = "none" => /\ calls[k].function = "ping"
                                      /\ calls[k].client = "none"
        /\ calls[k].stage \in {"none", "sent", "taken", "posted"}
               => calls[k].runs = 0
        /\ calls[k].stage \in {"ready", "answered"} => calls[k].runs = 1
        /\ calls[k].client = "has_answer" => calls[k].stage = "answered"
        /\ calls[k].stage \in {"posted", "ready"} => IsSync(k)

(* The handle of a control came from a spawn. *)
HandleInv ==
    \A k \in Numbers :
        calls[k].function = "control" =>
            /\ calls[k].target \in Numbers
            /\ calls[calls[k].target].function = "spawn"
            /\ calls[calls[k].target].client = "has_answer"

(* A spawn that ran returned no agent, or the id of its own. *)
AgentInv ==
    \A k \in Numbers :
        calls[k].function = "spawn" /\ calls[k].runs = 1 =>
            \/ calls[k].id = NoAgent
            \/ calls[k].id \in DOMAIN agents /\ agents[calls[k].id] = k

ControlInv ==
    \A i \in DOMAIN agents :
        controlled[i] # None =>
            /\ controlled[i] \in Numbers
            /\ calls[controlled[i]].function = "control"
            /\ calls[controlled[i]].target = agents[i]

(* COUNT is the number of the spawns that ran: it stays below NoAgent. *)
RanSpawns == {k \in Numbers : calls[k].function = "spawn" /\ calls[k].runs = 1}

CountInv == count = Cardinality(RanSpawns)

IInv == /\ TypeOK /\ StageInv /\ FramesOutliveTasks
        /\ HandleInv /\ AgentInv /\ ControlInv /\ CountInv

-----------------------------------------------------------------------------
LEMMA NumbersAreFinite ==
    IsFiniteSet(Numbers) /\ Cardinality(Numbers) = MaxCalls
BY CallsAssumption, FS_Interval DEF Numbers

(* The number of spawns that ran is at most the number of calls. *)
LEMMA SpawnsAreCounted ==
    /\ IsFiniteSet(RanSpawns)
    /\ Cardinality(RanSpawns) \in Nat
    /\ Cardinality(RanSpawns) <= MaxCalls
<1>1. RanSpawns \subseteq Numbers
    BY DEF RanSpawns
<1> QED BY <1>1, NumbersAreFinite, FS_Subset, FS_CardinalityType

(* NoAgent is the id of no agent. *)
LEMMA NoAgentIsNone ==
    ASSUME TypeOK
    PROVE  NoAgent \notin DOMAIN agents
BY IdsAssumption, CallsAssumption DEF TypeOK, NoAgent

-----------------------------------------------------------------------------
(* The server starts in the invariant. *)
THEOREM InitIInv == Init => IInv
<1> SUFFICES ASSUME Init PROVE IInv
    OBVIOUS
<1> USE DEF Init
<1>1. \A k \in Numbers : calls[k] = NoCall
    OBVIOUS
<1>2. TypeOK
    <2>1. NoCall \in Call
        BY CallsAssumption DEF NoCall, Call, None
    <2>2. calls \in [Numbers -> Call]
        BY <2>1
    <2>3. count \in 0..MaxCalls /\ queue \in Seq(Numbers)
        BY CallsAssumption
    <2>4. DOMAIN agents = {} /\ DOMAIN controlled = {}
        OBVIOUS
    <2>5. agents \in [DOMAIN agents -> Numbers]
        BY <2>4
    <2>6. controlled \in [DOMAIN agents -> 0..MaxCalls]
        BY <2>4
    <2> QED BY <2>2, <2>3, <2>4, <2>5, <2>6 DEF TypeOK
<1>3. StageInv /\ HandleInv /\ AgentInv
    BY <1>1 DEF StageInv, HandleInv, AgentInv, NoCall
<1>4. FramesOutliveTasks /\ ControlInv
    BY DEF FramesOutliveTasks, ControlInv
<1>5. CountInv
    <2>1. RanSpawns = {}
        BY <1>1 DEF RanSpawns, NoCall
    <2> QED BY <2>1, FS_EmptySet DEF CountInv
<1> QED BY <1>2, <1>3, <1>4, <1>5 DEF IInv

LEMMA ZeroAndOne == 0 # 1 /\ 0 + 1 = 1
OBVIOUS

-----------------------------------------------------------------------------
(* What becomes of the record of a call. *)
LEMMA RanCall ==
    ASSUME NEW c \in Call
    PROVE  /\ Ran(c) \in Call
           /\ Ran(c).function = c.function /\ Ran(c).target = c.target
           /\ Ran(c).stage = c.stage /\ Ran(c).client = c.client
           /\ Ran(c).id = c.id /\ Ran(c).runs = c.runs + 1
<1> DEFINE n == c.runs + 1
<1>1. c.runs \in Nat
    BY DEF Call
<1>2. n \in Nat
    BY <1>1
<1>3. Ran(c) = [c EXCEPT !.runs = n]
    BY DEF Ran
<1> HIDE DEF n
<1>4. /\ Ran(c) \in Call
      /\ Ran(c).function = c.function /\ Ran(c).target = c.target
      /\ Ran(c).stage = c.stage /\ Ran(c).client = c.client
      /\ Ran(c).id = c.id /\ Ran(c).runs = n
    BY <1>2, <1>3 DEF Call
<1> QED BY <1>4 DEF n

LEMMA AnsweredCall ==
    ASSUME NEW c \in Call
    PROVE  /\ Answered(c) \in Call
           /\ Answered(c).function = c.function /\ Answered(c).target = c.target
           /\ Answered(c).stage = "answered"
           /\ c.client = "has_answer" => Answered(c).client = "has_answer"
           /\ Answered(c).id = c.id /\ Answered(c).runs = c.runs
BY DEF Answered, Call

LEMMA ReadyCall ==
    ASSUME NEW c \in Call, NEW id \in {None, NoAgent} \cup 1..MaxCalls
    PROVE  /\ Ready(c, id) \in Call
           /\ Ready(c, id).function = c.function /\ Ready(c, id).target = c.target
           /\ Ready(c, id).stage = "ready" /\ Ready(c, id).client = c.client
           /\ Ready(c, id).id = id /\ Ready(c, id).runs = c.runs + 1
<1> DEFINE d == Ran(c)
<1>1. /\ d \in Call /\ d.function = c.function /\ d.target = c.target
      /\ d.client = c.client /\ d.runs = c.runs + 1
    BY RanCall
<1>2. Ready(c, id) = [d EXCEPT !.stage = "ready", !.id = id]
    BY DEF Ready
<1> HIDE DEF d
<1> QED BY <1>1, <1>2 DEF Call

-----------------------------------------------------------------------------
(* The world stands still while call k goes on: nothing about handles,     *)
(* agents and controls changes.                                            *)
LEMMA CallMoves ==
    ASSUME TypeOK, HandleInv, AgentInv, ControlInv, CountInv,
           NEW k \in Numbers, NEW c \in Call,
           calls' = [calls EXCEPT ![k] = c],
           c.function = calls[k].function,
           c.target = calls[k].target,
           c.id = calls[k].id,
           calls[k].client = "has_answer" => c.client = "has_answer",
           c.function = "spawn" => c.runs = calls[k].runs,
           UNCHANGED worldVars
    PROVE  HandleInv' /\ AgentInv' /\ ControlInv' /\ CountInv'
<1>1. \A j \in Numbers : calls'[j] = IF j = k THEN c ELSE calls[j]
    BY DEF TypeOK
<1>2. \A j \in Numbers :
          /\ calls'[j].function = calls[j].function
          /\ calls'[j].target = calls[j].target
          /\ calls'[j].id = calls[j].id
          /\ calls[j].client = "has_answer" => calls'[j].client = "has_answer"
          /\ calls[j].function = "spawn" => calls'[j].runs = calls[j].runs
    BY <1>1
<1>3. HandleInv'
    <2> SUFFICES ASSUME NEW j \in Numbers, calls'[j].function = "control"
                 PROVE  /\ calls'[j].target \in Numbers
                        /\ calls'[calls'[j].target].function = "spawn"
                        /\ calls'[calls'[j].target].client = "has_answer"
        BY DEF HandleInv, Numbers
    <2>1. PICK t \in Numbers : /\ calls'[j].target = t
                               /\ calls[t].function = "spawn"
                               /\ calls[t].client = "has_answer"
        <3>1. calls[j].function = "control" /\ calls'[j].target = calls[j].target
            BY <1>2
        <3> QED BY <3>1 DEF HandleInv
    <2> QED BY <1>2, <2>1
<1>4. AgentInv'
    BY <1>2 DEF AgentInv, worldVars, NoAgent
<1>5. ControlInv'
    <2> SUFFICES ASSUME NEW i \in DOMAIN agents, controlled[i] # None
                 PROVE  /\ controlled[i] \in Numbers
                        /\ calls'[controlled[i]].function = "control"
                        /\ calls'[controlled[i]].target = agents[i]
        BY DEF ControlInv, None, Numbers, worldVars
    <2>1. PICK n \in Numbers : /\ controlled[i] = n
                               /\ calls[n].function = "control"
                               /\ calls[n].target = agents[i]
        BY DEF ControlInv
    <2> QED BY <1>2, <2>1
<1>6. RanSpawns' = RanSpawns
    BY <1>2 DEF RanSpawns
<1>7. CountInv'
    BY <1>6 DEF CountInv, worldVars
<1> QED BY <1>3, <1>4, <1>5, <1>7

(* A call that is not posted does not touch the queue's tasks. *)
LEMMA QueueStays ==
    ASSUME TypeOK, FramesOutliveTasks, NEW k \in Numbers, NEW c \in Call,
           calls[k].stage # "posted" \/ c.stage = "posted",
           calls' = [calls EXCEPT ![k] = c], queue' = queue
    PROVE  FramesOutliveTasks'
<1>1. \A i \in 1..Len(queue) : queue[i] \in Numbers
    BY DEF TypeOK
<1> QED BY <1>1 DEF FramesOutliveTasks, TypeOK

-----------------------------------------------------------------------------
(* The clients.                                                            *)

LEMMA MakeIInv ==
    ASSUME IInv, NEW k \in Numbers, NEW f \in {"ping", "spawn", "control"},
           NEW t \in 0..MaxCalls, Make(k, f, t),
           f = "control" => /\ t \in Numbers
                            /\ calls[t].function = "spawn"
                            /\ calls[t].client = "has_answer"
    PROVE  IInv'
<1> DEFINE c == [function |-> f, target |-> t, stage |-> "sent",
                 client |-> "waits", id |-> None, runs |-> 0]
<1> USE DEF Make, serverVars, worldVars
<1>1. c \in Call
    BY DEF Call, None
<1>2. \A j \in Numbers : calls'[j] = IF j = k THEN c ELSE calls[j]
    BY DEF IInv, TypeOK
<1>3. TypeOK'
    BY <1>1 DEF IInv, TypeOK
<1>0. /\ c.function = f /\ c.target = t /\ c.stage = "sent"
      /\ c.client = "waits" /\ c.runs = 0
    OBVIOUS
<1>4. /\ calls[k].stage = "none" /\ calls[k].function = "ping"
      /\ calls[k].runs = 0 /\ calls[k].client # "has_answer"
    BY DEF IInv, StageInv
<1>12. calls'[k].runs = 0
    BY <1>0, <1>2
<1>11. calls' = [calls EXCEPT ![k] = c] /\ UNCHANGED <<queue, count, agents, controlled>>
    OBVIOUS
<1> HIDE DEF c, Make, serverVars, worldVars
<1>5. StageInv'
    <2> SUFFICES ASSUME NEW j \in Numbers
                 PROVE  (calls'[j].stage = "none" => calls'[j].function = "ping"
                                                     /\ calls'[j].client = "none") /\
                        (calls'[j].stage \in {"none", "sent", "taken", "posted"}
                               => calls'[j].runs = 0) /\
                        (calls'[j].stage \in {"ready", "answered"} => calls'[j].runs = 1) /\
                        (calls'[j].client = "has_answer" => calls'[j].stage = "answered") /\
                        (calls'[j].stage \in {"posted", "ready"} => calls'[j].function # "ping")
        BY DEF StageInv, IsSync, Numbers
    <2>1. CASE j = k
        BY <1>0, <1>2, <2>1
    <2>2. CASE j # k
        BY <1>2, <2>2 DEF IInv, StageInv, IsSync
    <2> QED BY <2>1, <2>2
<1>6. FramesOutliveTasks'
    BY <1>1, <1>4, <1>11, QueueStays DEF IInv
<1>7. HandleInv'
    <2> SUFFICES ASSUME NEW j \in Numbers, calls'[j].function = "control"
                 PROVE  /\ calls'[j].target \in Numbers
                        /\ calls'[calls'[j].target].function = "spawn"
                        /\ calls'[calls'[j].target].client = "has_answer"
        BY DEF HandleInv, Numbers
    <2>1. PICK h \in Numbers : /\ calls'[j].target = h
                               /\ calls[h].function = "spawn"
                               /\ calls[h].client = "has_answer"
        <3>1. CASE j = k
            BY <1>0, <1>2, <3>1
        <3>2. CASE j # k
            <4>1. calls'[j] = calls[j]
                BY <1>2, <3>2
            <4> QED BY <4>1 DEF IInv, HandleInv
        <3> QED BY <3>1, <3>2
    <2>2. h # k
        BY <1>4, <2>1
    <2> QED BY <1>2, <2>1, <2>2
<1>8. AgentInv'
    <2> SUFFICES ASSUME NEW j \in Numbers,
                        calls'[j].function = "spawn", calls'[j].runs = 1
                 PROVE  \/ calls'[j].id = NoAgent
                        \/ calls'[j].id \in DOMAIN agents /\ agents[calls'[j].id] = j
        BY <1>11 DEF AgentInv, NoAgent, Numbers
    <2>1. calls'[j] = calls[j]
        <3>1. j # k
            BY <1>12, ZeroAndOne, Zenon
        <3> QED BY <1>2, <3>1
    <2> QED BY <2>1 DEF IInv, AgentInv
<1>9. ControlInv'
    <2> SUFFICES ASSUME NEW i \in DOMAIN agents, controlled[i] # None
                 PROVE  /\ controlled[i] \in Numbers
                        /\ calls'[controlled[i]].function = "control"
                        /\ calls'[controlled[i]].target = agents[i]
        BY <1>11 DEF ControlInv, None, Numbers
    <2>1. PICK n \in Numbers : /\ controlled[i] = n
                               /\ calls[n].function = "control"
                               /\ calls[n].target = agents[i]
        BY DEF IInv, ControlInv
    <2>2. n # k
        BY <1>4, <2>1
    <2> QED BY <1>2, <2>1, <2>2
<1>10. CountInv'
    <2>1. RanSpawns' = RanSpawns
        <3>1. \A j \in Numbers : j # k => calls'[j] = calls[j]
            BY <1>2
        <3>2. \A j \in Numbers :
                  calls'[j].function = "spawn" /\ calls'[j].runs = 1
                      <=> calls[j].function = "spawn" /\ calls[j].runs = 1
            BY <1>4, <1>12, <3>1, ZeroAndOne, Zenon
        <3> QED BY <3>2 DEF RanSpawns
    <2> QED BY <1>11, <2>1 DEF IInv, CountInv
<1> QED BY <1>3, <1>5, <1>6, <1>7, <1>8, <1>9, <1>10 DEF IInv

-----------------------------------------------------------------------------
(* The clients that give up, and the workers.                              *)

(* Call k goes on to c and the world stands still: what is left to show of *)
(* such a step.                                                            *)
LEMMA StepIInv ==
    ASSUME IInv, NEW k \in Numbers, NEW c \in Call,
           calls' = [calls EXCEPT ![k] = c],
           c.function = calls[k].function,
           c.target = calls[k].target,
           c.id = calls[k].id,
           calls[k].client = "has_answer" => c.client = "has_answer",
           c.function = "spawn" => c.runs = calls[k].runs,
           c.stage \in {"sent", "taken", "posted"} => c.runs = 0,
           c.stage \in {"ready", "answered"} => c.runs = 1,
           c.client = "has_answer" => c.stage = "answered",
           c.stage \in {"posted", "ready"} => c.function # "ping",
           c.stage # "none",
           queue' \in Seq(Numbers), FramesOutliveTasks',
           UNCHANGED <<drained, slice, game>>, UNCHANGED worldVars
    PROVE  IInv'
<1>1. TypeOK'
    BY DEF IInv, TypeOK, worldVars
<1>2. HandleInv' /\ AgentInv' /\ ControlInv' /\ CountInv'
    BY CallMoves DEF IInv
<1>3. StageInv'
    <2> SUFFICES ASSUME NEW j \in Numbers
                 PROVE  (calls'[j].stage = "none" => calls'[j].function = "ping"
                                                     /\ calls'[j].client = "none") /\
                        (calls'[j].stage \in {"none", "sent", "taken", "posted"}
                               => calls'[j].runs = 0) /\
                        (calls'[j].stage \in {"ready", "answered"} => calls'[j].runs = 1) /\
                        (calls'[j].client = "has_answer" => calls'[j].stage = "answered") /\
                        (calls'[j].stage \in {"posted", "ready"} => calls'[j].function # "ping")
        BY DEF StageInv, IsSync, Numbers
    <2>1. CASE j = k
        <3>1. calls'[j] = c
            BY <2>1 DEF IInv, TypeOK
        <3>2. c.stage \in {"sent", "taken", "posted", "ready", "answered"}
            BY DEF Call
        <3> QED BY <3>1, <3>2
    <2>2. CASE j # k
        <3>1. calls'[j] = calls[j]
            BY <2>2 DEF IInv, TypeOK
        <3> QED BY <3>1 DEF IInv, StageInv, IsSync
    <2> QED BY <2>1, <2>2
<1> QED BY <1>1, <1>2, <1>3 DEF IInv

LEMMA GiveUpIInv ==
    ASSUME IInv, NEW k \in Numbers, GiveUp(k)
    PROVE  IInv'
<1> DEFINE c == [calls[k] EXCEPT !.client = "gave_up"]
<1>1. calls[k] \in Call /\ queue \in Seq(Numbers)
    BY DEF IInv, TypeOK
<1>2. c \in Call
    BY <1>1 DEF Call
<1>3. /\ c.function = calls[k].function /\ c.target = calls[k].target
      /\ c.id = calls[k].id /\ c.runs = calls[k].runs
      /\ c.stage = calls[k].stage /\ c.client = "gave_up"
    BY <1>1 DEF Call
<1>4. calls' = [calls EXCEPT ![k] = c] /\ calls[k].client = "waits"
    BY DEF GiveUp
<1>5. queue' = queue /\ UNCHANGED <<drained, slice, game>> /\ UNCHANGED worldVars
    BY DEF GiveUp, serverVars
<1> HIDE DEF c
<1>6. FramesOutliveTasks'
    BY <1>2, <1>3, <1>4, <1>5, QueueStays DEF IInv
<1>7. calls[k].stage # "none"
    BY <1>4 DEF IInv, StageInv
<1> QED BY <1>1, <1>2, <1>3, <1>4, <1>5, <1>6, <1>7, StepIInv DEF IInv, StageInv, IsSync

LEMMA ClientIInv ==
    ASSUME IInv, NEW k \in Numbers, Client(k)
    PROVE  IInv'
<1>1. 0 \in 0..MaxCalls
    BY CallsAssumption
<1>2. CASE Ping(k)
    BY <1>1, <1>2, MakeIInv DEF Ping, None
<1>3. CASE SpawnActor(k)
    BY <1>1, <1>3, MakeIInv DEF SpawnActor, None
<1>4. CASE ApplyControl(k)
    <2>1. PICK h \in Numbers : /\ calls[h].function = "spawn"
                               /\ calls[h].client = "has_answer"
                               /\ Make(k, "control", h)
        BY <1>4 DEF ApplyControl
    <2>2. h \in 0..MaxCalls
        BY CallsAssumption DEF Numbers
    <2> QED BY <2>1, <2>2, MakeIInv
<1> QED BY <1>2, <1>3, <1>4, GiveUpIInv DEF Client

LEMMA TakeCallIInv ==
    ASSUME IInv, NEW k \in Numbers, TakeCall(k)
    PROVE  IInv'
<1> DEFINE c == [calls[k] EXCEPT !.stage = "taken"]
<1>1. calls[k] \in Call /\ queue \in Seq(Numbers)
    BY DEF IInv, TypeOK
<1>2. c \in Call
    BY <1>1 DEF Call
<1>3. /\ c.function = calls[k].function /\ c.target = calls[k].target
      /\ c.id = calls[k].id /\ c.runs = calls[k].runs
      /\ c.stage = "taken" /\ c.client = calls[k].client
    BY <1>1 DEF Call
<1>4. calls' = [calls EXCEPT ![k] = c] /\ calls[k].stage = "sent"
    BY DEF TakeCall
<1>5. queue' = queue /\ UNCHANGED <<drained, slice, game>> /\ UNCHANGED worldVars
    BY DEF TakeCall, serverVars
<1> HIDE DEF c
<1>6. FramesOutliveTasks'
    BY <1>2, <1>4, <1>5, QueueStays DEF IInv
<1> QED BY <1>1, <1>2, <1>3, <1>4, <1>5, <1>6, StepIInv DEF IInv, StageInv

LEMMA RunAsyncIInv ==
    ASSUME IInv, NEW k \in Numbers, RunAsync(k)
    PROVE  IInv'
<1> DEFINE c == Answered(Ran(calls[k]))
<1>1. calls[k] \in Call /\ queue \in Seq(Numbers)
    BY DEF IInv, TypeOK
<1>2. /\ calls[k].stage = "taken" /\ calls[k].function = "ping"
      /\ queue' = queue /\ UNCHANGED <<drained, slice, game>>
      /\ UNCHANGED worldVars
    BY DEF RunAsync, IsSync, serverVars
<1>3. calls' = [calls EXCEPT ![k] = c]
    BY DEF RunAsync
<1>4. calls[k].runs = 0 /\ calls[k].client # "has_answer"
    BY <1>2 DEF IInv, StageInv
<1>5. /\ c \in Call
      /\ c.function = calls[k].function /\ c.target = calls[k].target
      /\ c.id = calls[k].id /\ c.runs = calls[k].runs + 1
      /\ c.stage = "answered"
    <2> DEFINE r == Ran(calls[k])
    <2>1. /\ r \in Call
          /\ r.function = calls[k].function /\ r.target = calls[k].target
          /\ r.id = calls[k].id /\ r.runs = calls[k].runs + 1
        BY <1>1, RanCall
    <2> HIDE DEF r
    <2>2. /\ Answered(r) \in Call
          /\ Answered(r).function = r.function /\ Answered(r).target = r.target
          /\ Answered(r).id = r.id /\ Answered(r).runs = r.runs
          /\ Answered(r).stage = "answered"
        BY <2>1, AnsweredCall
    <2> QED BY <2>1, <2>2 DEF r
<1> HIDE DEF c
<1>6. c.runs = 1
    BY <1>4, <1>5, ZeroAndOne, Zenon
<1>7. FramesOutliveTasks'
    BY <1>2, <1>3, <1>5, QueueStays DEF IInv
<1> QED BY <1>1, <1>2, <1>3, <1>4, <1>5, <1>6, <1>7, StepIInv

LEMMA ReturnResultIInv ==
    ASSUME IInv, NEW k \in Numbers, ReturnResult(k)
    PROVE  IInv'
<1> DEFINE c == Answered(calls[k])
<1>1. calls[k] \in Call /\ queue \in Seq(Numbers)
    BY DEF IInv, TypeOK
<1>2. /\ c \in Call
      /\ c.function = calls[k].function /\ c.target = calls[k].target
      /\ c.id = calls[k].id /\ c.runs = calls[k].runs
      /\ c.stage = "answered"
      /\ calls[k].client = "has_answer" => c.client = "has_answer"
    BY <1>1, AnsweredCall
<1>3. calls' = [calls EXCEPT ![k] = c] /\ calls[k].stage = "ready"
    BY DEF ReturnResult
<1>4. queue' = queue /\ UNCHANGED <<drained, slice, game>> /\ UNCHANGED worldVars
    BY DEF ReturnResult, serverVars
<1> HIDE DEF c
<1>5. FramesOutliveTasks'
    BY <1>2, <1>3, <1>4, QueueStays DEF IInv
<1>6. c.runs = 1
    BY <1>2, <1>3 DEF IInv, StageInv
<1> QED BY <1>1, <1>2, <1>3, <1>4, <1>5, <1>6, StepIInv

(* A call is posted once: no task of the queue is its task already. *)
LEMMA PostTaskIInv ==
    ASSUME IInv, NEW k \in Numbers, PostTask(k)
    PROVE  IInv'
<1> DEFINE c == [calls[k] EXCEPT !.stage = "posted"]
<1>1. calls[k] \in Call /\ queue \in Seq(Numbers)
    BY DEF IInv, TypeOK
<1>2. c \in Call
    BY <1>1 DEF Call
<1>3. /\ c.function = calls[k].function /\ c.target = calls[k].target
      /\ c.id = calls[k].id /\ c.runs = calls[k].runs
      /\ c.stage = "posted" /\ c.client = calls[k].client
    BY <1>1 DEF Call
<1>4. /\ calls' = [calls EXCEPT ![k] = c]
      /\ calls[k].stage = "taken" /\ calls[k].function # "ping"
      /\ queue' = Append(queue, k)
    BY DEF PostTask, IsSync
<1>5. UNCHANGED <<drained, slice, game>> /\ UNCHANGED worldVars
    BY DEF PostTask
<1> HIDE DEF c
<1>6. \A i \in 1..Len(queue) : queue[i] \in Numbers /\ queue[i] # k
    BY <1>1, <1>4 DEF IInv, FramesOutliveTasks
<1>7. queue' \in Seq(Numbers)
    BY <1>1, <1>4
<1>8. FramesOutliveTasks'
    <2>1. \A j \in Numbers : calls'[j] = IF j = k THEN c ELSE calls[j]
        BY <1>4 DEF IInv, TypeOK
    <2>2. /\ Len(queue') = Len(queue) + 1 /\ Len(queue) \in Nat
          /\ \A i \in 1..Len(queue') :
                queue'[i] = IF i = Len(queue) + 1 THEN k ELSE queue[i]
        BY <1>1, <1>4
    <2>3. \A i \in 1..Len(queue') : calls'[queue'[i]].stage = "posted"
        BY <1>3, <1>6, <2>1, <2>2 DEF IInv, FramesOutliveTasks
    <2>4. \A i, j \in 1..Len(queue') : queue'[i] = queue'[j] => i = j
        BY <1>6, <2>2 DEF IInv, FramesOutliveTasks
    <2> QED BY <2>3, <2>4 DEF FramesOutliveTasks
<1> QED BY <1>2, <1>3, <1>4, <1>5, <1>7, <1>8, StepIInv DEF IInv, StageInv

-----------------------------------------------------------------------------
(* The game thread.                                                        *)

(* The first task leaves the queue and its call is not posted any more.    *)
LEMMA QueueMoves ==
    ASSUME TypeOK, FramesOutliveTasks, queue # <<>>, NEW c \in Call,
           calls' = [calls EXCEPT ![Head(queue)] = c], queue' = Tail(queue)
    PROVE  FramesOutliveTasks' /\ queue' \in Seq(Numbers)
<1>1. /\ queue \in Seq(Numbers) /\ Len(queue) \in Nat /\ Len(queue) > 0
      /\ Head(queue) = queue[1] /\ Head(queue) \in Numbers
      /\ Len(queue') = Len(queue) - 1
      /\ \A i \in 1..Len(queue') : queue'[i] = queue[i + 1]
      /\ queue' \in Seq(Numbers)
    BY DEF TypeOK
<1>2. \A i \in 1..Len(queue') : queue[i + 1] \in Numbers /\ queue[i + 1] # Head(queue)
    BY <1>1 DEF FramesOutliveTasks
<1>3. \A j \in Numbers : j # Head(queue) => calls'[j] = calls[j]
    BY <1>1 DEF TypeOK
<1>4. \A i \in 1..Len(queue') : calls'[queue'[i]].stage = "posted"
    BY <1>1, <1>2, <1>3 DEF FramesOutliveTasks
<1>5. \A i, j \in 1..Len(queue') : queue'[i] = queue'[j] => i = j
    BY <1>1 DEF FramesOutliveTasks
<1> QED BY <1>1, <1>4, <1>5 DEF FramesOutliveTasks

(* Call k is ready: stages and handles. *)
LEMMA ReadyStages ==
    ASSUME IInv, NEW k \in Numbers, NEW c \in Call,
           calls[k].stage = "posted", calls' = [calls EXCEPT ![k] = c],
           c.function = calls[k].function, c.target = calls[k].target,
           c.client = calls[k].client, c.runs = 1, c.stage = "ready"
    PROVE  StageInv' /\ HandleInv'
<1>1. \A j \in Numbers : calls'[j] = IF j = k THEN c ELSE calls[j]
    BY DEF IInv, TypeOK
<1>2. StageInv'
    <2> SUFFICES ASSUME NEW j \in Numbers
                 PROVE  (calls'[j].stage = "none" => calls'[j].function = "ping"
                                                     /\ calls'[j].client = "none") /\
                        (calls'[j].stage \in {"none", "sent", "taken", "posted"}
                               => calls'[j].runs = 0) /\
                        (calls'[j].stage \in {"ready", "answered"} => calls'[j].runs = 1) /\
                        (calls'[j].client = "has_answer" => calls'[j].stage = "answered") /\
                        (calls'[j].stage \in {"posted", "ready"} => calls'[j].function # "ping")
        BY DEF StageInv, IsSync, Numbers
    <2>1. CASE j = k
        <3>1. calls'[j] = c
            BY <1>1, <2>1
        <3>2. calls[k].function # "ping" /\ calls[k].client # "has_answer"
            BY DEF IInv, StageInv, IsSync
        <3> QED BY <3>1, <3>2
    <2>2. CASE j # k
        <3>1. calls'[j] = calls[j]
            BY <1>1, <2>2
        <3> QED BY <3>1 DEF IInv, StageInv, IsSync
    <2> QED BY <2>1, <2>2
<1>3. HandleInv'
    <2>1. \A j \in Numbers :
              /\ calls'[j].function = calls[j].function
              /\ calls'[j].target = calls[j].target
              /\ calls[j].client = "has_answer" => calls'[j].client = "has_answer"
        BY <1>1
    <2> SUFFICES ASSUME NEW j \in Numbers, calls'[j].function = "control"
                 PROVE  /\ calls'[j].target \in Numbers
                        /\ calls'[calls'[j].target].function = "spawn"
                        /\ calls'[calls'[j].target].client = "has_answer"
        BY DEF HandleInv, Numbers
    <2>2. PICK t \in Numbers : /\ calls'[j].target = t
                               /\ calls[t].function = "spawn"
                               /\ calls[t].client = "has_answer"
        <3>1. calls[j].function = "control" /\ calls'[j].target = calls[j].target
            BY <2>1
        <3> QED BY <3>1 DEF IInv, HandleInv
    <2> QED BY <2>1, <2>2
<1> QED BY <1>2, <1>3

(* A spawn that is posted is not counted yet. *)
LEMMA RoomToSpawn ==
    ASSUME IInv, NEW k \in Numbers,
           calls[k].stage = "posted", calls[k].function = "spawn"
    PROVE  /\ k \notin RanSpawns
           /\ Cardinality(RanSpawns \cup {k}) = count + 1
           /\ count + 1 \in 1..MaxCalls
<1>1. calls[k].runs = 0
    BY DEF IInv, StageInv
<1>2. k \notin RanSpawns
    BY <1>1, ZeroAndOne DEF RanSpawns
<1>3. IsFiniteSet(RanSpawns) /\ Cardinality(RanSpawns) \in Nat
    BY SpawnsAreCounted
<1>4. Cardinality(RanSpawns \cup {k}) = Cardinality(RanSpawns) + 1
    BY <1>2, <1>3, FS_AddElement
<1>5. RanSpawns \cup {k} \subseteq Numbers
    BY DEF RanSpawns
<1>6. Cardinality(RanSpawns \cup {k}) <= MaxCalls
    BY <1>5, NumbersAreFinite, FS_Subset
<1>7. count = Cardinality(RanSpawns)
    BY DEF IInv, CountInv
<1> QED BY <1>2, <1>3, <1>4, <1>6, <1>7, CallsAssumption

LEMMA SpawnAgentIInv ==
    ASSUME IInv, NEW spawned \in BOOLEAN, queue # <<>>,
           calls[Head(queue)].function = "spawn",
           SpawnAgent(Head(queue), spawned), queue' = Tail(queue),
           UNCHANGED <<drained, game>>, slice' = "used"
    PROVE  IInv'
<1> DEFINE k == Head(queue)
           id == IF spawned THEN count' ELSE NoAgent
           c == Ready(calls[k], id)
<1>1. k \in Numbers /\ calls[k].stage = "posted"
    <2>1. Len(queue) > 0 /\ k = queue[1] /\ queue[1] \in Numbers
        BY DEF IInv, TypeOK
    <2> QED BY <2>1 DEF IInv, FramesOutliveTasks
<1>2. calls[k] \in Call
    BY <1>1 DEF IInv, TypeOK
<1>3. count' = count + 1 /\ calls' = [calls EXCEPT ![k] = c]
    BY DEF SpawnAgent
<1>4. IF spawned
        THEN /\ agents' = [i \in DOMAIN agents \cup {count'} |->
                                IF i = count' THEN k ELSE agents[i]]
             /\ controlled' = [i \in DOMAIN agents' |->
                                IF i = count' THEN None ELSE controlled[i]]
        ELSE agents' = agents /\ controlled' = controlled
    BY DEF SpawnAgent
<1>5. calls[k].function = "spawn" /\ calls[k].runs = 0
    BY <1>1 DEF IInv, StageInv
<1>6. calls' = [calls EXCEPT ![Head(queue)] = c]
    BY <1>3
<1> HIDE DEF k
<1>7. /\ k \notin RanSpawns /\ Cardinality(RanSpawns \cup {k}) = count'
      /\ count' \in 1..MaxCalls
    BY <1>1, <1>3, <1>5, RoomToSpawn
<1>8. /\ c \in Call /\ c.function = calls[k].function
      /\ c.target = calls[k].target /\ c.stage = "ready"
      /\ c.client = calls[k].client /\ c.id = id
      /\ c.runs = calls[k].runs + 1
    <2>1. id \in {None, NoAgent} \cup 1..MaxCalls
        BY <1>7
    <2> HIDE DEF id
    <2> QED BY <1>2, <2>1, ReadyCall
<1> HIDE DEF c
<1>9. c.runs = 1
    BY <1>5, <1>8, ZeroAndOne, Zenon
<1>10. StageInv' /\ HandleInv'
    BY <1>1, <1>3, <1>8, <1>9, ReadyStages
<1>11. FramesOutliveTasks' /\ queue' \in Seq(Numbers)
    BY <1>6, <1>8, QueueMoves DEF IInv
<1>12. \A j \in Numbers : calls'[j] = IF j = k THEN c ELSE calls[j]
    BY <1>3 DEF IInv, TypeOK
<1>13. CountInv'
    <2>1. RanSpawns' = RanSpawns \cup {k}
        BY <1>1, <1>5, <1>8, <1>9, <1>12
        DEF RanSpawns, Numbers
    <2> QED BY <1>7, <2>1 DEF CountInv
<1>14. TypeOK'
    <2>1. calls' \in [Numbers -> Call]
        BY <1>3, <1>8 DEF IInv, TypeOK
    <2>2. count' \in 0..MaxCalls /\ DOMAIN agents' \subseteq 1..count'
        BY <1>3, <1>4, <1>7 DEF IInv, TypeOK
    <2>3. agents' \in [DOMAIN agents' -> Numbers]
        BY <1>1, <1>4 DEF IInv, TypeOK
    <2>4. controlled' \in [DOMAIN agents' -> 0..MaxCalls]
        BY <1>4, CallsAssumption DEF IInv, TypeOK, None
    <2> QED BY <1>11, <2>1, <2>2, <2>3, <2>4 DEF IInv, TypeOK, Numbers
<1>15. AgentInv'
    <2> SUFFICES ASSUME NEW j \in Numbers,
                        calls'[j].function = "spawn", calls'[j].runs = 1
                 PROVE  \/ calls'[j].id = NoAgent
                        \/ calls'[j].id \in DOMAIN agents' /\ agents'[calls'[j].id] = j
        BY DEF AgentInv, NoAgent, Numbers
    <2>1. CASE j = k
        <3>1. calls'[j].id = id
            BY <1>8, <1>12, <2>1
        <3>2. CASE spawned
            <4>1. id = count' /\ DOMAIN agents' = DOMAIN agents \cup {count'}
                  /\ agents'[count'] = k
                BY <1>4, <3>2
            <4> QED BY <2>1, <3>1, <4>1, Zenon
        <3>3. CASE ~spawned
            BY <3>1, <3>3
        <3> QED BY <3>2, <3>3
    <2>2. CASE j # k
        <3>1. calls'[j] = calls[j]
            BY <1>12, <2>2
        <3>2. \/ calls[j].id = NoAgent
              \/ calls[j].id \in DOMAIN agents /\ agents[calls[j].id] = j
            BY <3>1 DEF IInv, AgentInv
        <3>3. \A i \in DOMAIN agents : i \in DOMAIN agents' /\ agents'[i] = agents[i]
            BY <1>3, <1>4 DEF IInv, TypeOK
        <3> QED BY <3>1, <3>2, <3>3, Zenon
    <2> QED BY <2>1, <2>2
<1>16. ControlInv'
    <2> SUFFICES ASSUME NEW i \in DOMAIN agents', controlled'[i] # None
                 PROVE  /\ controlled'[i] \in Numbers
                        /\ calls'[controlled'[i]].function = "control"
                        /\ calls'[controlled'[i]].target = agents'[i]
        BY DEF ControlInv, None, Numbers
    <2>1. /\ i \in DOMAIN agents
          /\ controlled'[i] = controlled[i] /\ agents'[i] = agents[i]
        BY <1>3, <1>4 DEF IInv, TypeOK
    <2>2. PICK n \in Numbers : /\ controlled[i] = n
                               /\ calls[n].function = "control"
                               /\ calls[n].target = agents[i]
        BY <2>1 DEF IInv, ControlInv
    <2>3. calls'[n] = calls[n]
        <3>1. n # k
            BY <1>5, <2>2
        <3> QED BY <1>12, <3>1
    <2> QED BY <2>1, <2>2, <2>3
<1> QED BY <1>10, <1>11, <1>13, <1>14, <1>15, <1>16 DEF IInv

(* The handle of a control holds the id of its own vehicle, or of none. *)
LEMMA HandleOwnsVehicle ==
    ASSUME IInv, NEW k \in Numbers, calls[k].function = "control"
    PROVE  /\ calls[k].target \in Numbers
           /\ calls[calls[k].target].id \in DOMAIN agents
                  => agents[calls[calls[k].target].id] = calls[k].target
<1>1. PICK t \in Numbers : /\ calls[k].target = t
                           /\ calls[t].function = "spawn"
                           /\ calls[t].client = "has_answer"
    BY DEF IInv, HandleInv
<1>2. calls[t].runs = 1
    BY <1>1 DEF IInv, StageInv
<1>3. \/ calls[t].id = NoAgent
      \/ calls[t].id \in DOMAIN agents /\ agents[calls[t].id] = t
    BY <1>1, <1>2 DEF IInv, AgentInv
<1>4. NoAgent \notin DOMAIN agents
    BY NoAgentIsNone DEF IInv
<1> QED BY <1>1, <1>3, <1>4, Zenon

LEMMA ControlAgentIInv ==
    ASSUME IInv, queue # <<>>, calls[Head(queue)].function # "spawn",
           ControlAgent(Head(queue)), queue' = Tail(queue),
           UNCHANGED <<drained, game>>, slice' = "used"
    PROVE  IInv'
<1> DEFINE k == Head(queue)
           c == Ready(calls[k], None)
           t == calls[k].target
           id == calls[t].id
<1>1. k \in Numbers /\ calls[k].stage = "posted"
    <2>1. Len(queue) > 0 /\ k = queue[1] /\ queue[1] \in Numbers
        BY DEF IInv, TypeOK
    <2> QED BY <2>1 DEF IInv, FramesOutliveTasks
<1>2. calls[k] \in Call
    BY <1>1 DEF IInv, TypeOK
<1>3. /\ calls' = [calls EXCEPT ![k] = c]
      /\ controlled' = IF id \in DOMAIN agents
                         THEN [controlled EXCEPT ![id] = k] ELSE controlled
      /\ count' = count /\ agents' = agents
    BY DEF ControlAgent
<1>4. calls' = [calls EXCEPT ![Head(queue)] = c]
    BY <1>3
<1>5. calls[k].function # "spawn"
    OBVIOUS
<1> HIDE DEF k
<1>6. calls[k].function = "control" /\ calls[k].runs = 0
    <2>1. calls[k].function # "ping" /\ calls[k].runs = 0
        BY <1>1 DEF IInv, StageInv, IsSync
    <2>2. calls[k].function \in {"ping", "spawn", "control"}
        BY <1>2 DEF Call
    <2> QED BY <1>5, <2>1, <2>2
<1>7. id \in DOMAIN agents => agents[id] = t
    BY <1>1, <1>6, HandleOwnsVehicle
<1>8. /\ c \in Call /\ c.function = calls[k].function
      /\ c.target = t /\ c.stage = "ready"
      /\ c.client = calls[k].client
      /\ c.runs = calls[k].runs + 1
    BY <1>2, ReadyCall
<1> HIDE DEF c, t, id
<1>9. c.runs = 1
    BY <1>6, <1>8, ZeroAndOne, Zenon
<1>10. StageInv' /\ HandleInv'
    BY <1>1, <1>3, <1>8, <1>9, ReadyStages DEF t
<1>11. FramesOutliveTasks' /\ queue' \in Seq(Numbers)
    BY <1>4, <1>8, QueueMoves DEF IInv
<1>12. \A j \in Numbers : calls'[j] = IF j = k THEN c ELSE calls[j]
    BY <1>3 DEF IInv, TypeOK
<1>13. CountInv' /\ AgentInv'
    <2>1. \A j \in Numbers : j # k => calls'[j] = calls[j]
        BY <1>12
    <2>2. calls'[k].function # "spawn"
        BY <1>1, <1>6, <1>8, <1>12
    <2>3. RanSpawns' = RanSpawns
        BY <1>6, <2>1, <2>2 DEF RanSpawns, Numbers
    <2>4. CountInv'
        BY <1>3, <2>3 DEF IInv, CountInv
    <2>5. AgentInv'
        <3> SUFFICES ASSUME NEW j \in Numbers,
                            calls'[j].function = "spawn", calls'[j].runs = 1
                     PROVE  \/ calls'[j].id = NoAgent
                            \/ calls'[j].id \in DOMAIN agents /\ agents[calls'[j].id] = j
            BY <1>3 DEF AgentInv, NoAgent, Numbers
        <3>1. calls'[j] = calls[j]
            BY <2>1, <2>2
        <3> QED BY <3>1 DEF IInv, AgentInv
    <2> QED BY <2>4, <2>5
<1>14. TypeOK'
    <2>1. calls' \in [Numbers -> Call]
        BY <1>3, <1>8 DEF IInv, TypeOK
    <2>2. controlled' \in [DOMAIN agents -> 0..MaxCalls]
        BY <1>1, <1>3 DEF IInv, TypeOK, Numbers
    <2> QED BY <1>3, <1>11, <2>1, <2>2 DEF IInv, TypeOK, Numbers
<1>15. ControlInv'
    <2> SUFFICES ASSUME NEW i \in DOMAIN agents, controlled'[i] # None
                 PROVE  /\ controlled'[i] \in Numbers
                        /\ calls'[controlled'[i]].function = "control"
                        /\ calls'[controlled'[i]].target = agents[i]
        BY <1>3 DEF ControlInv, None, Numbers
    <2>1. CASE i = id
        <3>1. controlled'[i] = k /\ agents[i] = t
            BY <1>3, <1>7, <2>1 DEF IInv, TypeOK
        <3>2. calls'[k].function = "control" /\ calls'[k].target = t
            BY <1>1, <1>6, <1>8, <1>12
        <3> QED BY <1>1, <3>1, <3>2
    <2>2. CASE i # id
        <3>1. controlled'[i] = controlled[i]
            BY <1>3, <2>2 DEF IInv, TypeOK
        <3>2. PICK n \in Numbers : /\ controlled[i] = n
                                   /\ calls[n].function = "control"
                                   /\ calls[n].target = agents[i]
            BY <3>1 DEF IInv, ControlInv
        <3>3. calls'[n].function = calls[n].function /\ calls'[n].target = calls[n].target
            BY <1>8, <1>12 DEF t
        <3> QED BY <3>1, <3>2, <3>3
    <2> QED BY <2>1, <2>2
<1> QED BY <1>10, <1>11, <1>13, <1>14, <1>15 DEF IInv

-----------------------------------------------------------------------------
(* A step that leaves the calls, the queue and the world as they are. *)
LEMMA IdleIInv ==
    ASSUME IInv, UNCHANGED <<calls, queue, worldVars>>,
           drained' \in BOOLEAN, slice' \in {"off", "fresh", "used"},
           game' \in {"play", "ending", "ended"}
    PROVE  IInv'
<1> USE DEF worldVars
<1>1. TypeOK'
    BY DEF IInv, TypeOK, Numbers
<1>2. StageInv' /\ HandleInv' /\ AgentInv'
    BY DEF IInv, StageInv, HandleInv, AgentInv, NoAgent, Numbers, IsSync
<1>3. FramesOutliveTasks' /\ ControlInv'
    BY DEF IInv, FramesOutliveTasks, ControlInv, None, Numbers
<1>4. CountInv'
    <2>1. RanSpawns' = RanSpawns
        BY DEF RanSpawns, Numbers
    <2> QED BY <2>1 DEF IInv, CountInv
<1> QED BY <1>1, <1>2, <1>3, <1>4 DEF IInv

LEMMA GameIInv ==
    ASSUME IInv, Game \/ EndPlay \/ StopReturns
    PROVE  IInv'
<1>1. drained \in BOOLEAN /\ slice \in {"off", "fresh", "used"}
      /\ game \in {"play", "ending", "ended"}
    BY DEF IInv, TypeOK
<1>2. CASE Tick
    BY <1>1, <1>2, IdleIInv DEF Tick
<1>3. CASE SliceEnds
    BY <1>1, <1>3, IdleIInv DEF SliceEnds
<1>4. CASE EndPlay
    BY <1>1, <1>4, IdleIInv DEF EndPlay
<1>5. CASE StopReturns
    BY <1>1, <1>5, IdleIInv DEF StopReturns
<1>6. CASE RunTask
    <2>1. /\ queue # <<>> /\ queue' = Tail(queue) /\ slice' = "used"
          /\ UNCHANGED <<drained, game>>
        BY <1>6 DEF RunTask, InSlice
    <2>2. CASE calls[Head(queue)].function = "spawn"
        <3>1. PICK spawned \in BOOLEAN : SpawnAgent(Head(queue), spawned)
            BY <1>6, <2>2 DEF RunTask
        <3> QED BY <2>1, <2>2, <3>1, SpawnAgentIInv
    <2>3. CASE calls[Head(queue)].function # "spawn"
        <3>1. ControlAgent(Head(queue))
            BY <1>6, <2>3 DEF RunTask
        <3> QED BY <2>1, <2>3, <3>1, ControlAgentIInv
    <2> QED BY <2>2, <2>3
<1> QED BY <1>2, <1>3, <1>4, <1>5, <1>6 DEF Game

(* Every step of a client, a worker or the game thread keeps it. *)
THEOREM NextIInv == IInv /\ [Next]_vars => IInv'
<1> SUFFICES ASSUME IInv, [Next]_vars PROVE IInv'
    OBVIOUS
<1>1. CASE \E k \in Numbers : Client(k) \/ Worker(k)
    <2>1. PICK k \in Numbers : Client(k) \/ Worker(k)
        BY <1>1
    <2>2. CASE Client(k)
        BY <2>2, ClientIInv
    <2>3. CASE Worker(k)
        BY <2>3, TakeCallIInv, RunAsyncIInv, PostTaskIInv, ReturnResultIInv
        DEF Worker
    <2> QED BY <2>1, <2>2, <2>3
<1>2. CASE Game \/ EndPlay \/ StopReturns
    BY <1>2, GameIInv
<1>3. CASE UNCHANGED vars
    <2>1. UNCHANGED <<calls, queue, worldVars>> /\ UNCHANGED <<drained, slice, game>>
        BY <1>3 DEF vars, worldVars
    <2> QED BY <2>1, IdleIInv DEF IInv, TypeOK
<1> QED BY <1>1, <1>2, <1>3 DEF Next

(* Every state of the server satisfies the invariant. *)
THEOREM Invariant == Spec => []IInv
BY InitIInv, NextIInv, PTL DEF Spec

-----------------------------------------------------------------------------
(* The state keeps its types; COUNT never passes the number of calls, so   *)
(* an id is never the one of a failed spawn (Server.cpp:41-59).            *)
THEOREM TypeCorrect == Spec => []TypeOK
<1>1. IInv => TypeOK
    BY DEF IInv
<1> QED BY <1>1, Invariant, PTL

(* COUNT is the number of spawns that ran, whether there was a vehicle or  *)
(* not, and so no vehicle gets the id that stands for none                 *)
(* (Server.cpp:41-59).                                                     *)
CountsSpawns == count = Cardinality(RanSpawns) /\ NoAgent \notin DOMAIN agents

THEOREM CountAlwaysOfSpawns == Spec => []CountsSpawns
<1>1. IInv => CountsSpawns
    BY NoAgentIsNone DEF IInv, CountInv, CountsSpawns
<1> QED BY <1>1, Invariant, PTL

(* The references that a posted task holds are to the frame of a worker    *)
(* that waits for this task, and for no other (rpc/Server.h:44-59).        *)
THEOREM FramesAlwaysOutliveTasks == Spec => []FramesOutliveTasks
<1>1. IInv => FramesOutliveTasks
    BY DEF IInv
<1> QED BY <1>1, Invariant, PTL

(* No call runs twice, and an answer comes from a run (rpc/Server.h:46-57) *)
THEOREM AlwaysRunsOnce == Spec => []RunsOnce
<1>1. IInv => RunsOnce
    <2> SUFFICES ASSUME IInv, NEW k \in Numbers
                 PROVE  /\ calls[k].runs <= 1
                        /\ calls[k].client = "has_answer" => calls[k].runs = 1
        BY DEF RunsOnce
    <2>1. calls[k].stage \in
              {"none", "sent", "taken", "posted", "ready", "answered"}
        BY DEF IInv, TypeOK, Call
    <2>2. calls[k].runs = 0 \/ calls[k].runs = 1
        BY <2>1 DEF IInv, StageInv
    <2>3. calls[k].client = "has_answer" => calls[k].runs = 1
        BY DEF IInv, StageInv
    <2>4. \A r : r = 0 \/ r = 1 => r <= 1
        OBVIOUS
    <2> QED BY <2>2, <2>3, <2>4, Zenon
<1> QED BY <1>1, Invariant, PTL

(* A control reaches the vehicle its handle was returned for, or none      *)
(* (Server.cpp:41-72, RPCServer.cpp:63-74).                                *)
THEOREM AlwaysControlsOwnVehicle == Spec => []ControlsOwnVehicle
<1>1. IInv => ControlsOwnVehicle
    BY DEF IInv, ControlInv, ControlsOwnVehicle
<1> QED BY <1>1, Invariant, PTL

-----------------------------------------------------------------------------
(* The server implements RemoteCalls.  That needs the converse of AgentInv, *)
(* an agent is the vehicle of a spawn that ran and returned its id, and    *)
(* that who makes a call waits for it or did so.                           *)

OwnerInv ==
    \A i \in DOMAIN agents :
        LET c == calls[agents[i]] IN
        c.function = "spawn" /\ c.runs = 1 /\ c.id = i

MadeInv == \A k \in Numbers : calls[k].client = "none" => calls[k].stage = "none"

LEMMA MadeStays ==
    ASSUME TypeOK, MadeInv, NEW k \in Numbers, NEW c \in Call,
           calls' = [calls EXCEPT ![k] = c], c.client # "none"
    PROVE  MadeInv'
<1>1. \A j \in Numbers : calls'[j] = IF j = k THEN c ELSE calls[j]
    BY DEF TypeOK
<1> QED BY <1>1 DEF MadeInv, Numbers

(* What was answered for a call that ran stays: so do the owners. *)
LEMMA OwnersStay ==
    ASSUME IInv, OwnerInv, NEW k \in Numbers, NEW c \in Call,
           calls' = [calls EXCEPT ![k] = c], agents' = agents,
           calls[k].function = "spawn" =>
               \/ calls[k].runs = 0
               \/ c.function = "spawn" /\ c.runs = calls[k].runs /\ c.id = calls[k].id
    PROVE  OwnerInv'
<1> SUFFICES ASSUME NEW i \in DOMAIN agents
             PROVE  /\ calls'[agents[i]].function = "spawn"
                    /\ calls'[agents[i]].runs = 1
                    /\ calls'[agents[i]].id = i
    BY DEF OwnerInv
<1> DEFINE a == agents[i]
<1>1. a \in Numbers /\ calls[a].function = "spawn" /\ calls[a].runs = 1 /\ calls[a].id = i
    BY DEF OwnerInv, IInv, TypeOK
<1> HIDE DEF a
<1>2. calls'[a] = IF a = k THEN c ELSE calls[a]
    BY <1>1 DEF IInv, TypeOK
<1>3. CASE a = k
    BY <1>1, <1>2, <1>3, ZeroAndOne DEF a
<1>4. CASE a # k
    BY <1>1, <1>2, <1>4 DEF a
<1> QED BY <1>3, <1>4

(* A function that takes no value twice is undone by choosing. *)
LEMMA Chosen ==
    ASSUME NEW f, NEW i \in DOMAIN f, \A j \in DOMAIN f : f[j] = f[i] => j = i
    PROVE  (CHOOSE j \in DOMAIN f : f[j] = f[i]) = i
OBVIOUS

LEMMA AgentChosen ==
    ASSUME OwnerInv, NEW i \in DOMAIN agents
    PROVE  AgentOf(agents[i]) = i
<1>1. \A j \in DOMAIN agents : agents[j] = agents[i] => j = i
    BY DEF OwnerInv
<1> QED BY <1>1, Chosen DEF AgentOf

(* What a step of one call shows. *)
LEMMA MadeMoves ==
    ASSUME TypeOK, NEW k \in Numbers, NEW c \in Call,
           calls' = [calls EXCEPT ![k] = c]
    PROVE  /\ Made' = [Made EXCEPT ![k] = Shown(c)]
           /\ Made[k] = Shown(calls[k])
<1>1. \A j \in Numbers : calls'[j] = IF j = k THEN c ELSE calls[j]
    BY DEF TypeOK
<1>2. Made' = [j \in Numbers |-> Shown(calls'[j])]
    BY DEF Made, Shown, Numbers, NoAgent
<1>3. Made = [j \in Numbers |-> Shown(calls[j])]
    BY DEF Made
<1> HIDE DEF Made
<1> QED BY <1>1, <1>2, <1>3

LEMMA SameControls == UNCHANGED worldVars => UNCHANGED LastControls
BY DEF worldVars, LastControls, AgentOf

LEMMA SameShown == UNCHANGED <<calls, worldVars>> => UNCHANGED Remote!vars
<1> SUFFICES ASSUME UNCHANGED <<calls, worldVars>> PROVE UNCHANGED Remote!vars
    OBVIOUS
<1>1. Made' = Made
    BY DEF Made, Shown, Numbers, NoAgent
<1>2. LastControls' = LastControls
    BY SameControls
<1> QED BY <1>1, <1>2 DEF Remote!vars

LEMMA ShownFields ==
    ASSUME NEW c
    PROVE  /\ Shown(c).function = c.function /\ Shown(c).target = c.target
           /\ Shown(c).client = c.client /\ Shown(c).effects = c.runs
BY DEF Shown

(* The parts of a step of RemoteCalls that the clients make. *)
LEMMA MakeShows ==
    ASSUME IInv, NEW k \in Numbers, NEW f \in {"ping", "spawn", "control"},
           NEW t \in 0..MaxCalls, Make(k, f, t)
    PROVE  Remote!Make(k, f, t)
<1> DEFINE c == [function |-> f, target |-> t, stage |-> "sent",
                 client |-> "waits", id |-> None, runs |-> 0]
<1>1. c \in Call
    BY DEF Call, None
<1>2. calls' = [calls EXCEPT ![k] = c] /\ calls[k].stage = "none" /\ UNCHANGED worldVars
    BY DEF Make
<1>3. calls[k].client = "none"
    BY <1>2 DEF IInv, StageInv
<1>4. Made' = [Made EXCEPT ![k] = Shown(c)] /\ Made[k] = Shown(calls[k])
    BY <1>1, <1>2, MadeMoves DEF IInv
<1>5. Shown(c) = [function |-> f, target |-> t, client |-> "waits",
                  effects |-> 0, vehicle |-> "none"]
    BY DEF Shown
<1>7. Made[k].client = "none"
    BY <1>3, <1>4, ShownFields
<1>8. UNCHANGED LastControls
    BY <1>2, SameControls
<1> QED BY <1>4, <1>5, <1>7, <1>8 DEF Remote!Make

LEMMA GiveUpShows ==
    ASSUME IInv, NEW k \in Numbers, GiveUp(k)
    PROVE  Remote!GiveUp(k)
<1> DEFINE c == [calls[k] EXCEPT !.client = "gave_up"]
<1>1. calls[k] \in Call
    BY DEF IInv, TypeOK
<1>2. c \in Call
    BY <1>1 DEF Call
<1>3. calls' = [calls EXCEPT ![k] = c] /\ calls[k].client = "waits" /\ UNCHANGED worldVars
    BY DEF GiveUp
<1>4. Made' = [Made EXCEPT ![k] = Shown(c)] /\ Made[k] = Shown(calls[k])
    BY <1>2, <1>3, MadeMoves DEF IInv
<1>5. Shown(c) = [Shown(calls[k]) EXCEPT !.client = "gave_up"]
    BY <1>1 DEF Shown, Call
<1>6. Made[k].client = "waits"
    BY <1>3, <1>4, ShownFields
<1>7. UNCHANGED LastControls
    BY <1>3, SameControls
<1>8. Made' = [Made EXCEPT ![k].client = "gave_up"]
    BY <1>4, <1>5
<1> QED BY <1>6, <1>7, <1>8 DEF Remote!GiveUp

LEMMA ClientShows ==
    ASSUME IInv, NEW k \in Numbers, Client(k)
    PROVE  Remote!Next
<1>1. Remote!Numbers = Numbers /\ 0 \in 0..MaxCalls
    BY CallsAssumption DEF Remote!Numbers, Numbers
<1>2. CASE Ping(k)
    BY <1>1, <1>2, MakeShows DEF Ping, None, Remote!Next, Remote!None
<1>3. CASE SpawnActor(k)
    BY <1>1, <1>3, MakeShows DEF SpawnActor, None, Remote!Next, Remote!None
<1>4. CASE ApplyControl(k)
    <2>1. PICK h \in Numbers : /\ calls[h].function = "spawn"
                               /\ calls[h].client = "has_answer"
                               /\ Make(k, "control", h)
        BY <1>4 DEF ApplyControl
    <2>2. h \in 0..MaxCalls
        BY CallsAssumption DEF Numbers
    <2>3. Made[h] = Shown(calls[h])
        BY DEF Made
    <2>4. h \in Remote!Handles
        BY <1>1, <2>1, <2>3, ShownFields DEF Remote!Handles
    <2> QED BY <1>1, <2>1, <2>2, <2>4, MakeShows DEF Remote!Next
<1>5. CASE GiveUp(k)
    BY <1>1, <1>5, GiveUpShows DEF Remote!Next
<1> QED BY <1>2, <1>3, <1>4, <1>5 DEF Client

(* A call that is taken or posted shows nothing. *)
LEMMA HiddenShows ==
    ASSUME IInv, NEW k \in Numbers, NEW stage \in {"taken", "posted"},
           calls' = [calls EXCEPT ![k].stage = stage], UNCHANGED worldVars
    PROVE  UNCHANGED Remote!vars
<1> DEFINE c == [calls[k] EXCEPT !.stage = stage]
<1>1. calls[k] \in Call
    BY DEF IInv, TypeOK
<1>2. c \in Call
    BY <1>1 DEF Call
<1>3. /\ c.function = calls[k].function /\ c.target = calls[k].target
      /\ c.client = calls[k].client /\ c.runs = calls[k].runs /\ c.id = calls[k].id
    BY <1>1 DEF Call
<1>4. calls' = [calls EXCEPT ![k] = c]
    OBVIOUS
<1> HIDE DEF c
<1>5. Made' = [Made EXCEPT ![k] = Shown(c)] /\ Made[k] = Shown(calls[k])
    BY <1>2, <1>4, MadeMoves DEF IInv
<1>6. Shown(c) = Shown(calls[k])
    BY <1>3 DEF Shown
<1>7. Made' = Made
    BY <1>5, <1>6 DEF Made
<1>8. UNCHANGED LastControls
    BY SameControls
<1> QED BY <1>7, <1>8 DEF Remote!vars

(* The answer to a call reaches its client, or nobody waits for it. *)
LEMMA AnswerShows ==
    ASSUME IInv, NEW k \in Numbers, ReturnResult(k)
    PROVE  Remote!Answer(k) \/ UNCHANGED Remote!vars
<1> DEFINE c == Answered(calls[k])
<1>1. calls[k] \in Call
    BY DEF IInv, TypeOK
<1>2. /\ c \in Call /\ c.function = calls[k].function
      /\ c.target = calls[k].target /\ c.id = calls[k].id /\ c.runs = calls[k].runs
    BY <1>1, AnsweredCall
<1>3. c.client = IF calls[k].client = "waits" THEN "has_answer" ELSE calls[k].client
    BY <1>1 DEF Answered, Call
<1>4. calls' = [calls EXCEPT ![k] = c] /\ calls[k].stage = "ready" /\ UNCHANGED worldVars
    BY DEF ReturnResult
<1>5. calls[k].runs = 1
    BY <1>4 DEF IInv, StageInv
<1> HIDE DEF c
<1>6. Made' = [Made EXCEPT ![k] = Shown(c)] /\ Made[k] = Shown(calls[k])
    BY <1>2, <1>4, MadeMoves DEF IInv
<1>7. UNCHANGED LastControls
    BY <1>4, SameControls
<1>8. CASE calls[k].client = "waits"
    <2>1. Shown(c) = [Shown(calls[k]) EXCEPT !.client = "has_answer"]
        BY <1>2, <1>3, <1>8 DEF Shown
    <2>2. Made' = [Made EXCEPT ![k].client = "has_answer"]
        BY <1>6, <2>1
    <2>3. Made[k].client = "waits" /\ Made[k].effects = 1
        BY <1>5, <1>6, <1>8, ShownFields
    <2> QED BY <1>7, <2>2, <2>3 DEF Remote!Answer
<1>9. CASE calls[k].client # "waits"
    <2>1. Shown(c) = Shown(calls[k])
        BY <1>2, <1>3, <1>9 DEF Shown
    <2>2. Made' = Made
        BY <1>6, <2>1 DEF Made
    <2> QED BY <1>7, <2>2 DEF Remote!vars
<1> QED BY <1>8, <1>9

(* A call before its functor runs. *)
LEMMA PendingShows ==
    ASSUME IInv, MadeInv, NEW k \in Numbers, calls[k].stage \in {"taken", "posted"}
    PROVE  /\ Remote!Pending(k) /\ Made[k] = Shown(calls[k])
           /\ calls[k].runs = 0 /\ Shown(calls[k]).vehicle = "none"
<1>1. calls[k].runs = 0 /\ calls[k].client # "none"
    BY DEF IInv, StageInv, MadeInv
<1>2. Made[k] = Shown(calls[k])
    BY DEF Made
<1>3. Made[k].client # "none" /\ Made[k].effects = 0
    BY <1>1, <1>2, ShownFields
<1> QED BY <1>1, <1>2, <1>3 DEF Remote!Pending, Shown

LEMMA PingShows ==
    ASSUME IInv, MadeInv, NEW k \in Numbers, RunAsync(k)
    PROVE  Remote!Ping(k)
<1> DEFINE r == Ran(calls[k])
           c == Answered(r)
<1>1. calls[k] \in Call
    BY DEF IInv, TypeOK
<1>2. /\ calls[k].stage = "taken" /\ calls[k].function = "ping"
      /\ calls' = [calls EXCEPT ![k] = c] /\ UNCHANGED worldVars
    BY DEF RunAsync, IsSync
<1>3. /\ r \in Call /\ r.function = "ping" /\ r.target = calls[k].target
      /\ r.client = calls[k].client /\ r.runs = calls[k].runs + 1
    BY <1>1, <1>2, RanCall
<1> HIDE DEF r
<1>4. c \in Call /\ c.function = "ping" /\ c.target = r.target /\ c.runs = r.runs
    BY <1>3, AnsweredCall
<1>5. c.client = IF r.client = "waits" THEN "has_answer" ELSE r.client
    BY <1>3 DEF Answered, Call
<1> HIDE DEF c
<1>6. /\ Remote!Pending(k) /\ Made[k] = Shown(calls[k])
      /\ calls[k].runs = 0 /\ Shown(calls[k]).vehicle = "none"
    BY <1>2, PendingShows
<1>7. c.runs = 1
    BY <1>3, <1>4, <1>6, ZeroAndOne, Zenon
<1>8. Made' = [Made EXCEPT ![k] = Shown(c)]
    BY <1>2, <1>4, MadeMoves DEF IInv
<1>9. Shown(c) = [function |-> "ping", target |-> calls[k].target,
                  client |-> c.client, effects |-> 1, vehicle |-> "none"]
    BY <1>3, <1>4, <1>7 DEF Shown
<1>10. Made[k] = [function |-> "ping", target |-> calls[k].target,
                  client |-> r.client, effects |-> 0, vehicle |-> "none"]
    BY <1>2, <1>3, <1>6 DEF Shown
<1>11. [Made[k] EXCEPT !.effects = 1, !.client = c.client] = Shown(c)
    <2> DEFINE m == [Made[k] EXCEPT !.effects = 1]
    <2>1. m = [function |-> "ping", target |-> calls[k].target,
               client |-> r.client, effects |-> 1, vehicle |-> "none"]
        BY <1>10
    <2> HIDE DEF m
    <2>2. [m EXCEPT !.client = c.client] = Shown(c)
        BY <1>9, <2>1
    <2> QED BY <2>2 DEF m
<1>12. UNCHANGED LastControls
    BY <1>2, SameControls
<1>13. /\ Made[k].function = "ping"
       /\ c.client = IF Made[k].client = "waits" THEN "has_answer" ELSE Made[k].client
    BY <1>5, <1>10
<1> QED BY <1>6, <1>8, <1>11, <1>12, <1>13 DEF Remote!Ping

(* The call at the head of the queue. *)
LEMMA HeadIsPosted ==
    ASSUME IInv, queue # <<>>
    PROVE  /\ Head(queue) \in Numbers /\ calls[Head(queue)].stage = "posted"
           /\ calls[Head(queue)] \in Call
<1>1. Len(queue) > 0 /\ Head(queue) = queue[1] /\ queue[1] \in Numbers
    BY DEF IInv, TypeOK
<1> QED BY <1>1 DEF IInv, TypeOK, FramesOutliveTasks

(* What a task makes of its call. *)
Effect(c, v) == [c EXCEPT !.effects = 1, !.vehicle = v]
EffectOnly(c) == [c EXCEPT !.effects = 1]

LEMMA ReadyShows ==
    ASSUME IInv, MadeInv, NEW k \in Numbers, calls[k].stage = "posted",
           NEW id \in {None, NoAgent} \cup 1..MaxCalls,
           calls' = [calls EXCEPT ![k] = Ready(calls[k], id)],
           NEW v, id = NoAgent => v = "refused", id # NoAgent => v = "spawned"
    PROVE  /\ Remote!Pending(k) /\ Made[k].function = calls[k].function
           /\ Made[k].target = calls[k].target
           /\ calls[k].function # "spawn" =>
                  Made' = [Made EXCEPT ![k] = EffectOnly(Made[k])]
           /\ calls[k].function = "spawn" =>
                  Made' = [Made EXCEPT ![k] = Effect(Made[k], v)]
<1> DEFINE c == Ready(calls[k], id)
           o == calls[k]
<1>1. o \in Call
    BY DEF IInv, TypeOK
<1>2. /\ c \in Call /\ c.function = o.function /\ c.target = o.target
      /\ c.client = o.client /\ c.id = id /\ c.runs = o.runs + 1
    BY <1>1, ReadyCall
<1>3. /\ Remote!Pending(k) /\ Made[k] = Shown(o)
      /\ o.runs = 0 /\ Shown(o).vehicle = "none"
    BY PendingShows
<1>4. calls' = [calls EXCEPT ![k] = c]
    OBVIOUS
<1> HIDE DEF c
<1>5. c.runs = 1
    BY <1>2, <1>3, ZeroAndOne, Zenon
<1>6. Made' = [Made EXCEPT ![k] = Shown(c)]
    BY <1>2, <1>4, MadeMoves DEF IInv
<1> HIDE DEF o
<1>7. Made[k] = [function |-> o.function, target |-> o.target,
                 client |-> o.client, effects |-> 0, vehicle |-> "none"]
    BY <1>3 DEF Shown
<1>8. o.function # "spawn" => Made' = [Made EXCEPT ![k] = EffectOnly(Made[k])]
    <2> HAVE o.function # "spawn"
    <2>1. Shown(c) = [function |-> o.function, target |-> o.target,
                      client |-> o.client, effects |-> 1, vehicle |-> "none"]
        BY <1>2, <1>5 DEF Shown
    <2>2. [Made[k] EXCEPT !.effects = 1] = Shown(c)
        BY <1>7, <2>1
    <2> QED BY <1>6, <2>2 DEF EffectOnly
<1>9. o.function = "spawn" => Made' = [Made EXCEPT ![k] = Effect(Made[k], v)]
    <2> HAVE o.function = "spawn"
    <2>1. Shown(c) = [function |-> o.function, target |-> o.target,
                      client |-> o.client, effects |-> 1, vehicle |-> v]
        BY <1>2, <1>5, ZeroAndOne DEF Shown
    <2>2. [Made[k] EXCEPT !.effects = 1, !.vehicle = v] = Shown(c)
        <3> DEFINE m == [Made[k] EXCEPT !.effects = 1]
        <3>1. m = [function |-> o.function, target |-> o.target,
                   client |-> o.client, effects |-> 1, vehicle |-> "none"]
            BY <1>7
        <3> HIDE DEF m
        <3>2. [m EXCEPT !.vehicle = v] = Shown(c)
            BY <2>1, <3>1
        <3> QED BY <3>2 DEF m
    <2> QED BY <1>6, <2>2 DEF Effect
<1> QED BY <1>3, <1>7, <1>8, <1>9 DEF o

LEMMA ReadyMade ==
    ASSUME IInv, MadeInv, NEW k \in Numbers, calls[k].stage = "posted",
           NEW id \in {None, NoAgent} \cup 1..MaxCalls,
           calls' = [calls EXCEPT ![k] = Ready(calls[k], id)]
    PROVE  MadeInv'
<1>1. calls[k] \in Call /\ calls[k].client # "none"
    BY DEF IInv, TypeOK, MadeInv
<1>2. Ready(calls[k], id) \in Call /\ Ready(calls[k], id).client # "none"
    BY <1>1, ReadyCall
<1> QED BY <1>2, MadeStays DEF IInv

(* A spawn adds a vehicle of its own: the agents get an entry under an id  *)
(* that none of them had.                                                  *)
LEMMA SpawnShows ==
    ASSUME IInv, MadeInv, OwnerInv, NEW spawned \in BOOLEAN, queue # <<>>,
           calls[Head(queue)].function = "spawn", SpawnAgent(Head(queue), spawned)
    PROVE  /\ OwnerInv' /\ MadeInv'
           /\ Remote!Spawn(Head(queue)) \/ Remote!Refuse(Head(queue))
<1> DEFINE k == Head(queue)
           id == IF spawned THEN count' ELSE NoAgent
           v == IF id = NoAgent THEN "refused" ELSE "spawned"
<1>1. k \in Numbers /\ calls[k].stage = "posted" /\ calls[k] \in Call
    BY HeadIsPosted
<1>2. count' = count + 1 /\ calls' = [calls EXCEPT ![k] = Ready(calls[k], id)]
    BY DEF SpawnAgent
<1>3. IF spawned
        THEN /\ agents' = [i \in DOMAIN agents \cup {count'} |->
                                IF i = count' THEN k ELSE agents[i]]
             /\ controlled' = [i \in DOMAIN agents' |->
                                IF i = count' THEN None ELSE controlled[i]]
        ELSE agents' = agents /\ controlled' = controlled
    BY DEF SpawnAgent
<1>4. calls[k].function = "spawn"
    OBVIOUS
<1> HIDE DEF k
<1>5. count' \in 1..MaxCalls /\ calls[k].runs = 0
    BY <1>1, <1>2, <1>4, RoomToSpawn DEF IInv, StageInv
<1>6. NoAgent \notin 1..MaxCalls /\ None \notin 1..MaxCalls
    BY IdsAssumption, CallsAssumption DEF NoAgent, None
<1>7. /\ id \in {None, NoAgent} \cup 1..MaxCalls
      /\ v = IF spawned THEN "spawned" ELSE "refused"
    BY <1>5, <1>6
<1> HIDE DEF id, v
<1>8. /\ Remote!Pending(k) /\ Made[k].function = "spawn"
      /\ Made' = [Made EXCEPT ![k] = Effect(Made[k], v)]
    <2>1. (id = NoAgent => v = "refused") /\ (id # NoAgent => v = "spawned")
        BY DEF v
    <2> QED BY <1>1, <1>2, <1>4, <1>7, <2>1, ReadyShows
<1>9. /\ Ready(calls[k], id).function = "spawn" /\ Ready(calls[k], id).id = id
      /\ Ready(calls[k], id).runs = 1 /\ Ready(calls[k], id) \in Call
    BY <1>1, <1>4, <1>5, <1>7, ReadyCall
<1>10. MadeInv'
    BY <1>1, <1>2, <1>7, ReadyMade
<1>11. CASE ~spawned
    <2>1. agents' = agents /\ controlled' = controlled
        BY <1>3, <1>11
    <2>2. UNCHANGED LastControls
        BY <2>1 DEF LastControls, AgentOf
    <2>3. OwnerInv'
        BY <1>1, <1>2, <1>5, <1>9, <2>1, OwnersStay
    <2>4. Remote!Refuse(k)
        BY <1>7, <1>8, <1>11, <2>2 DEF Remote!Refuse, Effect
    <2> QED BY <1>10, <2>3, <2>4 DEF k
<1>12. CASE spawned
    <2>1. /\ DOMAIN agents' = DOMAIN agents \cup {count'} /\ agents'[count'] = k
          /\ \A i \in DOMAIN agents : i # count' => agents'[i] = agents[i]
          /\ count' \notin DOMAIN agents
        BY <1>2, <1>3, <1>12 DEF IInv, TypeOK
    <2>2. \A i \in DOMAIN agents :
              agents[i] \in Numbers /\ agents[i] # k /\ agents'[i] = agents[i]
              /\ controlled'[i] = controlled[i]
        BY <1>3, <1>5, <1>12, <2>1, ZeroAndOne DEF IInv, TypeOK, OwnerInv
    <2>3. OwnerInv'
        <3> SUFFICES ASSUME NEW i \in DOMAIN agents'
                     PROVE  /\ calls'[agents'[i]].function = "spawn"
                            /\ calls'[agents'[i]].runs = 1
                            /\ calls'[agents'[i]].id = i
            BY DEF OwnerInv
        <3>1. \A j \in Numbers :
                  calls'[j] = IF j = k THEN Ready(calls[k], id) ELSE calls[j]
            BY <1>2 DEF IInv, TypeOK
        <3>2. CASE i = count'
            BY <1>1, <1>9, <1>12, <2>1, <3>1, <3>2 DEF id
        <3>3. CASE i # count'
            BY <2>1, <2>2, <3>1, <3>3 DEF OwnerInv
        <3> QED BY <3>2, <3>3
    <2>4. \A i \in DOMAIN agents : AgentOf(agents[i]) = i
        BY AgentChosen
    <2>5. \A i, j \in DOMAIN agents' : agents'[j] = agents'[i] => j = i
        BY <2>3 DEF OwnerInv
    <2>6. \A i \in DOMAIN agents' : (CHOOSE j \in DOMAIN agents' : agents'[j] = agents'[i]) = i
        BY <2>5, Chosen
    <2>7. LastControls' = [h \in {agents'[i] : i \in DOMAIN agents'} |->
                              controlled'[CHOOSE j \in DOMAIN agents' : agents'[j] = h]]
        BY DEF LastControls, AgentOf
    <2>8. DOMAIN LastControls = {agents[i] : i \in DOMAIN agents}
          /\ \A i \in DOMAIN agents : LastControls[agents[i]] = controlled[i]
        BY <2>4 DEF LastControls
    <2>9. {agents'[i] : i \in DOMAIN agents'} = DOMAIN LastControls \cup {k}
        BY <2>1, <2>2, <2>8
    <2>10. \A h \in DOMAIN LastControls \cup {k} :
              controlled'[CHOOSE j \in DOMAIN agents' : agents'[j] = h]
                = IF h = k THEN None ELSE LastControls[h]
        <3> TAKE h \in DOMAIN LastControls \cup {k}
        <3>1. CASE h = k
            <4>1. (CHOOSE j \in DOMAIN agents' : agents'[j] = h) = count'
                BY <2>1, <2>6, <3>1
            <4> QED BY <1>3, <1>12, <2>1, <3>1, <4>1
        <3>2. CASE h # k
            <4>1. PICK i \in DOMAIN agents : h = agents[i]
                BY <2>8, <3>2
            <4>2. (CHOOSE j \in DOMAIN agents' : agents'[j] = h) = i
                BY <2>1, <2>2, <2>6, <4>1
            <4> QED BY <2>2, <2>8, <3>2, <4>1, <4>2
        <3> QED BY <3>1, <3>2
    <2>11. LastControls' = [h \in DOMAIN LastControls \cup {k} |->
                              IF h = k THEN None ELSE LastControls[h]]
        <3> DEFINE last(h) == controlled'[CHOOSE j \in DOMAIN agents' : agents'[j] = h]
        <3>1. LastControls' = [h \in DOMAIN LastControls \cup {k} |-> last(h)]
            BY <2>7, <2>9
        <3>2. \A h \in DOMAIN LastControls \cup {k} :
                  last(h) = IF h = k THEN None ELSE LastControls[h]
            BY <2>10
        <3> HIDE DEF last
        <3> QED BY <3>1, <3>2
    <2>12. Remote!Spawn(k)
        BY <1>7, <1>8, <1>12, <2>11 DEF Remote!Spawn, Remote!None, None, Effect
    <2> QED BY <1>10, <2>3, <2>12 DEF k
<1> QED BY <1>11, <1>12

(* The id that the handle of a control holds is in the table exactly when  *)
(* the spawn of the handle has a vehicle.                                  *)
LEMMA ControlShows ==
    ASSUME IInv, MadeInv, OwnerInv, queue # <<>>,
           calls[Head(queue)].function # "spawn", ControlAgent(Head(queue))
    PROVE  OwnerInv' /\ MadeInv' /\ Remote!Control(Head(queue))
<1> DEFINE k == Head(queue)
           t == calls[k].target
           id == calls[t].id
<1>1. k \in Numbers /\ calls[k].stage = "posted" /\ calls[k] \in Call
    BY HeadIsPosted
<1>2. /\ calls' = [calls EXCEPT ![k] = Ready(calls[k], None)]
      /\ controlled' = IF id \in DOMAIN agents
                         THEN [controlled EXCEPT ![id] = k] ELSE controlled
      /\ agents' = agents
    BY DEF ControlAgent
<1>3. calls[k].function # "spawn"
    OBVIOUS
<1> HIDE DEF k
<1>4. calls[k].function = "control"
    <2>1. calls[k].function # "ping"
        BY <1>1 DEF IInv, StageInv, IsSync
    <2> QED BY <1>1, <1>3, <2>1 DEF Call
<1>5. id \in DOMAIN agents => agents[id] = t
    BY <1>1, <1>4, HandleOwnsVehicle
<1>6. /\ Remote!Pending(k) /\ Made[k].function = "control" /\ Made[k].target = t
      /\ Made' = [Made EXCEPT ![k] = EffectOnly(Made[k])]
    <2>1. /\ Remote!Pending(k) /\ Made[k].function = calls[k].function
          /\ Made[k].target = calls[k].target
          /\ Made' = [Made EXCEPT ![k] = EffectOnly(Made[k])]
        BY <1>1, <1>2, <1>3, ReadyShows DEF NoAgent
    <2> QED BY <1>4, <2>1
<1>7. OwnerInv'
    <2>1. Ready(calls[k], None) \in Call
        BY <1>1, ReadyCall
    <2> QED BY <1>1, <1>2, <1>3, <2>1, OwnersStay
<1>8. MadeInv'
    BY <1>1, <1>2, ReadyMade
<1> HIDE DEF t, id
<1>9. t \in {agents[i] : i \in DOMAIN agents} <=> id \in DOMAIN agents
    <2>1. ASSUME NEW i \in DOMAIN agents, agents[i] = t PROVE id = i
        BY <2>1 DEF OwnerInv, id
    <2> QED BY <1>5, <2>1
<1>10. LastControls' = IF t \in DOMAIN LastControls
                        THEN [LastControls EXCEPT ![t] = k] ELSE LastControls
    <2> DEFINE owners == {agents[i] : i \in DOMAIN agents}
    <2>1. LastControls = [h \in owners |-> controlled[AgentOf(h)]]
        BY DEF LastControls
    <2>2. LastControls' = [h \in owners |-> controlled'[AgentOf(h)]]
        BY <1>2 DEF LastControls, AgentOf
    <2>3. CASE id \in DOMAIN agents
        <3>1. controlled' = [controlled EXCEPT ![id] = k]
              /\ DOMAIN controlled = DOMAIN agents
            BY <1>2, <2>3 DEF IInv, TypeOK
        <3>2. \A h \in owners : AgentOf(h) \in DOMAIN agents
                                 /\ (AgentOf(h) = id <=> h = t)
            <4> TAKE h \in owners
            <4>1. PICK i \in DOMAIN agents : h = agents[i]
                OBVIOUS
            <4>2. AgentOf(h) = i
                BY <4>1, AgentChosen
            <4>3. h = t => i = id
                BY <4>1 DEF OwnerInv, id
            <4> QED BY <1>5, <4>1, <4>2, <4>3
        <3>3. \A h \in owners : controlled'[AgentOf(h)]
                                  = IF h = t THEN k ELSE controlled[AgentOf(h)]
            BY <3>1, <3>2
        <3> HIDE DEF owners
        <3>4. LastControls' = [LastControls EXCEPT ![t] = k]
            BY <2>1, <2>2, <3>3
        <3>5. t \in DOMAIN LastControls
            BY <1>9, <2>1, <2>3 DEF owners
        <3> QED BY <3>4, <3>5
    <2>4. CASE id \notin DOMAIN agents
        <3>1. LastControls' = LastControls
            BY <1>2, <2>1, <2>2, <2>4
        <3>2. t \notin DOMAIN LastControls
            BY <1>9, <2>1, <2>4
        <3> QED BY <3>1, <3>2
    <2> QED BY <2>3, <2>4
<1>11. Remote!Control(k)
    BY <1>6, <1>10 DEF Remote!Control, EffectOnly
<1> QED BY <1>7, <1>8, <1>11 DEF k

(* The agents and what their calls answered stay: the owners do.           *)
LEMMA ClientOwners ==
    ASSUME IInv, MadeInv, OwnerInv, NEW k \in Numbers, Client(k)
    PROVE  OwnerInv' /\ MadeInv'
<1>1. ASSUME NEW f \in {"ping", "spawn", "control"}, NEW t \in 0..MaxCalls, Make(k, f, t)
      PROVE  OwnerInv' /\ MadeInv'
    <2> DEFINE c == [function |-> f, target |-> t, stage |-> "sent",
                     client |-> "waits", id |-> None, runs |-> 0]
    <2>1. c \in Call
        BY DEF Call, None
    <2>2. calls' = [calls EXCEPT ![k] = c] /\ calls[k].stage = "none" /\ agents' = agents
        BY <1>1 DEF Make, worldVars
    <2>3. calls[k].runs = 0
        BY <2>2 DEF IInv, StageInv
    <2>4. c.client # "none"
        OBVIOUS
    <2> HIDE DEF c
    <2> QED BY <2>1, <2>2, <2>3, <2>4, OwnersStay, MadeStays DEF IInv
<1>2. 0 \in 0..MaxCalls /\ \A h \in Numbers : h \in 0..MaxCalls
    BY CallsAssumption DEF Numbers
<1>3. CASE Ping(k) \/ SpawnActor(k)
    BY <1>1, <1>2, <1>3 DEF Ping, SpawnActor, None
<1>4. CASE ApplyControl(k)
    BY <1>1, <1>2, <1>4 DEF ApplyControl
<1>5. CASE GiveUp(k)
    <2> DEFINE c == [calls[k] EXCEPT !.client = "gave_up"]
    <2>1. calls[k] \in Call
        BY DEF IInv, TypeOK
    <2>2. /\ c \in Call /\ c.function = calls[k].function /\ c.id = calls[k].id
          /\ c.runs = calls[k].runs /\ c.client = "gave_up"
        BY <2>1 DEF Call
    <2>3. calls' = [calls EXCEPT ![k] = c] /\ agents' = agents
        BY <1>5 DEF GiveUp, worldVars
    <2> HIDE DEF c
    <2> QED BY <2>2, <2>3, OwnersStay, MadeStays DEF IInv
<1> QED BY <1>3, <1>4, <1>5 DEF Client

(* What a worker does to its call is not what the call answers.            *)
LEMMA WorkerOwners ==
    ASSUME IInv, MadeInv, OwnerInv, NEW k \in Numbers, Worker(k)
    PROVE  OwnerInv' /\ MadeInv'
<1>1. calls[k] \in Call
    BY DEF IInv, TypeOK
<1>2. ASSUME NEW stage \in {"taken", "posted"}, calls[k].stage # "none",
             calls' = [calls EXCEPT ![k].stage = stage], agents' = agents
      PROVE  OwnerInv' /\ MadeInv'
    <2> DEFINE c == [calls[k] EXCEPT !.stage = stage]
    <2>1. /\ c \in Call /\ c.function = calls[k].function /\ c.id = calls[k].id
          /\ c.runs = calls[k].runs /\ c.client = calls[k].client
        BY <1>1 DEF Call
    <2>2. calls' = [calls EXCEPT ![k] = c] /\ c.client # "none"
        BY <1>2, <2>1 DEF MadeInv
    <2> HIDE DEF c
    <2> QED BY <1>2, <2>1, <2>2, OwnersStay, MadeStays DEF IInv
<1>3. CASE TakeCall(k)
    BY <1>2, <1>3 DEF TakeCall, worldVars
<1>4. CASE PostTask(k)
    BY <1>2, <1>4 DEF PostTask, worldVars
<1>5. ASSUME NEW c \in Call, c.function = "spawn" => c.runs = 1 /\ c.id = calls[k].id,
             c.function = calls[k].function,
             calls[k].function = "spawn" => calls[k].runs = 1,
             calls[k].stage # "none",
             calls' = [calls EXCEPT ![k] = Answered(c)], agents' = agents,
             c.client = calls[k].client
      PROVE  OwnerInv' /\ MadeInv'
    <2> DEFINE d == Answered(c)
    <2>1. /\ d \in Call /\ d.function = c.function /\ d.id = c.id /\ d.runs = c.runs
        BY <1>5, AnsweredCall
    <2>2. c.client # "none"
        BY <1>5 DEF MadeInv
    <2>3. d.client # "none"
        BY <2>2 DEF Answered, Call
    <2>4. calls' = [calls EXCEPT ![k] = d]
        BY <1>5
    <2> HIDE DEF d
    <2>5. calls[k].function = "spawn" =>
              d.function = "spawn" /\ d.runs = calls[k].runs /\ d.id = calls[k].id
        BY <1>5, <2>1
    <2> QED BY <1>5, <2>1, <2>3, <2>4, <2>5, OwnersStay, MadeStays DEF IInv
<1>6. CASE RunAsync(k)
    <2>1. /\ calls[k].stage = "taken" /\ calls[k].function = "ping"
          /\ calls' = [calls EXCEPT ![k] = Answered(Ran(calls[k]))]
          /\ agents' = agents
        BY <1>6 DEF RunAsync, IsSync, worldVars
    <2>2. /\ Ran(calls[k]) \in Call /\ Ran(calls[k]).function = "ping"
          /\ Ran(calls[k]).client = calls[k].client
        BY <1>1, <2>1, RanCall
    <2> QED BY <1>5, <2>1, <2>2
<1>7. CASE ReturnResult(k)
    <2>1. /\ calls[k].stage = "ready" /\ agents' = agents
          /\ calls' = [calls EXCEPT ![k] = Answered(calls[k])]
        BY <1>7 DEF ReturnResult, worldVars
    <2>2. calls[k].runs = 1
        BY <2>1 DEF IInv, StageInv
    <2> QED BY <1>1, <1>5, <2>1, <2>2
<1> QED BY <1>3, <1>4, <1>6, <1>7 DEF Worker

(* A task of a slice is a step of RemoteCalls; what else the game thread   *)
(* does shows nothing.                                                     *)
LEMMA GameShows ==
    ASSUME IInv, MadeInv, OwnerInv, Game \/ EndPlay \/ StopReturns
    PROVE  OwnerInv' /\ MadeInv' /\ [Remote!Next]_(Remote!vars)
<1>1. ASSUME UNCHANGED <<calls, worldVars>>
      PROVE  OwnerInv' /\ MadeInv' /\ [Remote!Next]_(Remote!vars)
    <2>1. OwnerInv' /\ MadeInv'
        BY <1>1 DEF OwnerInv, MadeInv, worldVars, Numbers
    <2> QED BY <1>1, <2>1, SameShown
<1>2. CASE Tick
    BY <1>1, <1>2 DEF Tick
<1>3. CASE SliceEnds
    BY <1>1, <1>3 DEF SliceEnds
<1>4. CASE EndPlay \/ StopReturns
    BY <1>1, <1>4 DEF EndPlay, StopReturns
<1>5. CASE RunTask
    <2> DEFINE k == Head(queue)
    <2>1. queue # <<>>
        BY <1>5 DEF RunTask, InSlice
    <2>2. k \in Numbers /\ calls[k].stage = "posted" /\ calls[k] \in Call
        BY <2>1, HeadIsPosted
    <2>3. Remote!Numbers = Numbers
        BY DEF Remote!Numbers, Numbers
    <2>4. CASE calls[k].function = "spawn"
        <3>1. PICK spawned \in BOOLEAN : SpawnAgent(k, spawned)
            BY <1>5, <2>4 DEF RunTask
        <3>2. OwnerInv' /\ MadeInv' /\ (Remote!Spawn(k) \/ Remote!Refuse(k))
            BY <2>1, <2>4, <3>1, SpawnShows
        <3>3. Remote!Next
            BY <2>2, <2>3, <3>2 DEF Remote!Next
        <3> QED BY <3>2, <3>3
    <2>5. CASE calls[k].function # "spawn"
        <3>1. ControlAgent(k)
            BY <1>5, <2>5 DEF RunTask
        <3>2. OwnerInv' /\ MadeInv' /\ Remote!Control(k)
            BY <2>1, <2>5, <3>1, ControlShows
        <3>3. Remote!Next
            BY <2>2, <2>3, <3>2 DEF Remote!Next
        <3> QED BY <3>2, <3>3
    <2> QED BY <2>4, <2>5
<1> QED BY <1>2, <1>3, <1>4, <1>5 DEF Game

LEMMA StepShows ==
    ASSUME IInv, MadeInv, OwnerInv, [Next]_vars
    PROVE  OwnerInv' /\ MadeInv' /\ [Remote!Next]_(Remote!vars)
<1>1. Remote!Numbers = Numbers
    BY DEF Remote!Numbers, Numbers
<1>2. ASSUME NEW k \in Numbers, Client(k)
      PROVE  OwnerInv' /\ MadeInv' /\ [Remote!Next]_(Remote!vars)
    BY <1>2, ClientOwners, ClientShows
<1>3. ASSUME NEW k \in Numbers, Worker(k)
      PROVE  OwnerInv' /\ MadeInv' /\ [Remote!Next]_(Remote!vars)
    <2> SUFFICES [Remote!Next]_(Remote!vars)
        BY <1>3, WorkerOwners
    <2>1. CASE TakeCall(k)
        BY <2>1, HiddenShows DEF TakeCall
    <2>2. CASE PostTask(k)
        BY <2>2, HiddenShows DEF PostTask
    <2>3. CASE RunAsync(k)
        BY <1>1, <2>3, PingShows DEF Remote!Next
    <2>4. CASE ReturnResult(k)
        BY <1>1, <2>4, AnswerShows DEF Remote!Next
    <2> QED BY <1>3, <2>1, <2>2, <2>3, <2>4 DEF Worker
<1>4. CASE UNCHANGED vars
    <2>1. UNCHANGED <<calls, worldVars>>
        BY <1>4 DEF vars, worldVars
    <2>2. OwnerInv' /\ MadeInv'
        BY <2>1 DEF OwnerInv, MadeInv, worldVars, Numbers
    <2> QED BY <2>1, <2>2, SameShown
<1> QED BY <1>2, <1>3, <1>4, GameShows DEF Next

LEMMA InitShows == Init => MadeInv /\ OwnerInv /\ Remote!Init
<1> SUFFICES ASSUME Init PROVE MadeInv /\ OwnerInv /\ Remote!Init
    OBVIOUS
<1>1. DOMAIN agents = {} /\ \A k \in Numbers : calls[k] = NoCall
    BY DEF Init
<1>2. MadeInv /\ OwnerInv
    BY <1>1 DEF MadeInv, OwnerInv, NoCall
<1>3. Made = [k \in Remote!Numbers |-> Remote!Unmade]
    <2>1. Shown(NoCall) = Remote!Unmade
        BY DEF Shown, NoCall, Remote!Unmade, None, Remote!None
    <2> QED BY <1>1, <2>1 DEF Made, Remote!Numbers, Numbers
<1>4. LastControls = [h \in {} |-> Remote!None]
    BY <1>1 DEF LastControls
<1> QED BY <1>2, <1>3, <1>4 DEF Remote!Init

(* An agent is the vehicle of one spawn, which ran and returned its id     *)
(* (Server.cpp:41-59).                                                     *)
THEOREM OwnerInvariant == Spec => []OwnerInv
<1>1. Init => MadeInv /\ OwnerInv
    BY InitShows
<1>2. IInv /\ MadeInv /\ OwnerInv /\ [Next]_vars => OwnerInv' /\ MadeInv'
    BY StepShows
<1> QED BY <1>1, <1>2, Invariant, PTL DEF Spec

(* The server implements RemoteCalls: however calls, tasks, slices and     *)
(* workers interleave, each call takes effect at one moment, at most once, *)
(* before its client has the answer, and only on the vehicle of its own    *)
(* handle (rpc/Server.h:46-57, RPCServer.cpp:51-75, Server.cpp:41-72).     *)
THEOREM RpcServerImplementsCalls == Spec => ImplementsCalls
<1>1. Init => MadeInv /\ OwnerInv /\ Remote!Init
    BY InitShows
<1>2. IInv /\ MadeInv /\ OwnerInv /\ [Next]_vars
          => OwnerInv' /\ MadeInv' /\ [Remote!Next]_(Remote!vars)
    BY StepShows
<1> QED BY <1>1, <1>2, Invariant, PTL DEF Spec, ImplementsCalls, Remote!Spec

(* A task that is queued when the game ends is never run, by whatever the  *)
(* workers still do: the game thread waits in Stop for the worker that     *)
(* waits for the task (Server.cpp:28-31, rpc/Server.h:44-59, 103-106).     *)
QueuedTaskHangsStop ==
    [][game = "ending" /\ queue # <<>> => game' = "ending" /\ queue' # <<>>]_vars

(* The game ends between two slices. *)
EndsOutside == game # "play" => slice = "off"

LEMMA QueueGoesOn ==
    ASSUME IInv, EndsOutside, [Next]_vars
    PROVE  /\ EndsOutside'
           /\ game = "ending" /\ queue # <<>> => game' = "ending" /\ queue' # <<>>
<1>1. CASE \/ UNCHANGED <<game, slice, queue>>
           \/ \E k \in Numbers : UNCHANGED <<game, slice>> /\ queue' = Append(queue, k)
    <2>1. ASSUME NEW k \in Numbers PROVE Append(queue, k) # <<>>
        <3>1. queue \in Seq(Numbers)
            BY DEF IInv, TypeOK
        <3>2. Len(Append(queue, k)) = Len(queue) + 1 /\ Len(queue) \in Nat
            BY <3>1
        <3>3. Len(Append(queue, k)) # 0
            BY <3>2
        <3> QED BY <3>3
    <2> QED BY <1>1, <2>1 DEF EndsOutside
<1>2. CASE Tick \/ SliceEnds \/ EndPlay
    BY <1>2 DEF Tick, SliceEnds, EndPlay, EndsOutside
<1>3. CASE RunTask
    BY <1>3 DEF RunTask, InSlice, EndsOutside
<1>4. CASE StopReturns
    <2>1. Busy = {} /\ game' = "ended" /\ slice' = slice /\ game = "ending"
        BY <1>4 DEF StopReturns
    <2>2. ASSUME queue # <<>> PROVE FALSE
        <3>1. Head(queue) \in Numbers /\ calls[Head(queue)].stage = "posted"
            BY <2>2, HeadIsPosted
        <3> QED BY <2>1, <3>1 DEF Busy
    <2> QED BY <2>1, <2>2 DEF EndsOutside
<1>5. ASSUME NEW k \in Numbers, Client(k) \/ Worker(k)
      PROVE  \/ UNCHANGED <<game, slice, queue>>
             \/ \E j \in Numbers : UNCHANGED <<game, slice>> /\ queue' = Append(queue, j)
    <2>1. CASE PostTask(k)
        BY <2>1 DEF PostTask
    <2>2. CASE Client(k)
        BY <2>2 DEF Client, Ping, SpawnActor, ApplyControl, Make, GiveUp, serverVars
    <2>3. CASE TakeCall(k) \/ RunAsync(k) \/ ReturnResult(k)
        BY <2>3 DEF TakeCall, RunAsync, ReturnResult, serverVars
    <2> QED BY <1>5, <2>1, <2>2, <2>3 DEF Worker
<1>6. CASE UNCHANGED vars
    BY <1>1, <1>6 DEF vars
<1> QED BY <1>1, <1>2, <1>3, <1>4, <1>5, <1>6 DEF Next, Game

(* Stop hangs for good when it finds a task in the queue, whatever is the  *)
(* number of workers (Server.cpp:28-31).                                   *)
THEOREM QueuedTaskAlwaysHangsStop == Spec => QueuedTaskHangsStop
<1>1. Init => EndsOutside
    BY DEF Init, EndsOutside
<1>2. IInv /\ EndsOutside /\ [Next]_vars => EndsOutside'
    BY QueueGoesOn
<1>3. IInv /\ EndsOutside /\ [Next]_vars =>
          (game = "ending" /\ queue # <<>> => game' = "ending" /\ queue' # <<>>)
    BY QueueGoesOn
<1> QED BY <1>1, <1>2, <1>3, Invariant, PTL DEF Spec, QueuedTaskHangsStop


-----------------------------------------------------------------------------
(* What the functions of a vehicle make of it.                             *)

InputsOf(v) ==
    [throttle |-> v.throttle, steer |-> v.steer, brake |-> v.brake,
     hand_brake |-> v.handbrake, reverse |-> v.bIsInReverse]

(* The flag, the gear and the gear box belong together, and the engine     *)
(* does not reverse to brake.                                              *)
Steady(v) ==
    /\ v \in Vehicle
    /\ ~v.reverseAsBrake
    /\ v.bIsInReverse <=> v.gear = -1
    /\ v.autoGears <=> ~v.bIsInReverse

LEMMA NewVehicleIsSteady ==
    Steady(NewVehicle) /\ InputsOf(NewVehicle) = NoControl
BY InputAssumption DEF Steady, NewVehicle, InputsOf, NoControl, Vehicle, Gear

LEMMA SetReverseIsSteady ==
    ASSUME NEW v, Steady(v), NEW value \in BOOLEAN
    PROVE  /\ Steady(SetReverse(v, value))
           /\ SetReverse(v, value).bIsInReverse = value
           /\ SetReverse(v, value).throttle = v.throttle
           /\ SetReverse(v, value).steer = v.steer
           /\ SetReverse(v, value).brake = v.brake
           /\ SetReverse(v, value).handbrake = v.handbrake
<1> DEFINE w == [v EXCEPT !.bIsInReverse = value, !.autoGears = ~value,
                          !.gear = IF value THEN -1 ELSE 1]
<1>1. CASE value = v.bIsInReverse
    BY <1>1 DEF SetReverse
<1>2. CASE value # v.bIsInReverse
    <2>1. SetReverse(v, value) = w
        BY <1>2 DEF SetReverse
    <2>2. /\ w \in Vehicle
          /\ w.bIsInReverse = value /\ w.autoGears = ~value
          /\ w.gear = (IF value THEN -1 ELSE 1)
          /\ w.reverseAsBrake = v.reverseAsBrake
          /\ w.throttle = v.throttle /\ w.steer = v.steer
          /\ w.brake = v.brake /\ w.handbrake = v.handbrake
        BY DEF Steady, Vehicle, Gear
    <2> HIDE DEF w
    <2>3. CASE value = TRUE
        <3>1. w.bIsInReverse = TRUE /\ w.autoGears = FALSE /\ w.gear = -1
            BY <2>2, <2>3
        <3> QED BY <2>1, <2>2, <3>1 DEF Steady
    <2>4. CASE value = FALSE
        <3>1. w.bIsInReverse = FALSE /\ w.autoGears = TRUE /\ w.gear = 1
            BY <2>2, <2>4
        <3>2. 1 # -1
            OBVIOUS
        <3> QED BY <2>1, <2>2, <3>1, <3>2 DEF Steady
    <2> QED BY <2>3, <2>4
<1> QED BY <1>1, <1>2

LEMMA InputsAreSteady ==
    ASSUME NEW v, Steady(v), NEW c \in VehicleControl
    PROVE  LET w == Inputs(v, MakeControl(c)) IN
           /\ Steady(w)
           /\ w.throttle = c.throttle /\ w.steer = c.steer
           /\ w.brake = c.brake /\ w.handbrake = c.hand_brake
<1> DEFINE w == [v EXCEPT !.throttle = c.throttle, !.steer = c.steer,
                          !.brake = c.brake, !.handbrake = c.hand_brake]
<1>1. Inputs(v, MakeControl(c)) = w
    BY DEF Inputs, MakeControl, SetHandbrakeInput, SetBrakeInput,
           SetSteeringInput, SetThrottleInput, Steady, Vehicle
<1>2. /\ w \in Vehicle
      /\ w.throttle = c.throttle /\ w.steer = c.steer
      /\ w.brake = c.brake /\ w.handbrake = c.hand_brake
      /\ w.reverseAsBrake = v.reverseAsBrake /\ w.gear = v.gear
      /\ w.bIsInReverse = v.bIsInReverse /\ w.autoGears = v.autoGears
    BY DEF Steady, Vehicle, VehicleControl
<1> HIDE DEF w
<1>3. Steady(w)
    BY <1>2 DEF Steady
<1> QED BY <1>1, <1>2, <1>3

LEMMA ControlIsObeyed ==
    ASSUME NEW v, Steady(v), NEW c \in VehicleControl
    PROVE  LET w == ApplyVehicleControl(v, MakeControl(c)) IN
           Steady(w) /\ InputsOf(w) = c
<1> DEFINE u == Inputs(v, MakeControl(c))
           w == SetReverse(u, c.reverse)
<1>1. ApplyVehicleControl(v, MakeControl(c)) = w
    BY DEF ApplyVehicleControl, MakeControl
<1>2. c.reverse \in BOOLEAN
    BY DEF VehicleControl
<1>3. /\ Steady(u)
      /\ u.throttle = c.throttle /\ u.steer = c.steer
      /\ u.brake = c.brake /\ u.handbrake = c.hand_brake
    BY InputsAreSteady
<1> HIDE DEF u
<1>4. /\ Steady(w) /\ w.bIsInReverse = c.reverse
      /\ w.throttle = c.throttle /\ w.steer = c.steer
      /\ w.brake = c.brake /\ w.handbrake = c.hand_brake
    BY <1>2, <1>3, SetReverseIsSteady
<1> HIDE DEF w
<1>5. InputsOf(w) = c
    BY <1>4 DEF InputsOf, VehicleControl
<1> QED BY <1>1, <1>4, <1>5 DEF w, u

(* The way from meters to centimeters and back loses nothing. *)
LEMMA TransformBack ==
    ASSUME NEW t \in Transform
    PROVE  ToTransform(FTransform(t)) = t
<1>1. \A n \in Int : (100 * n) \div 100 = n
    OBVIOUS
<1>2. ToLocation(FVector(t.location)) = t.location
    BY <1>1 DEF ToLocation, FVector, Transform, Location
<1>3. ToRotation(FRotator(t.rotation)) = t.rotation
    BY DEF ToRotation, FRotator, Transform, Rotation
<1>4. t = [location |-> t.location, rotation |-> t.rotation]
    BY DEF Transform
<1> QED BY <1>2, <1>3, <1>4 DEF ToTransform, FTransform

-----------------------------------------------------------------------------
(* The server behind the vehicles is the one of module RpcServer.          *)

LEMMA DrivingStep == DrivingNext => [Next]_vars
<1> SUFFICES ASSUME DrivingNext PROVE [Next]_vars
    OBVIOUS
<1>1. CASE ServerOnly
    BY <1>1 DEF ServerOnly, Next, Game
<1>2. CASE RunTaskOnVehicle
    BY <1>2 DEF RunTaskOnVehicle, Next, Game
<1>3. CASE \E i \in DOMAIN agents : EngineShifts(i) \/ BlueprintDrives(i)
    BY <1>3 DEF EngineShifts, BlueprintDrives, Between
<1> QED BY <1>1, <1>2, <1>3 DEF DrivingNext

(* What a vehicle does never shows at the RPC server: every step of the    *)
(* simulator is a step of the server or leaves it alone                    *)
(* (RPCServer.cpp:52-74).                                                  *)
THEOREM DrivingImplementsRpcServer == DrivingSpec => Spec
<1>1. DrivingInit => Init
    BY DEF DrivingInit
<1>2. [DrivingNext]_allVars => [Next]_vars
    BY DrivingStep DEF allVars
<1> QED BY <1>1, <1>2, PTL DEF DrivingSpec, Spec

(* So does the simulator with its vehicles keep the promise of RemoteCalls *)
(* (RPCServer.cpp:51-75, Server.cpp:41-72).                                *)
THEOREM DrivingImplementsCalls == DrivingSpec => ImplementsCalls
BY DrivingImplementsRpcServer, RpcServerImplementsCalls, PTL

-----------------------------------------------------------------------------
(* The inductive invariant.                                                *)

VehiclesAre ==
    /\ vehicles \in [DOMAIN agents -> Vehicle] /\ DOMAIN spawnedAt = DOMAIN agents
    /\ touched \subseteq DOMAIN agents

VehicleObeys(i) ==
    /\ Steady(vehicles[i])
    /\ spawnedAt[i] = FTransform(places[agents[i]])
    /\ i \notin touched => InputsOf(vehicles[i]) = LastControl(i)

VehiclesInv == VehiclesAre /\ \A i \in DOMAIN agents : VehicleObeys(i)

LEMMA InitVehicles == DrivingInit => VehiclesInv
<1> SUFFICES ASSUME DrivingInit PROVE VehiclesInv
    OBVIOUS
<1>1. /\ DOMAIN agents = {} /\ touched = {}
      /\ vehicles = [i \in {} |-> NewVehicle] /\ DOMAIN spawnedAt = {}
    BY DEF DrivingInit, Init
<1> QED BY <1>1 DEF VehiclesInv, VehiclesAre

(* What does not concern a vehicle leaves it as it is. *)
LEMMA VehicleStays ==
    ASSUME NEW i, VehicleObeys(i),
           vehicles'[i] = vehicles[i], spawnedAt'[i] = spawnedAt[i],
           agents'[i] = agents[i], controlled'[i] = controlled[i],
           i \notin touched' => i \notin touched
    PROVE  VehicleObeys(i)'
BY DEF VehicleObeys, LastControl

LEMMA WorldStays ==
    ASSUME VehiclesInv, UNCHANGED <<agents, controlled, vehicles, spawnedAt, touched>>
    PROVE  VehiclesInv'
<1>1. VehiclesAre'
    BY DEF VehiclesInv, VehiclesAre
<1>2. ASSUME NEW i \in DOMAIN agents' PROVE VehicleObeys(i)'
    <2>1. i \in DOMAIN agents /\ VehicleObeys(i)
        BY DEF VehiclesInv
    <2> QED BY <2>1, VehicleStays
<1> QED BY <1>1, <1>2 DEF VehiclesInv

LEMMA ServerOnlyVehicles == VehiclesInv /\ ServerOnly => VehiclesInv'
<1> SUFFICES ASSUME VehiclesInv, ServerOnly PROVE VehiclesInv'
    OBVIOUS
<1>1. UNCHANGED <<agents, controlled>>
    BY DEF ServerOnly, Client, Ping, SpawnActor, ApplyControl, Make, GiveUp,
           Worker, TakeCall, RunAsync, PostTask, ReturnResult,
           Tick, SliceEnds, EndPlay, StopReturns, worldVars
<1> QED BY <1>1, WorldStays DEF ServerOnly

LEMMA SpawnVehicles ==
    ASSUME TypeOK, VehiclesInv, NEW k \in Numbers, NEW spawned \in BOOLEAN,
           SpawnAgent(k, spawned), Spawns(k)
    PROVE  VehiclesInv'
<1>1. CASE ~spawned
    <2>1. UNCHANGED <<agents, controlled, touched>>
        BY <1>1 DEF SpawnAgent, Spawns
    <2>2. /\ vehicles' = [i \in DOMAIN agents |-> vehicles[i]]
          /\ spawnedAt' = [i \in DOMAIN agents |-> spawnedAt[i]]
        BY <2>1 DEF Spawns
    <2>3. VehiclesAre'
        BY <2>1, <2>2 DEF VehiclesInv, VehiclesAre
    <2>4. ASSUME NEW i \in DOMAIN agents' PROVE VehicleObeys(i)'
        <3>1. i \in DOMAIN agents /\ VehicleObeys(i)
            BY <2>1 DEF VehiclesInv
        <3> QED BY <2>1, <2>2, <3>1, VehicleStays
    <2> QED BY <2>3, <2>4 DEF VehiclesInv
<1>2. CASE spawned
    <2>0. PICK n : n = count'
        OBVIOUS
    <2>1. /\ DOMAIN agents' = DOMAIN agents \cup {n}
          /\ agents'[n] = k /\ controlled'[n] = None
          /\ \A i \in DOMAIN agents \ {n} :
                 agents'[i] = agents[i] /\ controlled'[i] = controlled[i]
        BY <1>2, <2>0 DEF SpawnAgent
    <2>2. n \notin DOMAIN agents
        BY <1>2, <2>0, CallsAssumption DEF SpawnAgent, TypeOK
    <2>3. /\ vehicles' = [i \in DOMAIN agents' |->
                             IF i \in DOMAIN agents THEN vehicles[i] ELSE NewVehicle]
          /\ spawnedAt' = [i \in DOMAIN agents' |->
                             IF i \in DOMAIN agents
                               THEN spawnedAt[i] ELSE FTransform(places[k])]
          /\ touched' = touched
        BY DEF Spawns
    <2>4. NewVehicle \in Vehicle
        BY NewVehicleIsSteady DEF Steady
    <2>5. VehiclesAre'
        BY <2>1, <2>3, <2>4 DEF VehiclesInv, VehiclesAre
    <2>6. VehicleObeys(n)'
        <3>1. vehicles'[n] = NewVehicle /\ spawnedAt'[n] = FTransform(places[k])
            BY <2>1, <2>2, <2>3
        <3>2. LastControl(n)' = NoControl
            BY <2>1 DEF LastControl
        <3> QED BY <2>1, <3>1, <3>2, NewVehicleIsSteady DEF VehicleObeys
    <2>7. ASSUME NEW i \in DOMAIN agents' \ {n} PROVE VehicleObeys(i)'
        <3>1. i \in DOMAIN agents \ {n} /\ VehicleObeys(i)
            BY <2>1 DEF VehiclesInv
        <3>2. vehicles'[i] = vehicles[i] /\ spawnedAt'[i] = spawnedAt[i]
            BY <2>3, <3>1
        <3> QED BY <2>1, <2>3, <3>1, <3>2, VehicleStays
    <2> QED BY <2>5, <2>6, <2>7 DEF VehiclesInv
<1> QED BY <1>1, <1>2

LEMMA ControlVehicles ==
    ASSUME TypeOK, VehiclesInv, NEW k \in Numbers, ControlAgent(k), Controls(k)
    PROVE  VehiclesInv'
<1> DEFINE id == calls[calls[k].target].id
           driven(i) == ApplyVehicleControl(vehicles[i], MakeControl(controls[k]))
<1>1. /\ controlled' = IF id \in DOMAIN agents
                         THEN [controlled EXCEPT ![id] = k] ELSE controlled
      /\ agents' = agents
    BY DEF ControlAgent
<1>2. /\ vehicles' = [i \in DOMAIN vehicles |->
                         IF i = id THEN driven(i) ELSE vehicles[i]]
      /\ touched' = touched \ {id} /\ spawnedAt' = spawnedAt
    BY DEF Controls
<1>3. controls[k] \in VehicleControl
    BY PayloadAssumption
<1> HIDE DEF id
<1>4. ASSUME NEW i \in DOMAIN agents
      PROVE  Steady(driven(i)) /\ InputsOf(driven(i)) = controls[k]
    BY <1>3, <1>4, ControlIsObeyed DEF VehiclesInv, VehicleObeys
<1>5. \A i \in DOMAIN agents : driven(i) \in Vehicle
    BY <1>4 DEF Steady
<1> HIDE DEF driven
<1>6. VehiclesAre'
    BY <1>1, <1>2, <1>5 DEF VehiclesInv, VehiclesAre
<1>7. ASSUME NEW i \in DOMAIN agents' PROVE VehicleObeys(i)'
    <2>1. i \in DOMAIN agents /\ i \in DOMAIN vehicles /\ VehicleObeys(i)
        BY <1>1 DEF VehiclesInv, VehiclesAre
    <2>2. CASE i = id
        <3>1. vehicles'[i] = driven(i)
            BY <1>2, <2>1, <2>2
        <3>2. controlled'[i] = k /\ k # None
            BY <1>1, <2>1, <2>2, CallsAssumption DEF TypeOK, Numbers, None
        <3>3. LastControl(i)' = controls[k]
            BY <3>2 DEF LastControl
        <3> QED BY <1>1, <1>2, <1>4, <2>1, <3>1, <3>3 DEF VehicleObeys
    <2>3. CASE i # id
        <3>1. vehicles'[i] = vehicles[i] /\ controlled'[i] = controlled[i]
            BY <1>1, <1>2, <2>1, <2>3 DEF TypeOK
        <3> QED BY <1>1, <1>2, <2>1, <2>3, <3>1, VehicleStays
    <2> QED BY <2>2, <2>3
<1> QED BY <1>6, <1>7 DEF VehiclesInv

LEMMA TaskVehicles == TypeOK /\ VehiclesInv /\ RunTaskOnVehicle => VehiclesInv'
<1> SUFFICES ASSUME TypeOK, VehiclesInv, RunTaskOnVehicle PROVE VehiclesInv'
    OBVIOUS
<1> DEFINE k == Head(queue)
<1>1. k \in Numbers
    BY DEF RunTaskOnVehicle, RunTask, InSlice, TypeOK
<1>2. CASE Spawns(k)
    <2>1. PICK spawned \in BOOLEAN : SpawnAgent(k, spawned)
        BY <1>2 DEF RunTaskOnVehicle, RunTask, Spawns
    <2> HIDE DEF k
    <2> QED BY <1>1, <1>2, <2>1, SpawnVehicles
<1>3. CASE Controls(k)
    <2>1. ControlAgent(k)
        BY <1>3 DEF RunTaskOnVehicle, RunTask, Controls
    <2> HIDE DEF k
    <2> QED BY <1>1, <1>3, <2>1, ControlVehicles
<1> QED BY <1>2, <1>3 DEF RunTaskOnVehicle

LEMMA ShiftVehicles ==
    ASSUME VehiclesInv, NEW j \in DOMAIN agents, EngineShifts(j)
    PROVE  VehiclesInv'
<1>1. PICK gear \in EngineGears(vehicles[j]) :
          vehicles' = [vehicles EXCEPT ![j].gear = gear]
    BY DEF EngineShifts
<1> DEFINE v == vehicles[j]
           w == [v EXCEPT !.gear = gear]
<1>2. UNCHANGED <<agents, controlled, spawnedAt, touched>>
    BY DEF EngineShifts, Between, vars
<1>3. Steady(v) /\ j \in DOMAIN vehicles
    BY DEF VehiclesInv, VehiclesAre, VehicleObeys
<1>4. v.autoGears /\ gear \in {1, 2}
    BY <1>1, <1>3 DEF EngineGears, Steady
<1>5. vehicles' = [vehicles EXCEPT ![j] = w]
    BY <1>1
<1> HIDE DEF v
<1>6. /\ w \in Vehicle /\ w.gear = gear
      /\ w.reverseAsBrake = v.reverseAsBrake
      /\ w.bIsInReverse = v.bIsInReverse /\ w.autoGears = v.autoGears
      /\ w.throttle = v.throttle /\ w.steer = v.steer
      /\ w.brake = v.brake /\ w.handbrake = v.handbrake
    BY <1>3, <1>4 DEF Steady, Vehicle, Gear
<1> HIDE DEF w
<1>7. Steady(w) /\ InputsOf(w) = InputsOf(v)
    BY <1>3, <1>4, <1>6 DEF Steady, InputsOf
<1>8. VehiclesAre'
    BY <1>2, <1>5, <1>6 DEF VehiclesInv, VehiclesAre
<1>9. ASSUME NEW i \in DOMAIN agents' PROVE VehicleObeys(i)'
    <2>1. i \in DOMAIN agents /\ VehicleObeys(i)
        BY <1>2 DEF VehiclesInv
    <2>2. CASE i = j
        <3>1. vehicles'[i] = w
            BY <1>3, <1>5, <2>2
        <3> QED BY <1>2, <1>7, <2>1, <2>2, <3>1 DEF VehicleObeys, LastControl, v
    <2>3. CASE i # j
        <3>1. vehicles'[i] = vehicles[i]
            BY <1>5, <2>1, <2>3 DEF VehiclesInv, VehiclesAre
        <3> QED BY <1>2, <2>1, <3>1, VehicleStays
    <2> QED BY <2>2, <2>3
<1> QED BY <1>8, <1>9 DEF VehiclesInv

LEMMA HandbrakeIsSteady ==
    ASSUME NEW v, Steady(v), NEW b \in BOOLEAN
    PROVE  Steady(SetHandbrakeInput(v, b))
<1> DEFINE w == [v EXCEPT !.handbrake = b]
<1>1. /\ w \in Vehicle /\ w.gear = v.gear
      /\ w.reverseAsBrake = v.reverseAsBrake
      /\ w.bIsInReverse = v.bIsInReverse /\ w.autoGears = v.autoGears
    BY DEF Steady, Vehicle
<1> HIDE DEF w
<1>2. Steady(w)
    BY <1>1 DEF Steady
<1> QED BY <1>2 DEF w, SetHandbrakeInput

LEMMA BlueprintVehicles ==
    ASSUME VehiclesInv, NEW j \in DOMAIN agents, BlueprintDrives(j)
    PROVE  VehiclesInv'
<1> DEFINE v == vehicles[j]
<1>1. Steady(v) /\ j \in DOMAIN vehicles
    BY DEF VehiclesInv, VehiclesAre, VehicleObeys
<1>2. v.bIsInReverse \in BOOLEAN
    BY <1>1 DEF Steady, Vehicle
<1>3. /\ Steady(ToggleReverse(v)) /\ Steady(HoldHandbrake(v))
      /\ Steady(ReleaseHandbrake(v))
    BY <1>1, <1>2, SetReverseIsSteady, HandbrakeIsSteady
       DEF ToggleReverse, HoldHandbrake, ReleaseHandbrake
<1>4. PICK w : Steady(w) /\ vehicles' = [vehicles EXCEPT ![j] = w]
    BY <1>3 DEF BlueprintDrives
<1>5. /\ UNCHANGED <<agents, controlled, spawnedAt>>
      /\ touched' = IF vehicles' = vehicles THEN touched ELSE touched \cup {j}
    BY DEF BlueprintDrives, Between, vars
<1>6. VehiclesAre'
    BY <1>4, <1>5 DEF VehiclesInv, VehiclesAre, Steady
<1>7. ASSUME NEW i \in DOMAIN agents' PROVE VehicleObeys(i)'
    <2>1. i \in DOMAIN agents /\ VehicleObeys(i)
        BY <1>5 DEF VehiclesInv
    <2>2. CASE i # j \/ vehicles' = vehicles
        <3>1. vehicles'[i] = vehicles[i]
            BY <1>4, <2>1, <2>2 DEF VehiclesInv, VehiclesAre
        <3>2. i \notin touched' => i \notin touched
            BY <1>5
        <3> QED BY <1>5, <2>1, <3>1, <3>2, VehicleStays
    <2>3. CASE i = j /\ vehicles' # vehicles
        <3>1. vehicles'[i] = w /\ i \in touched'
            BY <1>1, <1>4, <1>5, <2>3
        <3> QED BY <1>4, <1>5, <2>1, <3>1 DEF VehicleObeys
    <2> QED BY <2>2, <2>3
<1> QED BY <1>6, <1>7 DEF VehiclesInv

LEMMA NextVehicles == TypeOK /\ VehiclesInv /\ [DrivingNext]_allVars => VehiclesInv'
<1>1. VehiclesInv /\ UNCHANGED allVars => VehiclesInv'
    BY WorldStays DEF allVars, vars, drivingVars
<1> QED BY <1>1, ServerOnlyVehicles, TaskVehicles, ShiftVehicles, BlueprintVehicles
        DEF DrivingNext

-----------------------------------------------------------------------------
(* No control undoes one that was made after it was answered.  What is     *)
(* remembered is answered, and controls the same vehicle.                  *)

Remembered(j, k) ==
    /\ calls[j].function = "control" /\ calls[j].client = "has_answer"
    /\ calls[k].function = "control" /\ calls[j].target = calls[k].target

BeforeInv ==
    /\ before \in [Numbers -> SUBSET Numbers]
    /\ \A k \in Numbers : \A j \in before[k] : Remembered(j, k)

LastStands ==
    \A i \in DOMAIN agents : \A k \in Numbers :
        calls[k].runs = 1 => controlled[i] \notin before[k]

OrderInv == BeforeInv /\ LastStands

(* A call that was made keeps what it asks for, and an answer.             *)
Kept(c, d) ==
    /\ d.function = c.function /\ d.target = c.target
    /\ c.client = "has_answer" => d.client = "has_answer"
    /\ c.stage = "none" => d.stage = "none"

Moved(c, d) == Kept(c, d) /\ (d.runs = c.runs \/ c.function = "ping")

Fresh(c, d) == c.stage = "none" /\ d.stage # "none" /\ d.runs = 0

AllMove == \A k \in Numbers : Moved(calls[k], calls'[k]) \/ Fresh(calls[k], calls'[k])

LEMMA OneMoves ==
    ASSUME TypeOK, NEW k \in Numbers, NEW c, calls' = [calls EXCEPT ![k] = c],
           Moved(calls[k], c) \/ Fresh(calls[k], c)
    PROVE  AllMove
<1>1. \A j \in Numbers : calls'[j] = IF j = k THEN c ELSE calls[j]
    BY DEF TypeOK
<1>2. \A j \in Numbers : Moved(calls[j], calls[j])
    BY DEF Moved, Kept
<1> QED BY <1>1, <1>2 DEF AllMove

LEMMA ClientMoves == ASSUME TypeOK, NEW k \in Numbers, Client(k) PROVE AllMove
<1>1. ASSUME NEW f, NEW t, Make(k, f, t) PROVE AllMove
    <2> DEFINE c == [function |-> f, target |-> t, stage |-> "sent",
                     client |-> "waits", id |-> None, runs |-> 0]
    <2>1. calls' = [calls EXCEPT ![k] = c] /\ calls[k].stage = "none"
        BY <1>1 DEF Make
    <2>2. Fresh(calls[k], c)
        BY <2>1 DEF Fresh
    <2> HIDE DEF c
    <2> QED BY <2>1, <2>2, OneMoves
<1>2. CASE GiveUp(k)
    <2> DEFINE c == [calls[k] EXCEPT !.client = "gave_up"]
    <2>1. calls' = [calls EXCEPT ![k] = c] /\ calls[k].client = "waits" /\ calls[k] \in Call
        BY <1>2 DEF GiveUp, TypeOK
    <2>2. Moved(calls[k], c)
        BY <2>1 DEF Moved, Kept, Call
    <2> HIDE DEF c
    <2> QED BY <2>1, <2>2, OneMoves
<1> QED BY <1>1, <1>2 DEF Client, Ping, SpawnActor, ApplyControl

(* Who answers a call moves it.                                            *)
LEMMA AnsweredMoves ==
    ASSUME NEW c \in Call, c.stage # "none"
    PROVE  Moved(c, Answered(c))
BY DEF Moved, Kept, Answered, Call

LEMMA WorkerMoves == ASSUME TypeOK, NEW k \in Numbers, Worker(k) PROVE AllMove
<1>1. calls[k] \in Call
    BY DEF TypeOK
<1>2. ASSUME NEW stage \in {"taken", "posted"}, calls[k].stage # "none",
             calls' = [calls EXCEPT ![k].stage = stage]
      PROVE  AllMove
    <2> DEFINE c == [calls[k] EXCEPT !.stage = stage]
    <2>1. Moved(calls[k], c)
        BY <1>1, <1>2 DEF Moved, Kept, Call
    <2>2. calls' = [calls EXCEPT ![k] = c]
        BY <1>2
    <2> HIDE DEF c
    <2> QED BY <2>1, <2>2, OneMoves
<1>3. CASE TakeCall(k)
    BY <1>2, <1>3 DEF TakeCall
<1>4. CASE PostTask(k)
    BY <1>2, <1>4 DEF PostTask
<1>5. CASE RunAsync(k)
    <2> DEFINE c == Ran(calls[k])
               d == Answered(c)
    <2>1. /\ calls[k].stage = "taken" /\ calls[k].function = "ping"
          /\ calls' = [calls EXCEPT ![k] = d]
        BY <1>5 DEF RunAsync, IsSync
    <2>2. c \in Call /\ Moved(calls[k], c) /\ c.stage = "taken"
        BY <1>1, <2>1 DEF Ran, Moved, Kept, Call
    <2> HIDE DEF c
    <2>3. Moved(c, d)
        BY <2>2, AnsweredMoves
    <2> HIDE DEF d
    <2>4. Moved(calls[k], d)
        BY <2>1, <2>2, <2>3 DEF Moved, Kept
    <2> QED BY <2>1, <2>4, OneMoves
<1>6. CASE ReturnResult(k)
    <2> DEFINE d == Answered(calls[k])
    <2>1. calls' = [calls EXCEPT ![k] = d] /\ calls[k].stage = "ready"
        BY <1>6 DEF ReturnResult
    <2>2. Moved(calls[k], d)
        BY <1>1, <2>1, AnsweredMoves
    <2> HIDE DEF d
    <2> QED BY <2>1, <2>2, OneMoves
<1> QED BY <1>3, <1>4, <1>5, <1>6 DEF Worker

LEMMA ServerOnlyMoves == ASSUME TypeOK, ServerOnly PROVE AllMove
<1>1. ASSUME UNCHANGED calls PROVE AllMove
    BY <1>1 DEF AllMove, Moved, Kept
<1>2. CASE Tick \/ SliceEnds \/ EndPlay \/ StopReturns
    BY <1>1, <1>2 DEF Tick, SliceEnds, EndPlay, StopReturns
<1> QED BY <1>2, ClientMoves, WorkerMoves DEF ServerOnly

LEMMA ServerOnlyOrder ==
    ASSUME IInv, OrderInv, ServerOnly
    PROVE  OrderInv'
<1>1. AllMove
    BY ServerOnlyMoves DEF IInv
<1>2. \A k \in Numbers :
          /\ calls[k].stage = "none" => calls[k].function = "ping"
          /\ calls[k].client = "has_answer" => calls[k].stage = "answered"
    BY DEF IInv, StageInv
<1>3. \A k \in Numbers :
          before'[k] = IF MakesControl(k) THEN AnsweredControls(calls'[k].target)
                                          ELSE before[k]
    BY DEF ServerOnly
<1>4. ASSUME NEW j \in Numbers, calls[j].client = "has_answer"
      PROVE  Kept(calls[j], calls'[j])
    BY <1>1, <1>2, <1>4 DEF AllMove, Fresh, Moved
<1>5. before' \in [Numbers -> SUBSET Numbers]
    BY DEF ServerOnly, OrderInv, BeforeInv, AnsweredControls
<1>6. ASSUME NEW k \in Numbers, NEW j \in before'[k] PROVE Remembered(j, k)'
    <2>1. j \in Numbers
        BY <1>5
    <2>2. CASE MakesControl(k)
        <3>1. /\ calls[j].function = "control" /\ calls[j].client = "has_answer"
              /\ calls[j].target = calls'[k].target
            BY <1>3, <1>6, <2>2 DEF AnsweredControls
        <3>2. calls'[k].function = "control"
            BY <2>2 DEF MakesControl
        <3> QED BY <1>4, <2>1, <3>1, <3>2 DEF Kept, Remembered
    <2>3. CASE ~MakesControl(k)
        <3>1. j \in before[k] /\ Remembered(j, k)
            BY <1>3, <1>6, <2>3 DEF OrderInv, BeforeInv
        <3>2. Kept(calls[j], calls'[j])
            BY <1>4, <2>1, <3>1 DEF Remembered
        <3>3. Kept(calls[k], calls'[k])
            BY <1>1, <1>2, <3>1 DEF AllMove, Moved, Fresh, Remembered
        <3> QED BY <3>1, <3>2, <3>3 DEF Kept, Remembered
    <2> QED BY <2>2, <2>3
<1>7. UNCHANGED <<agents, controlled>>
    BY DEF ServerOnly, Client, Ping, SpawnActor, ApplyControl, Make, GiveUp,
           Worker, TakeCall, RunAsync, PostTask, ReturnResult,
           Tick, SliceEnds, EndPlay, StopReturns, worldVars
<1>8. ASSUME NEW i \in DOMAIN agents', NEW k \in Numbers, calls'[k].runs = 1
      PROVE  controlled'[i] \notin before'[k]
    <2>1. Moved(calls[k], calls'[k])
        BY <1>1, <1>8 DEF AllMove, Fresh
    <2>2. before'[k] = before[k]
        BY <1>3, <2>1 DEF MakesControl, Moved, Kept
    <2>3. CASE calls[k].function = "ping"
        <3>1. before[k] = {}
            BY <2>3 DEF OrderInv, BeforeInv, Remembered
        <3> QED BY <2>2, <3>1
    <2>4. CASE calls[k].runs = 1
        BY <1>7, <2>2, <2>4 DEF OrderInv, LastStands
    <2> QED BY <1>8, <2>1, <2>3, <2>4 DEF Moved
<1> QED BY <1>5, <1>6, <1>8 DEF OrderInv, BeforeInv, LastStands

(* A task that runs is remembered by none, for it was not answered; and of *)
(* the controls it remembers none is the last one of another vehicle.      *)
LEMMA TaskOrder ==
    ASSUME IInv, OwnerInv, OrderInv, RunTaskOnVehicle
    PROVE  OrderInv'
<1> DEFINE k == Head(queue)
<1>0. RunTask /\ queue # <<>>
    BY DEF RunTaskOnVehicle, RunTask, InSlice
<1>1. k \in Numbers /\ calls[k].stage = "posted" /\ calls[k] \in Call
    BY <1>0, HeadIsPosted
<1>2. before' = before
    BY DEF RunTaskOnVehicle, Spawns, Controls
<1>3. \/ calls[k].function = "spawn" /\ \E spawned \in BOOLEAN : SpawnAgent(k, spawned)
      \/ calls[k].function = "control" /\ ControlAgent(k)
    BY <1>0 DEF RunTaskOnVehicle, RunTask, Spawns, Controls
<1> HIDE DEF k
<1>4. PICK id : calls' = [calls EXCEPT ![k] = Ready(@, id)]
    BY <1>3 DEF SpawnAgent, ControlAgent
<1>5. Kept(calls[k], Ready(calls[k], id))
    BY <1>1 DEF Kept, Ready, Ran, Call
<1>6. \A j \in Numbers : j # k => calls'[j] = calls[j]
    BY <1>1, <1>4 DEF IInv, TypeOK
<1>7. \A j \in Numbers : Kept(calls[j], calls'[j])
    <2>1. calls'[k] = Ready(calls[k], id)
        BY <1>1, <1>4 DEF IInv, TypeOK
    <2> QED BY <1>5, <1>6, <2>1 DEF Kept
<1>8. before \in [Numbers -> SUBSET Numbers]
    BY DEF OrderInv, BeforeInv
<1>9. BeforeInv'
    <2> SUFFICES ASSUME NEW m \in Numbers, NEW j \in before[m]
                 PROVE  Remembered(j, m)'
        BY <1>2, <1>8 DEF BeforeInv
    <2>1. Remembered(j, m) /\ j \in Numbers
        BY <1>8 DEF OrderInv, BeforeInv
    <2> QED BY <1>7, <2>1 DEF Remembered, Kept
<1>10. \A m \in Numbers : k \notin before[m] /\ None \notin before[m]
    <2>1. calls[k].client # "has_answer"
        BY <1>1 DEF IInv, StageInv
    <2>2. None \notin Numbers
        BY CallsAssumption DEF Numbers, None
    <2> QED BY <1>8, <2>1, <2>2 DEF OrderInv, BeforeInv, Remembered
<1>11. ASSUME NEW i \in DOMAIN agents, NEW m \in Numbers,
              calls'[m].runs = 1, m # k \/ controlled[i] \notin before[k]
       PROVE  controlled[i] \notin before[m]
    BY <1>6, <1>11 DEF OrderInv, LastStands
<1>12. CASE calls[k].function = "spawn"
    <2>1. before[k] = {}
        BY <1>1, <1>12 DEF OrderInv, BeforeInv, Remembered
    <2>2. PICK spawned \in BOOLEAN : SpawnAgent(k, spawned)
        BY <1>3, <1>12
    <2>3. ASSUME NEW i \in DOMAIN agents'
          PROVE  \/ controlled'[i] = None
                 \/ i \in DOMAIN agents /\ controlled'[i] = controlled[i]
        BY <2>2, <2>3 DEF SpawnAgent
    <2> QED BY <1>2, <1>9, <1>10, <1>11, <2>1, <2>3 DEF OrderInv, LastStands
<1>13. CASE calls[k].function = "control"
    <2> DEFINE h == calls[k].target
               own == calls[h].id
    <2>1. /\ agents' = agents
          /\ controlled' = IF own \in DOMAIN agents
                             THEN [controlled EXCEPT ![own] = k] ELSE controlled
        BY <1>3, <1>13 DEF ControlAgent
    <2>2. ASSUME NEW i \in DOMAIN agents, controlled[i] \in before[k] PROVE i = own
        <3>1. controlled[i] \in Numbers /\ calls[controlled[i]].target = h
            BY <1>1, <1>8, <2>2 DEF OrderInv, BeforeInv, Remembered
        <3>2. agents[i] = h
            BY <1>10, <1>1, <2>2, <3>1 DEF IInv, ControlInv
        <3> QED BY <3>2 DEF OwnerInv
    <2> HIDE DEF h, own
    <2>3. ASSUME NEW i \in DOMAIN agents
          PROVE  controlled'[i] = k \/ (controlled'[i] = controlled[i]
                                        /\ controlled[i] \notin before[k])
        BY <2>1, <2>2, <2>3 DEF IInv, TypeOK
    <2> QED BY <1>2, <1>9, <1>10, <1>11, <2>1, <2>3 DEF OrderInv, LastStands
<1> QED BY <1>3, <1>12, <1>13

LEMMA NextOrder ==
    ASSUME IInv, OwnerInv, OrderInv, [DrivingNext]_allVars
    PROVE  OrderInv'
<1>1. ASSUME UNCHANGED <<calls, agents, controlled, before>> PROVE OrderInv'
    BY <1>1 DEF OrderInv, BeforeInv, LastStands, Remembered, Numbers
<1>2. CASE UNCHANGED allVars
    BY <1>1, <1>2 DEF allVars, vars, drivingVars
<1>3. CASE \E i \in DOMAIN agents : EngineShifts(i) \/ BlueprintDrives(i)
    BY <1>1, <1>3 DEF EngineShifts, BlueprintDrives, Between, vars
<1> QED BY <1>2, <1>3, ServerOnlyOrder, TaskOrder DEF DrivingNext

-----------------------------------------------------------------------------

(* The simulator keeps the server's types, and its vehicles are steady and *)
(* have the inputs of their last control (CarlaWheeledVehicle.cpp:73-105). *)
THEOREM DrivingInvariant == DrivingSpec => [](TypeOK /\ VehiclesInv)
<1>1. DrivingSpec => []TypeOK
    BY DrivingImplementsRpcServer, TypeCorrect, PTL
<1> QED BY <1>1, InitVehicles, NextVehicles, PTL DEF DrivingSpec

(* Calls remember answered controls of their own vehicle, and no call that *)
(* ran does remember the last one (RPCServer.cpp:63-74).                   *)
THEOREM OrderInvariant == DrivingSpec => []OrderInv
<1>1. DrivingSpec => [](IInv /\ OwnerInv)
    BY DrivingImplementsRpcServer, Invariant, OwnerInvariant, PTL
<1>2. DrivingInit => OrderInv
    <2> SUFFICES ASSUME DrivingInit PROVE OrderInv
        OBVIOUS
    <2>1. before = [k \in Numbers |-> {}] /\ DOMAIN agents = {}
        BY DEF DrivingInit, Init
    <2> QED BY <2>1 DEF OrderInv, BeforeInv, LastStands
<1> QED BY <1>1, <1>2, NextOrder, PTL DEF DrivingSpec

(* Every agent of _Agents is a vehicle with inputs and a gear of their     *)
(* types (Server.cpp:41-72).                                               *)
THEOREM DrivingTypeCorrect == DrivingSpec => []DrivingTypeOK
<1>1. TypeOK /\ VehiclesInv /\ OrderInv => DrivingTypeOK
    BY DEF VehiclesInv, VehiclesAre, OrderInv, BeforeInv, DrivingTypeOK
<1> QED BY <1>1, DrivingInvariant, OrderInvariant, PTL

(* The flag and the gear box never disagree, whatever controls come and    *)
(* whatever blueprints and the engine do in between                        *)
(* (CarlaWheeledVehicle.cpp:26, 97-105).                                   *)
THEOREM AlwaysReverseIsGear == DrivingSpec => []ReverseIsGear
<1>1. VehiclesInv => ReverseIsGear
    <2> SUFFICES ASSUME VehiclesInv, NEW i \in DOMAIN agents
                 PROVE  /\ vehicles[i].bIsInReverse = (vehicles[i].gear = -1)
                        /\ vehicles[i].autoGears = ~vehicles[i].bIsInReverse
        BY DEF ReverseIsGear
    <2> DEFINE v == vehicles[i]
    <2>1. Steady(v)
        BY DEF VehiclesInv, VehicleObeys
    <2>2. v.bIsInReverse \in BOOLEAN /\ v.autoGears \in BOOLEAN
        BY <2>1 DEF Steady, Vehicle
    <2> HIDE DEF v
    <2>3. /\ v.bIsInReverse = (v.gear = -1)
          /\ v.autoGears = ~v.bIsInReverse
        BY <2>1, <2>2 DEF Steady
    <2> QED BY <2>3 DEF v
<1> QED BY <1>1, DrivingInvariant, PTL

(* A vehicle stands where its client wanted it, and has the inputs of the  *)
(* last control that ran, for any values of them; and no control that was  *)
(* made after this one was answered has run (RPCServer.cpp:19-28, 63-74,   *)
(* rpc/Transform.h:34-39, rpc/Server.h:46-57).                             *)
THEOREM AlwaysObeysItsClient == DrivingSpec => []ObeysItsClient
<1>1. TypeOK /\ VehiclesInv /\ OrderInv => ObeysItsClient
    <2> SUFFICES ASSUME TypeOK, VehiclesInv, OrderInv, NEW i \in DOMAIN agents
                 PROVE  /\ ToTransform(spawnedAt[i]) = places[agents[i]]
                        /\ i \notin touched => InputsOf(vehicles[i]) = LastControl(i)
        BY DEF ObeysItsClient, InputsOf, OrderInv, LastStands
    <2>1. agents[i] \in Numbers
        BY DEF TypeOK
    <2>2. places[agents[i]] \in Transform
        BY <2>1, PayloadAssumption
    <2> QED BY <2>2, TransformBack DEF VehiclesInv, VehicleObeys
<1> QED BY <1>1, DrivingInvariant, OrderInvariant, PTL
=============================================================================
