------------------------------ MODULE RpcServer ------------------------------
(***************************************************************************)
(* The RPC server of the simulator: rpc::Server                            *)
(* (LibCarla/source/carla/rpc/Server.h), the functions FRPCServer binds    *)
(* (Plugins/Carla/Source/Carla/Server/RPCServer.cpp) and the game actor    *)
(* AServer that owns the vehicles (Server/Server.cpp).                     *)
(*                                                                         *)
(* Workers take the calls of the clients.  "ping" is bound with BindAsync  *)
(* and answered at once.  "spawn_actor" and "apply_control_to_actor" are   *)
(* bound with BindSync: the worker posts a task with references into its   *)
(* own stack frame and blocks until the game thread has run it, which it   *)
(* does only inside SyncRunFor, once per Tick.  A client that waits too    *)
(* long gives up; its call is not withdrawn.                               *)
(*                                                                         *)
(* rpclib is external: its workers serve calls in any order, several of    *)
(* one client at a time, and its stop() keeps them from taking calls and   *)
(* then joins them.                                                        *)
(***************************************************************************)
EXTENDS Naturals, Sequences, FiniteSets

CONSTANTS
    Workers,    \* threads that serve calls: AsyncRun(4)
    IdModulus,  \* actor ids are IdModulus wide: 2^32
    MaxCalls    \* bound on the calls made in a behaviour

ASSUME WorkersAssumption == Workers \in Nat \ {0}
ASSUME IdsAssumption == IdModulus \in Nat /\ IdModulus > 2 * MaxCalls
ASSUME CallsAssumption == MaxCalls \in Nat

VARIABLES
    calls,      \* the calls, numbered in the order they are made
    queue,      \* tasks in _sync_io_service that have not run
    drained,    \* _sync_io_service ran out of work and was not reset
    slice,      \* "off" | "fresh" | "used": the game thread in SyncRunFor
    game,       \* "play" | "ending" | "ended": AServer, and FRPCServer::Stop
    count,      \* COUNT of AServer::SpawnAgent
    agents,     \* _Agents: the call that spawned the vehicle, by its id
    controlled  \* history: for each vehicle, the call of its last control

vars == <<calls, queue, drained, slice, game, count, agents, controlled>>

serverVars == <<queue, drained, slice, game>>
worldVars == <<count, agents, controlled>>

None == 0

(* static_cast<uint32_t>(-1): the id of an agent that was not spawned. *)
NoAgent == IdModulus - 1

(* A call, from the client that makes it to the client that has its        *)
(* answer, or has given up.                                                *)
Call == [function : {"ping", "spawn", "control"},
         target : 0..MaxCalls,      \* of a control: the call of its handle
         stage : {"none", "sent", "taken", "posted", "ready", "answered"},
         client : {"none", "waits", "has_answer", "gave_up"},
         id : {None, NoAgent} \cup 1..MaxCalls,     \* the actor returned
         runs : Nat]                \* history: how often its functor ran

Numbers == 1..MaxCalls

(* What stands for a call that is not made yet. *)
NoCall == [function |-> "ping", target |-> None, stage |-> "none",
           client |-> "none", id |-> None, runs |-> 0]

IsSync(k) == calls[k].function # "ping"

(* Calls that occupy a worker. *)
Busy == {k \in Numbers : calls[k].stage \in {"taken", "posted", "ready"}}

TypeOK ==
    /\ calls \in [Numbers -> Call]
    /\ queue \in Seq(Numbers)
    /\ drained \in BOOLEAN
    /\ slice \in {"off", "fresh", "used"}
    /\ game \in {"play", "ending", "ended"}
    /\ count \in 0..MaxCalls
    /\ DOMAIN agents \subseteq 1..count
    /\ agents \in [DOMAIN agents -> Numbers]
    /\ controlled \in [DOMAIN agents -> 0..MaxCalls]

Init ==
    /\ calls = [k \in Numbers |-> NoCall]
    /\ queue = <<>> /\ drained = FALSE /\ slice = "off" /\ game = "play"
    /\ count = 0
    /\ agents = [i \in {} |-> None] /\ controlled = [i \in {} |-> None]

-----------------------------------------------------------------------------
(* The clients.                                                            *)

Make(k, function, target) ==
    /\ calls[k].stage = "none"
    /\ \A j \in Numbers : j < k => calls[j].stage # "none"
    /\ calls' = [calls EXCEPT ![k] =
                    [function |-> function, target |-> target,
                     stage |-> "sent", client |-> "waits",
                     id |-> None, runs |-> 0]]
    /\ UNCHANGED <<serverVars, worldVars>>

Ping(k) == Make(k, "ping", None)

SpawnActor(k) == Make(k, "spawn", None)

(* A control is applied through an actor that a spawn returned. *)
ApplyControl(k) ==
    \E h \in Numbers :
        /\ calls[h].function = "spawn" /\ calls[h].client = "has_answer"
        /\ Make(k, "control", h)

GiveUp(k) ==
    /\ calls[k].client = "waits"
    /\ calls' = [calls EXCEPT ![k].client = "gave_up"]
    /\ UNCHANGED <<serverVars, worldVars>>

-----------------------------------------------------------------------------
(* The workers.                                                            *)

\* Mutated: a control has its answer as soon as a worker has it.
AnswersControlsFirst(k) ==
    /\ calls[k].stage = "sent"
    /\ game = "play"
    /\ Cardinality(Busy) < Workers
    /\ calls' = [calls EXCEPT
                    ![k].stage = "taken",
                    ![k].client = IF calls[k].function = "control" /\ @ = "waits"
                                    THEN "has_answer" ELSE @]
    /\ UNCHANGED <<serverVars, worldVars>>

TakeCall(k) ==
    /\ calls[k].stage = "sent"
    /\ game = "play"
    /\ Cardinality(Busy) < Workers
    /\ calls' = [calls EXCEPT ![k].stage = "taken"]
    /\ UNCHANGED <<serverVars, worldVars>>

(* The functor of the call runs. *)
Ran(c) == [c EXCEPT !.runs = @ + 1]

(* The answer reaches a client that still waits for it. *)
Answered(c) ==
    [c EXCEPT !.stage = "answered",
              !.client = IF @ = "waits" THEN "has_answer" ELSE @]

RunAsync(k) ==
    /\ calls[k].stage = "taken" /\ ~IsSync(k)
    /\ calls' = [calls EXCEPT ![k] = Answered(Ran(@))]
    /\ UNCHANGED <<serverVars, worldVars>>

\* Mutated: the future is not waited for.
PostsAndReturns(k) ==
    /\ calls[k].stage = "taken" /\ IsSync(k)
    /\ queue' = Append(queue, k)
    /\ calls' = [calls EXCEPT ![k] = Answered(@)]
    /\ UNCHANGED <<drained, slice, game, worldVars>>

(* WrapSyncCall: post the task and block on its future. *)
PostTask(k) ==
    /\ calls[k].stage = "taken" /\ IsSync(k)
    /\ queue' = Append(queue, k)
    /\ calls' = [calls EXCEPT ![k].stage = "posted"]
    /\ UNCHANGED <<drained, slice, game, worldVars>>

(* The future is ready: the worker returns the result and is free. *)
ReturnResult(k) ==
    /\ calls[k].stage = "ready"
    /\ calls' = [calls EXCEPT ![k] = Answered(@)]
    /\ UNCHANGED <<serverVars, worldVars>>

-----------------------------------------------------------------------------
(* The game thread.                                                        *)

\* Mutated: without the reset.
TicksWithoutReset ==
    /\ game = "play" /\ slice = "off"
    /\ slice' = "fresh"
    /\ UNCHANGED <<calls, queue, drained, game, worldVars>>

(* Tick: SyncRunFor resets the io_service and runs it for 20 ms. *)
Tick ==
    /\ game = "play" /\ slice = "off"
    /\ slice' = "fresh"
    /\ drained' = FALSE
    /\ UNCHANGED <<calls, queue, game, worldVars>>

(* run_for returns when the io_service has run out of work, or when the    *)
(* time is over, which it is not before the first task.                    *)
SliceEnds ==
    /\ \/ drained \/ queue = <<>>
       \/ slice = "used"
    /\ slice # "off"
    /\ slice' = "off"
    /\ drained' = (drained \/ queue = <<>>)
    /\ UNCHANGED <<calls, queue, game, worldVars>>

Ready(c, id) == [Ran(c) EXCEPT !.stage = "ready", !.id = id]

\* Mutated: the counter follows the vehicles and is returned in any case.
CountsVehiclesOnly(k, spawned) ==
    /\ count' = IF spawned THEN count + 1 ELSE count
    /\ IF spawned
         THEN /\ agents' = [i \in DOMAIN agents \cup {count'} |->
                                IF i = count' THEN k ELSE agents[i]]
              /\ controlled' = [i \in DOMAIN agents' |->
                                IF i = count' THEN None ELSE controlled[i]]
         ELSE UNCHANGED <<agents, controlled>>
    /\ calls' = [calls EXCEPT ![k] = Ready(@, count')]

\* Mutated: the id is returned whether there is a vehicle or not.
ReturnsIdAnyway(k, spawned) ==
    /\ count' = count + 1
    /\ IF spawned
         THEN /\ agents' = [i \in DOMAIN agents \cup {count'} |->
                                IF i = count' THEN k ELSE agents[i]]
              /\ controlled' = [i \in DOMAIN agents' |->
                                IF i = count' THEN None ELSE controlled[i]]
         ELSE UNCHANGED <<agents, controlled>>
    /\ calls' = [calls EXCEPT ![k] = Ready(@, count')]

(* AServer::SpawnAgent.  The engine may refuse to spawn the vehicle; the   *)
(* counter goes on all the same.                                           *)
SpawnAgent(k, spawned) ==
    /\ count' = count + 1
    /\ IF spawned
         THEN /\ agents' = [i \in DOMAIN agents \cup {count'} |->
                                IF i = count' THEN k ELSE agents[i]]
              /\ controlled' = [i \in DOMAIN agents' |->
                                IF i = count' THEN None ELSE controlled[i]]
              /\ calls' = [calls EXCEPT ![k] = Ready(@, count')]
         ELSE /\ calls' = [calls EXCEPT ![k] = Ready(@, NoAgent)]
              /\ UNCHANGED <<agents, controlled>>

(* AServer::ApplyControl: nothing happens if the agent does not exist, and *)
(* what it returns is dropped by the bound function.                       *)
ControlAgent(k) ==
    LET id == calls[calls[k].target].id IN
    /\ controlled' = IF id \in DOMAIN agents
                       THEN [controlled EXCEPT ![id] = k] ELSE controlled
    /\ calls' = [calls EXCEPT ![k] = Ready(@, None)]
    /\ UNCHANGED <<count, agents>>

InSlice == slice # "off" /\ ~drained /\ queue # <<>>

\* Mutated: the task is left in the queue.
PeeksTask ==
    /\ InSlice
    /\ slice' = "used"
    /\ LET k == Head(queue) IN
       /\ queue' = IF calls[k].runs = 0 THEN queue ELSE Tail(queue)
       /\ IF calls[k].function = "spawn"
            THEN \E spawned \in BOOLEAN : SpawnAgent(k, spawned)
            ELSE ControlAgent(k)
    /\ UNCHANGED <<drained, game>>

\* Mutated: the promise is not fulfilled when the functor throws.
LosesResult ==
    /\ InSlice
    /\ slice' = "used"
    /\ queue' = Tail(queue)
    /\ LET k == Head(queue) IN
       IF calls[k].function = "spawn"
         THEN \E spawned \in BOOLEAN : SpawnAgent(k, spawned)
         ELSE UNCHANGED <<calls, worldVars>>
    /\ UNCHANGED <<drained, game>>

(* The game thread runs one task of the slice. *)
RunTask ==
    /\ InSlice
    /\ slice' = "used"
    /\ queue' = Tail(queue)
    /\ LET k == Head(queue) IN
       IF calls[k].function = "spawn"
         THEN \E spawned \in BOOLEAN : SpawnAgent(k, spawned)
         ELSE ControlAgent(k)
    /\ UNCHANGED <<drained, game>>

(* EndPlay, between two Ticks: FRPCServer::Stop. *)
EndPlay ==
    /\ game = "play" /\ slice = "off"
    /\ game' = "ending"
    /\ UNCHANGED <<calls, queue, drained, slice, worldVars>>

(* Stop has joined the workers: it returns.  The game thread runs no task  *)
(* while it waits for them.                                                *)
StopReturns ==
    /\ game = "ending" /\ Busy = {}
    /\ game' = "ended"
    /\ UNCHANGED <<calls, queue, drained, slice, worldVars>>

-----------------------------------------------------------------------------
Client(k) == Ping(k) \/ SpawnActor(k) \/ ApplyControl(k) \/ GiveUp(k)

Worker(k) == TakeCall(k) \/ RunAsync(k) \/ PostTask(k) \/ ReturnResult(k)

Game == Tick \/ RunTask \/ SliceEnds

Next ==
    \/ \E k \in Numbers : Client(k) \/ Worker(k)
    \/ Game
    \/ EndPlay \/ StopReturns

Spec == Init /\ [][Next]_vars

(* The workers work and the game ticks. *)
Fairness ==
    /\ \A k \in Numbers : WF_vars(Worker(k))
    /\ WF_vars(Tick \/ SliceEnds)
    /\ WF_vars(RunTask)
    /\ WF_vars(StopReturns)

FairSpec == Spec /\ Fairness

-----------------------------------------------------------------------------
(* Properties.                                                             *)

(* "We can pass arguments by ref to the lambda because the task will be    *)
(* executed before this function exits" (rpc/Server.h:50-51): a task that  *)
(* can still run refers to the frame of a worker that is blocked on it,    *)
(* and no two tasks to one frame.                                          *)
FramesOutliveTasks ==
    /\ \A i \in 1..Len(queue) : calls[queue[i]].stage = "posted"
    /\ \A i, j \in 1..Len(queue) : queue[i] = queue[j] => i = j

(* A client that has an answer has had its function run exactly once; one  *)
(* that gave up never had it run twice (rpc/Server.h:46-57).               *)
RunsOnce ==
    \A k \in Numbers :
        /\ calls[k].runs <= 1
        /\ calls[k].client = "has_answer" => calls[k].runs = 1

(* The server does what RemoteCalls promises.  The vehicle of a spawn is   *)
(* the agent that has it, under whatever id, and its client is told that   *)
(* there is one by any id but the one of no agent.                         *)
Shown(c) ==
    [function |-> c.function, target |-> c.target, client |-> c.client,
     effects |-> c.runs,
     vehicle |-> IF c.function # "spawn" \/ c.runs = 0 THEN "none"
                 ELSE IF c.id = NoAgent THEN "refused" ELSE "spawned"]

Made == [k \in Numbers |-> Shown(calls[k])]

AgentOf(k) == CHOOSE i \in DOMAIN agents : agents[i] = k

LastControls ==
    [k \in {agents[i] : i \in DOMAIN agents} |-> controlled[AgentOf(k)]]

Remote == INSTANCE RemoteCalls WITH made <- Made, lastControl <- LastControls

(* Workers that block, tasks that wait for a slice, ids that are counted   *)
(* and clients that give up never show: each call takes effect at one      *)
(* moment, once, on its own vehicle, before its client has the answer      *)
(* (rpc/Server.h:46-57, RPCServer.cpp:51-75, Server.cpp:41-72).            *)
ImplementsCalls == Remote!Spec

(* The ids of agents are the ones their clients hold: a control reaches    *)
(* the vehicle that was spawned for its handle, or none, also when spawns  *)
(* failed before it or its client gave up (Server.cpp:41-72,               *)
(* RPCServer.cpp:63-74).                                                   *)
ControlsOwnVehicle ==
    \A i \in DOMAIN agents :
        controlled[i] # None => calls[controlled[i]].target = agents[i]

(* As long as the game ticks every call is served, the asynchronous ones   *)
(* too, when all the workers were blocked on the game thread.              *)
CallsAreServed ==
    [](game = "play") =>
        \A k \in Numbers :
            calls[k].stage # "none" ~> calls[k].stage = "answered"

(* Stop returns, or it waits forever for a worker that is blocked on a     *)
(* task which only the game thread, waiting in Stop, could run             *)
(* (Server.cpp:28-31, rpc/Server.h:103-106).                               *)
StopEndsOrHangs ==
    game = "ending" ~> (game = "ended" \/ [](game = "ending" /\ queue # <<>>))
=============================================================================
