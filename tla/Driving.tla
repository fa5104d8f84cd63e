------------------------------- MODULE Driving -------------------------------
(***************************************************************************)
(* The vehicles behind the RPC server: module RpcServer says which call    *)
(* runs when and for which agent, this module what the call carries and    *)
(* what the vehicle then does (module Vehicle).  Every step here is a step *)
(* of RpcServer, or leaves its variables alone.                            *)
(*                                                                         *)
(* On the same game thread, but not inside SyncRunFor, the engine changes  *)
(* gears and the game's own blueprints use the functions of the vehicle.   *)
(***************************************************************************)
EXTENDS RpcServer, Vehicle

CONSTANTS
    controls,   \* the VehicleControl that a call carries, if it is a control
    places,     \* the Transform that it carries, if it is a spawn
    MaxTouched  \* bound on the vehicles that blueprints use at a time

ASSUME PayloadAssumption ==
    /\ controls \in [Numbers -> VehicleControl]
    /\ places \in [Numbers -> Transform]
    /\ MaxTouched \in Nat

VARIABLES
    vehicles,   \* the vehicles of _Agents, by their id
    spawnedAt,  \* history: the FTransform each was spawned at
    touched,    \* history: vehicles that a blueprint changed since a control
    before      \* history: for each control, those of its vehicle that had
                \* their answers when it was made

drivingVars == <<vehicles, spawnedAt, touched, before>>

allVars == <<vars, drivingVars>>

DrivingTypeOK ==
    /\ TypeOK
    /\ vehicles \in [DOMAIN agents -> Vehicle]
    /\ DOMAIN spawnedAt = DOMAIN agents
    /\ touched \subseteq DOMAIN agents
    /\ before \in [Numbers -> SUBSET Numbers]

DrivingInit ==
    /\ Init
    /\ vehicles = [i \in {} |-> NewVehicle] /\ spawnedAt = [i \in {} |-> None]
    /\ touched = {} /\ before = [k \in Numbers |-> {}]

-----------------------------------------------------------------------------
(* RunTask runs AServer::SpawnAgent, and there was a vehicle ...           *)
Spawns(k) ==
    /\ calls[k].function = "spawn"
    /\ vehicles' = [i \in DOMAIN agents' |->
                      IF i \in DOMAIN agents THEN vehicles[i] ELSE NewVehicle]
    /\ spawnedAt' = [i \in DOMAIN agents' |->
                      IF i \in DOMAIN agents
                        THEN spawnedAt[i] ELSE FTransform(places[k])]
    /\ UNCHANGED <<touched, before>>

(* ... or AServer::ApplyControl, on a vehicle that exists or not.          *)
Controls(k) ==
    LET id == calls[calls[k].target].id IN
    /\ calls[k].function = "control"
    /\ vehicles' = [i \in DOMAIN vehicles |->
                      IF i = id
                        THEN ApplyVehicleControl(vehicles[i], MakeControl(controls[k]))
                        ELSE vehicles[i]]
    /\ touched' = touched \ {id}
    /\ UNCHANGED <<spawnedAt, before>>

RunTaskOnVehicle ==
    /\ RunTask
    /\ LET k == Head(queue) IN Spawns(k) \/ Controls(k)

(* The controls through a handle that have their answers. *)
AnsweredControls(h) ==
    {k \in Numbers : calls[k].function = "control" /\ calls[k].target = h
                     /\ calls[k].client = "has_answer"}

MakesControl(k) ==
    calls[k].stage = "none" /\ calls'[k].stage # "none"
    /\ calls'[k].function = "control"

(* Everything else on the server is not about vehicles. *)
ServerOnly ==
    /\ \/ \E k \in Numbers : Client(k) \/ Worker(k)
       \/ Tick \/ SliceEnds \/ EndPlay \/ StopReturns
    /\ before' = [k \in Numbers |->
                     IF MakesControl(k) THEN AnsweredControls(calls'[k].target)
                                        ELSE before[k]]
    /\ UNCHANGED <<vehicles, spawnedAt, touched>>

Between == slice = "off" /\ UNCHANGED vars

(* The movement component changes gear. *)
EngineShifts(i) ==
    /\ Between
    /\ \E gear \in EngineGears(vehicles[i]) :
           vehicles' = [vehicles EXCEPT ![i].gear = gear]
    /\ UNCHANGED <<spawnedAt, touched, before>>

(* A blueprint uses the vehicle, once before its client does. *)
BlueprintDrives(i) ==
    /\ Between
    /\ i \notin touched /\ Cardinality(touched) < MaxTouched
    /\ \/ vehicles' = [vehicles EXCEPT ![i] = ToggleReverse(@)]
       \/ vehicles' = [vehicles EXCEPT ![i] = HoldHandbrake(@)]
       \/ vehicles' = [vehicles EXCEPT ![i] = ReleaseHandbrake(@)]
    /\ touched' = IF vehicles' = vehicles THEN touched ELSE touched \cup {i}
    /\ UNCHANGED <<spawnedAt, before>>

DrivingNext ==
    \/ ServerOnly
    \/ RunTaskOnVehicle
    \/ \E i \in DOMAIN agents : EngineShifts(i) \/ BlueprintDrives(i)

DrivingSpec == DrivingInit /\ [][DrivingNext]_allVars

FairDrivingSpec == DrivingSpec /\ Fairness

-----------------------------------------------------------------------------
(* Properties.                                                             *)

(* The flag of the vehicle and the gear box of the engine, which are only  *)
(* changed together when the flag changes, never disagree, whatever        *)
(* controls come, blueprints do and gears the engine chooses: in reverse   *)
(* is the reverse gear, held, and only then                                *)
(* (CarlaWheeledVehicle.cpp:26, 97-105).                                   *)
ReverseIsGear ==
    \A i \in DOMAIN agents :
        /\ vehicles[i].bIsInReverse = (vehicles[i].gear = -1)
        /\ vehicles[i].autoGears = ~vehicles[i].bIsInReverse

LastControl(i) == IF controlled[i] = None THEN NoControl ELSE controls[controlled[i]]

(* What a vehicle does is what its client wanted: it was spawned at the    *)
(* place that was asked for, in the units of the client, and has the five  *)
(* inputs of the last control that ran, if no blueprint interfered.  And   *)
(* that is no control which its client saw answered before it made another *)
(* one that ran, although several workers post the tasks                   *)
(* (RPCServer.cpp:19-28, 63-74, CarlaWheeledVehicle.cpp:73-105,            *)
(* rpc/Transform.h:34-39, rpc/Server.h:46-57).                             *)
ObeysItsClient ==
    \A i \in DOMAIN agents :
        /\ ToTransform(spawnedAt[i]) = places[agents[i]]
        /\ i \notin touched =>
             LET v == vehicles[i] IN
             [throttle |-> v.throttle, steer |-> v.steer, brake |-> v.brake,
              hand_brake |-> v.handbrake, reverse |-> v.bIsInReverse]
             = LastControl(i)
        /\ \A k \in Numbers : calls[k].runs = 1 => controlled[i] \notin before[k]
=============================================================================
