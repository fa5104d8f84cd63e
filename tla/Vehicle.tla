------------------------------- MODULE Vehicle -------------------------------
(***************************************************************************)
(* A vehicle of the game and what a client sends about it: the records of  *)
(* LibCarla/source/carla/rpc (Transform.h, VehicleControl.h), what the     *)
(* plugin converts them to, and ACarlaWheeledVehicle                       *)
(* (Plugins/Carla/Source/Carla/Vehicle).                                   *)
(*                                                                         *)
(* Lengths and inputs are integers.  What the movement component of the    *)
(* engine keeps is a part of the vehicle here.                             *)
(***************************************************************************)
EXTENDS Integers

CONSTANT Input  \* values of throttle, steer and brake

ASSUME InputAssumption == 0 \in Input

-----------------------------------------------------------------------------
(* rpc::Transform, in meters, and the engine's FTransform, in centimeters. *)

Location == [x : Int, y : Int, z : Int]
Rotation == [pitch : Int, yaw : Int, roll : Int]
Transform == [location : Location, rotation : Rotation]

FVector(l) == [X |-> 100 * l.x, Y |-> 100 * l.y, Z |-> 100 * l.z]
FRotator(r) == [Pitch |-> r.pitch, Yaw |-> r.yaw, Roll |-> r.roll]

FTransform(t) ==
    [rotation |-> FRotator(t.rotation), translation |-> FVector(t.location),
     scale |-> FVector([x |-> 1, y |-> 1, z |-> 1])]

(* From centimeters to meters, and back. *)
ToLocation(v) == [x |-> v.X \div 100, y |-> v.Y \div 100, z |-> v.Z \div 100]
ToRotation(r) == [pitch |-> r.Pitch, yaw |-> r.Yaw, roll |-> r.Roll]
ToTransform(t) ==
    [location |-> ToLocation(t.translation), rotation |-> ToRotation(t.rotation)]

-----------------------------------------------------------------------------
(* Controls.                                                               *)

VehicleControl == [throttle : Input, steer : Input, brake : Input,
                   hand_brake : BOOLEAN, reverse : BOOLEAN]

NoControl == [throttle |-> 0, steer |-> 0, brake |-> 0,
              hand_brake |-> FALSE, reverse |-> FALSE]

\* Mutated: the last two fields in the order of their names.
SwapsFlags(c) ==
    [Throttle |-> c.throttle, Steer |-> c.steer, Brake |-> c.brake,
     bHandBrake |-> c.reverse, bReverse |-> c.hand_brake]

MakeControl(c) ==
    [Throttle |-> c.throttle, Steer |-> c.steer, Brake |-> c.brake,
     bHandBrake |-> c.hand_brake, bReverse |-> c.reverse]

-----------------------------------------------------------------------------
(* The vehicle.                                                            *)

Gear == {-1, 1, 2}

Vehicle == [throttle : Input, steer : Input, brake : Input,
            handbrake : BOOLEAN,
            bIsInReverse : BOOLEAN,
            autoGears : BOOLEAN,
            reverseAsBrake : BOOLEAN,
            gear : Gear]

\* Mutated: the engine keeps its own way to go into reverse.
KeepsReverseAsBrake ==
    [throttle |-> 0, steer |-> 0, brake |-> 0, handbrake |-> FALSE,
     bIsInReverse |-> FALSE, autoGears |-> TRUE, reverseAsBrake |-> TRUE,
     gear |-> 1]

(* A vehicle that was spawned: bReverseAsBrake is on by default and the    *)
(* constructor turns it off.                                               *)
NewVehicle ==
    [throttle |-> 0, steer |-> 0, brake |-> 0, handbrake |-> FALSE,
     bIsInReverse |-> FALSE, autoGears |-> TRUE, reverseAsBrake |-> FALSE,
     gear |-> 1]

SetThrottleInput(v, value) == [v EXCEPT !.throttle = value]
SetSteeringInput(v, value) == [v EXCEPT !.steer = value]
SetBrakeInput(v, value) == [v EXCEPT !.brake = value]
SetHandbrakeInput(v, value) == [v EXCEPT !.handbrake = value]

SetReverse(v, value) ==
    IF value = v.bIsInReverse
      THEN v
      ELSE [v EXCEPT !.bIsInReverse = value, !.autoGears = ~value,
                     !.gear = IF value THEN -1 ELSE 1]

ToggleReverse(v) == SetReverse(v, ~v.bIsInReverse)
HoldHandbrake(v) == SetHandbrakeInput(v, TRUE)
ReleaseHandbrake(v) == SetHandbrakeInput(v, FALSE)

(* ApplyVehicleControl, of an FVehicleControl. *)
Inputs(v, c) ==
    SetHandbrakeInput(
        SetBrakeInput(
            SetSteeringInput(SetThrottleInput(v, c.Throttle), c.Steer),
            c.Brake),
        c.bHandBrake)

ApplyVehicleControl(v, c) == SetReverse(Inputs(v, c), c.bReverse)

(* The gears the engine may choose by itself. *)
EngineGears(v) ==
    (IF v.autoGears THEN {1, 2} ELSE {})
    \cup (IF v.reverseAsBrake THEN {-1, 1} ELSE {})
=============================================================================
