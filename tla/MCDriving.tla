------------------------------ MODULE MCDriving ------------------------------
(* Instances of Driving for TLC.  Calls carry different data. *)
EXTENDS Driving

MCInput == 0..2

MCControls ==
    << NoControl,
       [throttle |-> 1, steer |-> 2, brake |-> 0, hand_brake |-> FALSE, reverse |-> TRUE],
       [throttle |-> 2, steer |-> 0, brake |-> 1, hand_brake |-> TRUE, reverse |-> FALSE] >>

At(n) == [location |-> [x |-> n, y |-> -n, z |-> n * 2],
          rotation |-> [pitch |-> 0, yaw |-> 10 * n, roll |-> n]]

MCPlaces == [k \in Numbers |-> At(k)]
=============================================================================
