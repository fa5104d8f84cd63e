--------------------------- MODULE MCClientLibrary ---------------------------
(***************************************************************************)
(* Client library instances for TLC: the server's three blueprints, and    *)
(* the patterns of a program that looks for any vehicle, for all of one    *)
(* colour and for what is not there.                                       *)
(***************************************************************************)
EXTENDS ClientLibrary, TLC

CONSTANTS w1, w2, a1, a2, a3

TwoWorlds == {w1, w2}
ThreeActors == {a1, a2, a3}

Mustangs == <<"vehicle.mustang.red", "vehicle.mustang.also_red",
              "vehicle.mustang.still_red">>

SomePatterns ==
    [p \in {"*_red", "*.red", "*still*", "walker.*"} |->
        CASE p = "*_red" -> {Mustangs[2], Mustangs[3]}
          [] p = "*.red" -> {Mustangs[1]}
          [] p = "*still*" -> {Mustangs[3]}
          [] p = "walker.*" -> {}]

Symmetric == Permutations(TwoWorlds) \cup Permutations(ThreeActors)
=============================================================================
