----------------------------- MODULE RemoteCalls -----------------------------
(***************************************************************************)
(* What the RPC server promises to the clients that call it, without the   *)
(* workers, the queue of tasks, the slices of the game thread and the ids  *)
(* of the actors that bring it about.                                      *)
(*                                                                         *)
(* A call takes effect at one moment, at most once, after it is made; the  *)
(* client has its answer only afterwards.  A client may give up waiting at *)
(* any time; its call may take effect all the same.  A spawn yields a      *)
(* vehicle or is refused.  A control is made through the answer to a       *)
(* spawn, and reaches the vehicle of that spawn if it has one, which no    *)
(* other call of any client changes.  Nothing is promised about the order  *)
(* in which calls take effect, nor that they do.                           *)
(***************************************************************************)
EXTENDS Naturals

CONSTANT MaxCalls   \* bound on the calls made in a behaviour

VARIABLES
    made,       \* the calls, numbered in the order they are made
    lastControl \* of each vehicle, named by its spawn: its last control

vars == <<made, lastControl>>

None == 0

Unmade == [function |-> "ping", target |-> None, client |-> "none",
           effects |-> 0, vehicle |-> "none"]

Numbers == 1..MaxCalls

Init ==
    /\ made = [k \in Numbers |-> Unmade]
    /\ lastControl = [h \in {} |-> None]

\* Actors that clients hold.
Handles == {h \in Numbers : made[h].function = "spawn"
                            /\ made[h].client = "has_answer"}

Make(k, function, target) ==
    /\ made[k].client = "none"
    /\ made' = [made EXCEPT ![k] =
                  [function |-> function, target |-> target,
                   client |-> "waits", effects |-> 0, vehicle |-> "none"]]
    /\ UNCHANGED lastControl

GiveUp(k) ==
    /\ made[k].client = "waits"
    /\ made' = [made EXCEPT ![k].client = "gave_up"]
    /\ UNCHANGED lastControl

Pending(k) == made[k].client # "none" /\ made[k].effects = 0

\* A ping has no effect but its answer.
Ping(k) ==
    /\ Pending(k) /\ made[k].function = "ping"
    /\ LET client == IF made[k].client = "waits" THEN "has_answer"
                                                ELSE made[k].client
       IN made' = [made EXCEPT ![k] =
                     [@ EXCEPT !.effects = 1, !.client = client]]
    /\ UNCHANGED lastControl

Spawn(k) ==
    /\ Pending(k) /\ made[k].function = "spawn"
    /\ made' = [made EXCEPT ![k] =
                  [@ EXCEPT !.effects = 1, !.vehicle = "spawned"]]
    /\ lastControl' = [h \in DOMAIN lastControl \cup {k} |->
                         IF h = k THEN None ELSE lastControl[h]]

Refuse(k) ==
    /\ Pending(k) /\ made[k].function = "spawn"
    /\ made' = [made EXCEPT ![k] =
                  [@ EXCEPT !.effects = 1, !.vehicle = "refused"]]
    /\ UNCHANGED lastControl

Control(k) ==
    /\ Pending(k) /\ made[k].function = "control"
    /\ made' = [made EXCEPT ![k].effects = 1]
    /\ lastControl' = IF made[k].target \in DOMAIN lastControl
                        THEN [lastControl EXCEPT ![made[k].target] = k]
                        ELSE lastControl

Answer(k) ==
    /\ made[k].client = "waits" /\ made[k].effects = 1
    /\ made' = [made EXCEPT ![k].client = "has_answer"]
    /\ UNCHANGED lastControl

Next ==
    \E k \in Numbers :
        \/ Make(k, "ping", None) \/ Make(k, "spawn", None)
        \/ \E h \in Handles : Make(k, "control", h)
        \/ GiveUp(k)
        \/ Ping(k) \/ Spawn(k) \/ Refuse(k) \/ Control(k)
        \/ Answer(k)

Spec == Init /\ [][Next]_vars
=============================================================================
