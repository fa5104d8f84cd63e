--------------------------- MODULE MCSubscriptions ---------------------------
(* Instances of Subscriptions for TLC. *)
EXTENDS Subscriptions

CONSTANTS w1, w2    \* two different words of an address

MCWord == {w1, w2}

(* Clean memory, and memory that another address was in. *)
MCJunk == {[i \in 1..4 |-> w1], <<w2, w2, w1, w2>>}

OnV4 == [protocol |-> "tcp", address |-> <<w1>>, port |-> 2000]
OnV6 == [protocol |-> "tcp", address |-> <<w2, w1, w1, w2>>, port |-> 2000]
OnUdp == [protocol |-> "udp", address |-> <<w2>>, port |-> 2000]

Other == [protocol |-> "tcp", address |-> <<w2>>, port |-> 2001]

(* Ids that are all different. *)
DistinctIds == {[endpoint |-> OnV4, id |-> 1], [endpoint |-> OnV6, id |-> 2],
                [endpoint |-> Other, id |-> 3], [endpoint |-> OnUdp, id |-> 4],
                [endpoint |-> NoEndpoint, id |-> 5]}

(* The first streams of two servers. *)
TwoServers == {[endpoint |-> OnV4, id |-> 1], [endpoint |-> OnV6, id |-> 1]}
=============================================================================
