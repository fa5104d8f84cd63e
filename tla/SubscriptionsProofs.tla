------------------------- MODULE SubscriptionsProofs -------------------------
(***************************************************************************)
(* Proofs about modules Token and Subscriptions, for any endpoints, ids    *)
(* and memory of tokens and any number of workers: a subscription reaches  *)
(* the server that made its token, keeps the workers at work, and, if no   *)
(* two have the same id, outlives its handlers.                            *)
(***************************************************************************)
EXTENDS Subscriptions, SequenceTheorems, TLAPS

-----------------------------------------------------------------------------
(* Tokens.                                                                 *)

LEMMA TupleLength ==
    ASSUME NEW n \in Nat, NEW a \in [1..n -> Word]
    PROVE  a \in Seq(Word) /\ Len(a) = n
<1>1. a \in Seq(Word)
    BY SeqDef
<1>2. DOMAIN a = 1..n /\ DOMAIN a = 1..Len(a) /\ Len(a) \in Nat
    BY <1>1, LenProperties
<1>3. 1..n = 1..Len(a) => n = Len(a)
    BY <1>2
<1> QED BY <1>1, <1>2, <1>3

LEMMA AddressLengths ==
    /\ \A a \in [1..1 -> Word] : a \in Seq(Word) /\ Len(a) = 1 /\ IsV4(a)
    /\ \A a \in [1..4 -> Word] : a \in Seq(Word) /\ Len(a) = 4 /\ ~IsV4(a)
<1>1. 1 \in Nat /\ 4 \in Nat /\ 4 # 1
    OBVIOUS
<1> QED BY <1>1, TupleLength DEF IsV4

(* An address of either version comes out of the union as it went in,      *)
(* whatever was in the memory before.                                      *)
LEMMA AddressBack ==
    ASSUME NEW a \in Address, NEW junk \in Memory
    PROVE  LET stored == set_address(a, junk)
           IN IF stored.type = "ip_v4"
                THEN SubSeq(stored.memory, 1, 1) = a ELSE stored.memory = a
<1>1. CASE a \in [1..1 -> Word]
    <2> DEFINE m == [junk EXCEPT ![1] = a[1]]
    <2>1. set_address(a, junk).type = "ip_v4" /\ set_address(a, junk).memory = m
        BY <1>1, AddressLengths DEF set_address, FillV4
    <2>2. m \in [1..4 -> Word] /\ m[1] = a[1]
        BY <1>1 DEF Memory
    <2> HIDE DEF m
    <2>3. m \in Seq(Word) /\ Len(m) = 4
        BY <2>2, AddressLengths
    <2>4. SubSeq(m, 1, 1) \in Seq(Word) /\ Len(SubSeq(m, 1, 1)) = 1
          /\ SubSeq(m, 1, 1)[1] = m[1]
        BY <2>3
    <2>5. SubSeq(m, 1, 1) = a
        BY <1>1, <2>2, <2>4, AddressLengths, SeqEqual
    <2> QED BY <2>1, <2>5
<1>2. CASE a \in [1..4 -> Word]
    <2>1. set_address(a, junk).type = "ip_v6" /\ set_address(a, junk).memory = a
        BY <1>2, AddressLengths DEF set_address
    <2> QED BY <2>1
<1> QED BY <1>1, <1>2 DEF Address

LEMMA TokenLeadsBack ==
    ASSUME NEW e \in Endpoint, NEW id \in Nat, NEW junk \in Memory, e.protocol = "tcp"
    PROVE  to_tcp_endpoint(token_type(id, e, junk)) = e
<1> DEFINE stored == set_address(e.address, junk)
           t == token_type(id, e, junk)
<1>1. e.address \in Address
    BY DEF Endpoint
<1>2. stored.type \in {"ip_v4", "ip_v6"}
    BY DEF set_address
<1>3. /\ t.protocol = "tcp" /\ t.address_type = stored.type
      /\ t.port = e.port /\ t.address = stored.memory
    BY DEF token_type
<1>4. IF stored.type = "ip_v4"
        THEN SubSeq(stored.memory, 1, 1) = e.address ELSE stored.memory = e.address
    BY <1>1, AddressBack
<1> HIDE DEF stored, t
<1>5. get_address(t) = e.address
    BY <1>2, <1>3, <1>4 DEF get_address
<1>6. Convertible(t, "tcp")
    BY <1>2, <1>3 DEF Convertible, is_valid
<1>7. to_tcp_endpoint(t) = [protocol |-> "tcp", address |-> e.address, port |-> e.port]
    BY <1>3, <1>5, <1>6 DEF to_tcp_endpoint, get_endpoint
<1>8. e = [protocol |-> "tcp", address |-> e.address, port |-> e.port]
    BY DEF Endpoint
<1> QED BY <1>7, <1>8 DEF t

(* A token of TCP was made from the endpoint of its stream. *)
LEMMA TokenOfStream ==
    ASSUME NEW s \in Streams, NEW junk \in Junk, protocol_is_tcp(TokenOf(s, junk))
    PROVE  s.endpoint \in Endpoint /\ to_tcp_endpoint(TokenOf(s, junk)) = s.endpoint
<1>1. s.endpoint \in Endpoint \cup {NoEndpoint} /\ s.id \in Nat /\ junk \in Memory
    BY StreamsAssumption
<1>2. s.endpoint # NoEndpoint
    BY DEF TokenOf, DefaultToken, protocol_is_tcp
<1>3. s.endpoint.protocol = "tcp"
    BY <1>2 DEF TokenOf, token_type, protocol_is_tcp
<1> QED BY <1>1, <1>2, <1>3, TokenLeadsBack DEF TokenOf

-----------------------------------------------------------------------------
(* The inductive invariants: of the pool, of the objects, and, when no two *)
(* objects share an id, of the set of the living.                          *)

PoolInv ==
    /\ PoolTypeOK
    /\ caller # "free" => io = "stopped"

ObjectsInv ==
    /\ Made \subseteq Objects
    /\ \A o \in Made : o[1].endpoint \in Endpoint /\ target[o] = o[1].endpoint
    /\ ready \subseteq pending /\ pending \subseteq Made /\ alive \subseteq Made
    /\ \A o, p \in alive : StreamId(o) = StreamId(p) => o = p
    /\ io # "stopped" => pending = Made

Inv == PoolInv /\ ObjectsInv

AllLive == io # "stopped" => alive = Made

LEMMA InitInv == Init => Inv /\ AllLive
<1> SUFFICES ASSUME Init PROVE Inv /\ AllLive
    OBVIOUS
<1>1. Made = {}
    BY DEF Init, Made
<1> QED BY <1>1, WorkersAssumption
        DEF Init, PoolInit, Inv, PoolInv, PoolTypeOK, ObjectsInv, AllLive

LEMMA SubscribeInv ==
    ASSUME Inv, NEW o \in Objects, Subscribe(o)
    PROVE  /\ Inv' /\ UNCHANGED poolVars /\ Made' = Made \cup {o}
           /\ alive' = IF \E p \in alive : StreamId(p) = StreamId(o)
                         THEN alive ELSE alive \cup {o}
<1>1. PICK junk \in Junk :
          /\ protocol_is_tcp(TokenOf(o[1], junk))
          /\ target' = [p \in Made \cup {o} |->
                 IF p = o THEN to_tcp_endpoint(TokenOf(o[1], junk)) ELSE target[p]]
    BY DEF Subscribe
<1>2. o[1] \in Streams
    BY DEF Objects
<1>3. o[1].endpoint \in Endpoint /\ to_tcp_endpoint(TokenOf(o[1], junk)) = o[1].endpoint
    BY <1>1, <1>2, TokenOfStream
<1>4. Made' = Made \cup {o} /\ UNCHANGED poolVars
    BY <1>1 DEF Made, Subscribe
<1>5. \A p \in Made' : p[1].endpoint \in Endpoint /\ target'[p] = p[1].endpoint
    BY <1>1, <1>3, <1>4 DEF Inv, ObjectsInv
<1>6. /\ pending' = pending \cup {o} /\ ready' = ready \cup {o}
      /\ alive' = IF \E p \in alive : StreamId(p) = StreamId(o)
                    THEN alive ELSE alive \cup {o}
    BY DEF Subscribe
<1>7. \A p, q \in alive' : StreamId(p) = StreamId(q) => p = q
    BY <1>6 DEF Inv, ObjectsInv
<1>8. PoolInv'
    BY <1>4 DEF Inv, PoolInv, PoolTypeOK, poolVars
<1>9. ObjectsInv'
    <2>1. Made' \subseteq Objects /\ alive' \subseteq Made'
        BY <1>4, <1>6 DEF Inv, ObjectsInv
    <2>2. ready' \subseteq pending' /\ pending' \subseteq Made'
        BY <1>4, <1>6 DEF Inv, ObjectsInv
    <2>3. io' # "stopped" => pending' = Made'
        BY <1>4, <1>6 DEF Inv, ObjectsInv, poolVars
    <2> QED BY <1>5, <1>7, <2>1, <2>2, <2>3 DEF ObjectsInv
<1> QED BY <1>4, <1>6, <1>8, <1>9 DEF Inv

LEMMA HandlerInv ==
    ASSUME Inv, NEW o \in Objects, RunHandler(o) \/ Complete(o)
    PROVE  Inv' /\ UNCHANGED <<target, alive, io>>
<1> USE DEF Inv, ObjectsInv
<1>1. CASE RunHandler(o)
    <2>1. pending # {} /\ UNCHANGED <<target, alive, pending>> /\ ready' \subseteq ready
        BY <1>1 DEF RunHandler
    <2>2. UNCHANGED poolVars
        BY <1>1, <2>1 DEF RunHandler, RunsHandler, poolVars
    <2>3. UNCHANGED <<io, Made>>
        BY <2>1, <2>2 DEF Made, poolVars
    <2>4. PoolInv'
        BY <2>2 DEF PoolInv, PoolTypeOK, poolVars
    <2> QED BY <2>1, <2>3, <2>4
<1>2. CASE Complete(o)
    <2>1. /\ UNCHANGED <<target, alive, pending>> /\ UNCHANGED poolVars
          /\ ready' \subseteq pending
        BY <1>2 DEF Complete
    <2>2. UNCHANGED <<io, Made>>
        BY <2>1 DEF Made, poolVars
    <2>3. PoolInv'
        BY <2>1 DEF PoolInv, PoolTypeOK, poolVars
    <2> QED BY <2>1, <2>2, <2>3
<1> QED BY <1>1, <1>2

LEMMA WorkersInv ==
    ASSUME Inv, Workers
    PROVE  /\ Inv' /\ UNCHANGED objectVars
           /\ io' # "stopped" => io # "stopped"
           /\ io' = "dry" /\ io # "dry" => Made = {}
<1>1. UNCHANGED objectVars /\ UNCHANGED Made
    BY DEF Workers, objectVars, Made
<1>2. CASE CreateWorker
    BY <1>1, <1>2, WorkersAssumption
       DEF CreateWorker, Inv, PoolInv, PoolTypeOK, ObjectsInv, objectVars
<1>3. CASE CallRun(pending # {})
    <2>1. PoolInv'
        BY <1>3, WorkersAssumption DEF CallRun, Inv, PoolInv, PoolTypeOK
    <2>2. /\ io' # "stopped" => io # "stopped"
          /\ io' = "dry" /\ io # "dry" => Made = {}
          /\ io' = io \/ (io = "ready" /\ Made = {})
        BY <1>3 DEF CallRun, Inv, PoolInv, PoolTypeOK, ObjectsInv
    <2> QED BY <1>1, <2>1, <2>2 DEF Inv, ObjectsInv, objectVars
<1>4. CASE ReturnFromRun
    BY <1>1, <1>4, WorkersAssumption
       DEF ReturnFromRun, Inv, PoolInv, PoolTypeOK, ObjectsInv, objectVars
<1>5. CASE Stop
    BY <1>1, <1>5 DEF Stop, Inv, PoolInv, PoolTypeOK, ObjectsInv, objectVars
<1>6. CASE JoinAll
    BY <1>1, <1>6 DEF JoinAll, Inv, PoolInv, PoolTypeOK, ObjectsInv, objectVars
<1> QED BY <1>2, <1>3, <1>4, <1>5, <1>6 DEF Workers, PoolOnly

LEMMA DestroyInv ==
    ASSUME Inv, DestroyMembers
    PROVE  Inv' /\ io = "stopped" /\ io' = io
<1>1. io = "stopped" /\ io' = io
    BY DEF DestroyMembers, Destroy, Inv, PoolInv
<1>2. PoolInv'
    BY <1>1 DEF DestroyMembers, Destroy, Inv, PoolInv, PoolTypeOK
<1>3. UNCHANGED Made
    BY DEF DestroyMembers, Made
<1>4. ObjectsInv'
    BY <1>1, <1>3 DEF DestroyMembers, Inv, ObjectsInv
<1> QED BY <1>1, <1>2, <1>4 DEF Inv

LEMMA StutterInv == Inv /\ UNCHANGED vars => Inv'
<1> SUFFICES ASSUME Inv, UNCHANGED vars PROVE Inv'
    OBVIOUS
<1>1. UNCHANGED Made
    BY DEF vars, Made
<1> QED BY <1>1 DEF vars, poolVars, Inv, PoolInv, PoolTypeOK, ObjectsInv

LEMMA NextInv == Inv /\ [Next]_vars => Inv'
BY SubscribeInv, HandlerInv, WorkersInv, DestroyInv, StutterInv DEF Next

(* With distinct ids no object is destroyed by the set of subscriptions.   *)
LEMMA NextAllLive ==
    ASSUME \A o, p \in Objects : StreamId(o) = StreamId(p) => o = p
    PROVE  Inv /\ AllLive /\ [Next]_vars => AllLive'
<1> SUFFICES ASSUME Inv, AllLive, [Next]_vars PROVE AllLive'
    OBVIOUS
<1>1. ASSUME NEW o \in Objects, Subscribe(o) PROVE AllLive'
    <2>1. o \notin alive /\ alive \subseteq Objects
        BY <1>1 DEF Subscribe, Inv, ObjectsInv
    <2>2. alive' = alive \cup {o} /\ Made' = Made \cup {o} /\ io' = io
        BY <1>1, <2>1, SubscribeInv DEF poolVars
    <2> QED BY <2>2 DEF AllLive
<1>2. ASSUME NEW o \in Objects, RunHandler(o) \/ Complete(o) PROVE AllLive'
    BY <1>2, HandlerInv DEF AllLive, Made
<1>3. CASE Workers
    BY <1>3, WorkersInv DEF AllLive, Made, objectVars
<1>4. CASE DestroyMembers
    BY <1>4, DestroyInv DEF AllLive
<1>5. CASE UNCHANGED vars
    BY <1>5 DEF vars, poolVars, AllLive, Made
<1> QED BY <1>1, <1>2, <1>3, <1>4, <1>5 DEF Next

-----------------------------------------------------------------------------

(* The objects of a client and its io_service fit together, whatever is    *)
(* subscribed to and however the handlers run (low_level/Client.h:31-42).  *)
THEOREM SubscriptionsInvariant == Spec => []Inv
BY InitInv, NextInv, PTL DEF Spec

(* What the client keeps of its subscriptions is of its type, and no two   *)
(* of the set have one id (low_level/Client.h:50).                         *)
THEOREM SubscriptionsTypeCorrect == Spec => []TypeOK
<1>1. Inv => TypeOK
    BY DEF Inv, PoolInv, ObjectsInv, TypeOK
<1> QED BY <1>1, SubscriptionsInvariant, PTL

(* An object connects to the server whose dispatcher made its token, for   *)
(* addresses of both versions and any bytes of an address                  *)
(* (Token.h:61-62, 76-106).                                                *)
THEOREM AlwaysReachesTheServer == Spec => []ReachesTheServer
<1>1. Inv => ReachesTheServer
    BY DEF Inv, ObjectsInv, ReachesTheServer
<1> QED BY <1>1, SubscriptionsInvariant, PTL

(* The io_service runs dry only while nothing was subscribed, with any     *)
(* number of workers (streaming/Client.h:33-39).                           *)
THEOREM AlwaysDriesOnlyUnused == Spec => DriesOnlyUnused
<1>1. Inv /\ [Next]_vars => [io' = "dry" /\ io # "dry" => Made = {}]_vars
    <2> SUFFICES ASSUME Inv, Next, io' = "dry", io # "dry" PROVE Made = {}
        OBVIOUS
    <2>1. ASSUME NEW o \in Objects, Subscribe(o) PROVE FALSE
        BY <2>1, SubscribeInv DEF poolVars
    <2>2. ASSUME NEW o \in Objects, RunHandler(o) \/ Complete(o) PROVE FALSE
        BY <2>2, HandlerInv
    <2>3. CASE Workers
        BY <2>3, WorkersInv
    <2>4. CASE DestroyMembers
        BY <2>4, DestroyInv
    <2> QED BY <2>1, <2>2, <2>3, <2>4 DEF Next
<1> QED BY <1>1, SubscriptionsInvariant, PTL DEF Spec, DriesOnlyUnused

(* If no two subscriptions have the same stream id, a handler that can run *)
(* refers to an object that lives (low_level/Client.h:21-22,               *)
(* tcp/Client.h:61-62): the ids are all that the client's word depends on. *)
THEOREM DistinctHandlersReferToLiving ==
    ASSUME \A o, p \in Objects : StreamId(o) = StreamId(p) => o = p
    PROVE  Spec => []HandlersReferToLiving
<1>1. Init => Inv /\ AllLive
    BY InitInv
<1>2. Inv /\ AllLive /\ [Next]_vars => (Inv /\ AllLive)'
    BY NextInv, NextAllLive
<1>3. Inv /\ AllLive => HandlersReferToLiving
    BY DEF Inv, ObjectsInv, AllLive, HandlersReferToLiving
<1> QED BY <1>1, <1>2, <1>3, PTL DEF Spec
=============================================================================
