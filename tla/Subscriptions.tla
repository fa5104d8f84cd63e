---------------------------- MODULE Subscriptions ----------------------------
(***************************************************************************)
(* The client that subscribes to streams: streaming::Client                *)
(* (LibCarla/source/carla/streaming/Client.h) and its set of subscriptions *)
(* (streaming/low_level/Client.h), over the workers of module WorkerPool.  *)
(*                                                                         *)
(* A subscription is made from a token (module Token).  It is an object, a *)
(* tcp::Client, that always has one handler or operation in the io_service *)
(* (SingleChain in module TcpClient), which refers to the object by a      *)
(* plain pointer.                                                          *)
(***************************************************************************)
EXTENDS WorkerPool, Token, FiniteSets

CONSTANTS
    Streams,        \* what one subscribes to: an endpoint and an id each
    Junk,           \* what the memory of a token may hold before it is made
    Tries           \* bound on the calls of Subscribe for one stream

ASSUME StreamsAssumption ==
    /\ Streams \subseteq [endpoint : Endpoint \cup {NoEndpoint}, id : Nat]
    /\ Junk \subseteq Memory
    /\ Tries \in Nat

Objects == Streams \X (1..Tries)

StreamId(o) == o[1].id

VARIABLES
    target,     \* the _endpoint of every object that was constructed
    alive,      \* the objects in _clients: constructed and not destroyed
    pending,    \* objects with a handler or an operation in the io_service
    ready       \* the ones with a handler that can run

vars == <<target, alive, pending, ready, poolVars>>

objectVars == <<target, alive, pending, ready>>

Made == DOMAIN target

TypeOK ==
    /\ Made \subseteq Objects /\ \A o \in Made : target[o] \in Endpoint
    /\ ready \subseteq pending /\ pending \subseteq Made /\ alive \subseteq Made
    /\ PoolTypeOK
    \* _clients is an unordered_set of clients hashed by their stream id.
    /\ \A o, p \in alive : StreamId(o) = StreamId(p) => o = p

Init == target = <<>> /\ alive = {} /\ pending = {} /\ ready = {} /\ PoolInit

-----------------------------------------------------------------------------
(* The token of a stream; without an endpoint, one that no dispatcher made.*)
TokenOf(stream, junk) ==
    IF stream.endpoint = NoEndpoint
      THEN DefaultToken(stream.id, 0, junk)
      ELSE token_type(stream.id, stream.endpoint, junk)

(* Subscribe throws unless the token is one of TCP.  emplace constructs    *)
(* the object, the constructor of which posts Connect, and only then finds *)
(* that _clients has one with the same stream id, and destroys the new one.*)
Subscribe(o) ==
    /\ o \notin Made
    /\ caller = "free"
    /\ \E junk \in Junk :
        LET t == TokenOf(o[1], junk) IN
        /\ protocol_is_tcp(t)
        /\ target' = [p \in Made \cup {o} |->
                        IF p = o THEN to_tcp_endpoint(t) ELSE target[p]]
    /\ pending' = pending \cup {o} /\ ready' = ready \cup {o}
    /\ alive' = IF \E p \in alive : StreamId(p) = StreamId(o)
                  THEN alive ELSE alive \cup {o}
    /\ UNCHANGED poolVars

\* Mutated: a subscription that fails is not tried again.
EndsChain(o) ==
    /\ o \in ready
    /\ pending' = pending \ {o} /\ ready' = ready \ {o}
    /\ RunsHandler(pending' # {})
    /\ UNCHANGED <<target, alive>>

(* A worker runs the handler of an object, which starts an operation: to   *)
(* connect, to send, to read, to wait before it connects again.            *)
RunHandler(o) ==
    /\ o \in ready
    /\ ready' = ready \ {o}
    /\ RunsHandler(pending # {})
    /\ UNCHANGED <<target, alive, pending>>

(* The operation completes or fails, and its handler can run. *)
Complete(o) ==
    /\ o \in pending \ ready
    /\ ready' = ready \cup {o}
    /\ UNCHANGED <<target, alive, pending, poolVars>>

\* Mutated: the destructor does not call Stop.
DestroysWithoutStop ==
    /\ caller = "free"
    /\ caller' = "gone"
    /\ alive' = {}
    /\ UNCHANGED <<target, pending, ready, io, starting, running>>

(* The members are destroyed: the objects, the workers, the io_service.    *)
DestroyMembers ==
    /\ Destroy
    /\ alive' = {} /\ pending' = {} /\ ready' = {}
    /\ UNCHANGED target

Workers == PoolOnly(pending # {}) /\ UNCHANGED objectVars

Next ==
    \/ \E o \in Objects : Subscribe(o) \/ RunHandler(o) \/ Complete(o)
    \/ Workers
    \/ DestroyMembers

Spec == Init /\ [][Next]_vars

(* Threads run. *)
Fairness ==
    /\ WF_vars((CallRun(pending # {}) \/ ReturnFromRun) /\ UNCHANGED objectVars)
    /\ \A o \in Objects : WF_vars(RunHandler(o))
    /\ WF_vars(JoinAll /\ UNCHANGED objectVars)
    /\ WF_vars(DestroyMembers)

FairSpec == Spec /\ Fairness

-----------------------------------------------------------------------------
(* Properties.                                                             *)

(* "The client should not be destroyed before the io_service is stopped"   *)
(* (low_level/Client.h:21-22, tcp/Client.h:61-62): a handler that a worker *)
(* can run refers to an object that lives.                                 *)
HandlersReferToLiving == io # "stopped" => pending \subseteq alive

(* A token "contains all the necessary information for a client to         *)
(* subscribe to a stream" (Token.h:61-62): whatever the memory of the      *)
(* token held before, and of whichever version its address is, the object  *)
(* connects to the server whose dispatcher made the token.                 *)
ReachesTheServer == \A o \in Made : target[o] = o[1].endpoint

(* The io_service runs dry only as long as nothing was subscribed: then a  *)
(* subscription keeps the workers at work until Stop, however often it     *)
(* fails (streaming/Client.h:33-39).                                       *)
DriesOnlyUnused == [][io' = "dry" /\ io # "dry" => Made = {}]_vars

(* Once something was subscribed before the workers had nothing to do,     *)
(* every subscription is served, also those made much later: a handler of  *)
(* it that can run does run, unless Stop comes or there never is a worker  *)
(* (streaming/Client.h:29-43).                                             *)
NoWorkerYet == io = "ready" /\ starting + running = 0

SubscriptionsAreServed ==
    [](Made # {} /\ io = "ready" =>
         [](\A o \in Objects :
              o \in ready ~> (o \notin ready \/ io = "stopped" \/ NoWorkerYet)))
=============================================================================
