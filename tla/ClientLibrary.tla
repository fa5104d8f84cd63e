---------------------------- MODULE ClientLibrary ----------------------------
(***************************************************************************)
(* The objects of the client library: Client, World and Actor              *)
(* (LibCarla/source/carla/client/), one client and what is made through    *)
(* it.  They hold each other by shared pointers: a client its active       *)
(* world, a world its client, an actor its world.  A program gets handles  *)
(* from GetWorld, SpawnActor and TrySpawnActor and drops them in any       *)
(* order; an object is destroyed when its last reference goes away.        *)
(* Blueprints are values: the program gets a library of them, filters it,  *)
(* and spawns an actor of one that it picks.                               *)
(*                                                                         *)
(* The server is external but for what it answers: get_blueprints gives a  *)
(* constant, spawn_actor gives the blueprint back.  A call is answered or  *)
(* throws (a time-out); a vehicle may have been spawned all the same.      *)
(***************************************************************************)
EXTENDS Naturals, FiniteSets, SequencesExt

CONSTANTS
    Worlds,     \* pool of World objects
    Actors,     \* pool of Actor objects
    Client,     \* the client
    Blueprints, \* the sequence of type ids the server answers get_blueprints
    Matches     \* pattern |-> the type ids that match it

ASSUME BlueprintsAssumption == Blueprints \in Seq(Range(Blueprints))
ASSUME Distinct == Client \notin Worlds \cup Actors /\ Worlds \cap Actors = {}

VARIABLES
    alive,      \* objects that were constructed and not destroyed
    held,       \* objects the program has a handle to
    refs,       \* <<p, q>>: object p has a shared pointer to object q
    active,     \* the worlds _active_world points to: one or none
    pending,    \* the call that waits for the server
    library,    \* the program's BlueprintLibrary
    filters,    \* the patterns it was filtered by
    actor       \* actor |-> the blueprint of its _actor, and the patterns
                \* the program picked it by

pointers == <<alive, held, refs, active>>
vars == <<pointers, pending, library, filters, actor>>

Objects == {Client} \cup Worlds \cup Actors

TypeIds == Range(Blueprints)
Patterns == DOMAIN Matches

Calls == {"none", "spawn", "get_blueprints", "ask", "control"}

(* What the program asks for when it spawns. *)
Wishes == [blueprint : TypeIds, picked_by : SUBSET Patterns]

NoActor == [blueprint |-> "", picked_by |-> {}]

TypeOK ==
    /\ alive \subseteq Objects
    /\ held \subseteq Objects
    /\ refs \subseteq alive \X Objects
    /\ active \subseteq Worlds /\ Cardinality(active) <= 1
    /\ pending \in [call : Calls, wish : Wishes \cup {NoActor}]
    /\ library \in Seq(TypeIds)
    /\ filters \subseteq Patterns
    /\ actor \in [Actors -> Wishes \cup {NoActor}]

None == [call |-> "none", wish |-> NoActor]

Init ==
    /\ alive = {Client} /\ held = {Client}
    /\ refs = {} /\ active = {}
    /\ pending = None
    /\ library = <<>> /\ filters = {}
    /\ actor = [a \in Actors |-> NoActor]

-----------------------------------------------------------------------------
(* Shared pointers.                                                        *)

Referenced(o) == o \in held \/ \E p \in alive : <<p, o>> \in refs

Garbage == {o \in alive : ~Referenced(o)}

(* The last reference went away: the destructor runs, and releases what    *)
(* the object refers to.                                                   *)
Destroy(o) ==
    /\ o \in Garbage
    /\ alive' = alive \ {o}
    /\ refs' = {r \in refs : r[1] # o}
    /\ actor' = [a \in Actors |-> IF a = o THEN NoActor ELSE actor[a]]
    /\ UNCHANGED <<held, active, pending, library, filters>>

(* The program calls the library between destructions. *)
Idle == pending.call = "none" /\ Garbage = {}

(* The program drops its last handle to an object. *)
Drop(o) ==
    /\ Idle /\ o \in held
    /\ held' = held \ {o}
    /\ UNCHANGED <<alive, refs, active, pending, library, filters, actor>>

-----------------------------------------------------------------------------
(* Worlds.                                                                 *)

(* What Client::GetWorld returns: the active world, constructed by the     *)
(* first call.                                                             *)
IsWorld(w) == IF active = {} THEN w \notin alive ELSE w \in active

\* Mutated: the world does not keep its client.
PlainParent(w) == {<<Client, w>>}

(* _active_world and _parent. *)
ClientRefs(w) == {<<Client, w>>, <<w, Client>>}

UsesWorld(w, more, handle) ==
    /\ IsWorld(w)
    /\ active' = {w}
    /\ alive' = alive \cup {w} \cup more
    /\ refs' = {r \in refs : r[1] # Client} \cup ClientRefs(w) \cup (more \X {w})
    /\ held' = held \cup {handle}

GetWorld(w) ==
    /\ Idle /\ Client \in held
    /\ UsesWorld(w, {}, w)
    /\ UNCHANGED <<pending, library, filters, actor>>

(* Actor::GetWorld. *)
GetWorldOfActor(a) ==
    /\ Idle /\ a \in held
    /\ held' = held \cup {w \in Worlds : <<a, w>> \in refs}
    /\ UNCHANGED <<alive, refs, active, pending, library, filters, actor>>

-----------------------------------------------------------------------------
(* Calls.                                                                  *)

(* Client::Call: the one thread of the program waits for the server. *)
Call(function, wish) ==
    /\ Idle
    /\ pending' = [call |-> function, wish |-> wish]
    /\ UNCHANGED <<pointers, library, filters, actor>>

(* The call threw: the program gets the exception; TrySpawnActor catches   *)
(* it and returns a null pointer, no handle either.                        *)
CallThrows ==
    /\ pending.call # "none"
    /\ pending' = None
    /\ UNCHANGED <<pointers, library, filters, actor>>

(* What leaves nothing behind in the client: Ping and GetServerVersion, of *)
(* the client alone, ...                                                   *)
Ask == Client \in held /\ Call("ask", NoActor)

(* ... and ApplyControl of an actor, which goes by its world to the client *)
ApplyControl(a) == a \in held /\ Call("control", actor[a])

CallReturns ==
    /\ pending.call \in {"ask", "control"}
    /\ pending' = None
    /\ UNCHANGED <<pointers, library, filters, actor>>

(* Of the client, or of a world, which asks its client. *)
Spawners == held \cap ({Client} \cup Worlds)

GetBlueprintLibrary == Spawners # {} /\ Call("get_blueprints", NoActor)

BlueprintsReturn ==
    /\ pending.call = "get_blueprints"
    /\ library' = Blueprints /\ filters' = {}
    /\ pending' = None
    /\ UNCHANGED <<pointers, actor>>

-----------------------------------------------------------------------------
(* Blueprints.                                                             *)

(* fnmatch of the pattern. *)
MatchWildcards(type_id, pattern) == type_id \in Matches[pattern]

\* Mutated: every filter starts from all the blueprints.
FilteredAnew(blueprints, pattern) ==
    SelectSeq(Blueprints, LAMBDA x : MatchWildcards(x, pattern))

(* Copies those that match. *)
Filtered(blueprints, pattern) ==
    LET copied[i \in 0..Len(blueprints)] ==
            IF i = 0 THEN <<>>
            ELSE IF MatchWildcards(blueprints[i], pattern)
                   THEN Append(copied[i - 1], blueprints[i])
                   ELSE copied[i - 1]
    IN  copied[Len(blueprints)]

(* The program filters its library: no call to the server. *)
Filter(pattern) ==
    /\ Idle
    /\ library' = Filtered(library, pattern)
    /\ filters' = filters \cup {pattern}
    /\ UNCHANGED <<pointers, pending, actor>>

(* SpawnActor, of the client or of a world, or TrySpawnActor, with the     *)
(* blueprint at a position of the library, which the program has to keep   *)
(* within its size: operator[] does not look.                              *)
CallSpawn(pos) ==
    /\ Spawners # {}
    /\ Call("spawn", [blueprint |-> library[pos], picked_by |-> filters])

\* Mutated: the world keeps its actors.
WorldKeepsActor(a, w) ==
    /\ pending.call = "spawn" /\ a \notin alive
    /\ IsWorld(w)
    /\ active' = {w}
    /\ alive' = alive \cup {a, w}
    /\ refs' = refs \cup ClientRefs(w) \cup {<<a, w>>, <<w, a>>}
    /\ held' = held \cup {a}
    /\ actor' = [actor EXCEPT ![a] = pending.wish]
    /\ pending' = None
    /\ UNCHANGED <<library, filters>>

(* The call was answered: the program gets an actor, for which the client  *)
(* constructs the world if there was none.                                 *)
SpawnReturns(a, w) ==
    /\ pending.call = "spawn" /\ a \notin alive
    /\ UsesWorld(w, {a}, a)
    /\ actor' = [actor EXCEPT ![a] = pending.wish]
    /\ pending' = None
    /\ UNCHANGED <<library, filters>>

Next ==
    \/ \E o \in Objects : Destroy(o) \/ Drop(o)
    \/ \E w \in Worlds : GetWorld(w) \/ \E a \in Actors : SpawnReturns(a, w)
    \/ \E a \in Actors : GetWorldOfActor(a) \/ ApplyControl(a)
    \/ Ask \/ CallReturns
    \/ GetBlueprintLibrary \/ BlueprintsReturn
    \/ \E pattern \in Patterns : Filter(pattern)
    \/ \E pos \in DOMAIN library : CallSpawn(pos)
    \/ CallThrows

Spec == Init /\ [][Next]_vars

-----------------------------------------------------------------------------
(* Properties.                                                             *)

(* A handle can be used as long as the program has it: an actor finds its  *)
(* world, and everything the client, whatever was dropped before           *)
(* (Actor.h:57-66, World.h:50-54).                                         *)
HandlesAreUsable ==
    /\ held \subseteq alive
    /\ held # {} => Client \in alive
    /\ \A a \in Actors \cap alive : \E w \in Worlds \cap alive : <<a, w>> \in refs

(* When the program has dropped everything, the actors are gone; the       *)
(* client and its world, once there was one, are not: they hold each other *)
(* (Client.h:74, World.h:54).                                              *)
LeaksTheWorldOnly ==
    held = {} /\ Idle => alive = IF active = {} THEN {} ELSE {Client} \cup active

(* An actor is of a type the server offers and that matches every pattern  *)
(* by which the program found it, in whichever order it filtered, whatever *)
(* it has done with the library since, and whichever calls failed          *)
(* (BlueprintLibrary.h:35-41, Client.cpp:26-27, RPCServer.cpp:67).         *)
ActorsAreAsAsked ==
    \A a \in Actors \cap alive :
        /\ actor[a].blueprint \in TypeIds
        /\ \A p \in actor[a].picked_by : MatchWildcards(actor[a].blueprint, p)
=============================================================================
