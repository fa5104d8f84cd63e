------------------------- MODULE ClientLibraryProofs -------------------------
(***************************************************************************)
(* Who keeps whom alive in the client library, for any number of worlds    *)
(* and actors: once there is a world, it and the client hold each other,   *)
(* every actor holds the world, and nothing holds an actor (Pointers).     *)
(* Then what a filtered library holds and what an actor is, for any        *)
(* blueprints and patterns (Asked).                                        *)
(***************************************************************************)
EXTENDS ClientLibrary, FiniteSetTheorems, WellFoundedInduction, TLAPS

(* The pointers there are, once there is a world. *)
PointsTo(p, q) ==
    \/ p = Client /\ q \in active
    \/ p \in active /\ q = Client
    \/ p \in Actors \cap alive /\ q \in active

Pointers ==
    /\ held \subseteq alive /\ alive \subseteq Objects
    /\ \A v, w \in active : v = w
    /\ alive \cap Worlds = active
    /\ active # {} => Client \in alive
    /\ Actors \cap alive # {} => active # {}
    /\ refs \subseteq Objects \X Objects
    /\ \A p, q \in Objects : <<p, q>> \in refs <=> PointsTo(p, q)

(* A client that waits for the answer to a spawn is not released. *)
SpawnInv ==
    pending.call = "spawn" => Client \in alive /\ (Client \in held \/ active # {})

PointersInv == Pointers /\ SpawnInv

-----------------------------------------------------------------------------
LEMMA ClientIsReferenced ==
    ASSUME Pointers, active # {}
    PROVE  Referenced(Client) /\ \A w \in active : Referenced(w)
<1>1. PICK w \in active : w \in alive /\ w \in Worlds
    BY DEF Pointers
<1>2. Client \in Objects /\ w \in Objects
    BY <1>1 DEF Objects
<1>3. <<w, Client>> \in refs /\ <<Client, w>> \in refs
    BY <1>1, <1>2 DEF Pointers, PointsTo
<1> QED BY <1>1, <1>3 DEF Referenced, Pointers

(* Nothing but the program refers to an actor. *)
LEMMA ActorIsNotReferenced ==
    ASSUME Pointers, NEW a \in Actors, a \notin held
    PROVE  ~Referenced(a)
<1>1. a \in Objects /\ a # Client /\ a \notin Worlds
    BY Distinct DEF Objects
<1>2. \A p \in Objects : <<p, a>> \notin refs
    BY <1>1 DEF Pointers, PointsTo
<1> QED BY <1>2 DEF Referenced, Pointers

LEMMA DestroyPointers ==
    ASSUME PointersInv, NEW o \in Objects, Destroy(o)
    PROVE  PointersInv'
<1> USE DEF PointersInv, Pointers
<1>1. o \in alive /\ ~Referenced(o) /\ o \notin held
    BY DEF Destroy, Garbage, Referenced
<1>2. /\ alive' = alive \ {o} /\ refs' = {r \in refs : r[1] # o}
      /\ UNCHANGED <<held, active, pending>>
    BY DEF Destroy
<1>3. o \in Actors \/ (o = Client /\ active = {})
    BY <1>1, ClientIsReferenced DEF Objects
<1>4. o \notin active
    BY <1>3, Distinct
<1>5. \A p, q \in Objects : <<p, q>> \in refs' <=> <<p, q>> \in refs /\ p # o
    BY <1>2
<1>6. \A p, q \in Objects : PointsTo(p, q)' <=> PointsTo(p, q) /\ p # o
    <2>1. CASE o \in Actors
        BY <1>2, <1>4, <2>1, Distinct DEF PointsTo
    <2>2. CASE o = Client /\ active = {}
        BY <1>2, <2>2 DEF PointsTo
    <2> QED BY <1>3, <2>1, <2>2
<1>7. /\ held' \subseteq alive' /\ alive' \subseteq Objects
      /\ \A v, w \in active' : v = w
      /\ alive' \cap Worlds = active'
      /\ refs' \subseteq Objects \X Objects
    BY <1>1, <1>2, <1>4
<1>8. /\ active' # {} => Client \in alive'
      /\ Actors \cap alive' # {} => active' # {}
    BY <1>2, <1>3, Distinct
<1>9. SpawnInv'
    BY <1>1, <1>2, <1>3, Distinct DEF SpawnInv
<1> QED BY <1>5, <1>6, <1>7, <1>8, <1>9

LEMMA UsesWorldPointers ==
    ASSUME Pointers, NEW w \in Worlds, NEW more \in SUBSET Actors,
           NEW handle \in more \cup {w}, UsesWorld(w, more, handle), Client \in alive
    PROVE  Pointers'
<1> USE DEF Pointers
<1>1. /\ active' = {w} /\ alive' = alive \cup {w} \cup more
      /\ refs' = {r \in refs : r[1] # Client} \cup {<<Client, w>>, <<w, Client>>}
                   \cup (more \X {w})
      /\ held' = held \cup {handle}
    BY DEF UsesWorld, ClientRefs
<1>2. active = {} \/ active = {w}
    <2>1. CASE active = {}
        BY <2>1
    <2>2. CASE active # {}
        BY <2>2 DEF UsesWorld, IsWorld
    <2> QED BY <2>1, <2>2
<1>3. /\ w \in Objects /\ Client \in Objects /\ more \subseteq Objects
      /\ w # Client /\ w \notin Actors /\ Client \notin Actors
      /\ \A a \in more : a \notin Worlds
    BY Distinct DEF Objects
<1>4. /\ held' \subseteq alive' /\ alive' \subseteq Objects
      /\ \A v, x \in active' : v = x
      /\ alive' \cap Worlds = active'
      /\ active' # {} /\ Client \in alive'
    BY <1>1, <1>2, <1>3
<1>5. refs' \subseteq Objects \X Objects
    BY <1>1, <1>3
<1>6. ASSUME NEW p \in Objects, NEW q \in Objects
      PROVE  <<p, q>> \in refs' <=> PointsTo(p, q)'
    <2>1. <<p, q>> \in refs' <=> \/ <<p, q>> \in refs /\ p # Client
                                 \/ p = Client /\ q = w
                                 \/ p = w /\ q = Client
                                 \/ p \in more /\ q = w
        BY <1>1
    <2>2. <<p, q>> \in refs <=> PointsTo(p, q)
        OBVIOUS
    <2>3. PointsTo(p, q)' <=> \/ p = Client /\ q = w
                              \/ p = w /\ q = Client
                              \/ p \in Actors \cap (alive \cup more) /\ q = w
        BY <1>1, <1>3 DEF PointsTo
    <2>4. CASE active = {}
        BY <2>1, <2>2, <2>3, <2>4 DEF PointsTo
    <2>5. CASE active = {w}
        BY <1>3, <2>1, <2>2, <2>3, <2>5 DEF PointsTo
    <2> QED BY <1>2, <2>4, <2>5
<1> QED BY <1>4, <1>5, <1>6

(* Steps that only change what the program holds, and not to more than is  *)
(* alive. *)
LEMMA HeldPointers ==
    ASSUME Pointers, UNCHANGED <<alive, refs, active>>, held' \subseteq alive
    PROVE  Pointers'
<1>1. \A p, q \in Objects : PointsTo(p, q)' <=> PointsTo(p, q)
    BY DEF PointsTo
<1> QED BY <1>1 DEF Pointers

LEMMA CallPointers ==
    ASSUME PointersInv, UNCHANGED pointers,
           pending'.call = "spawn" => pending = pending' \/ Spawners # {}
    PROVE  PointersInv'
<1>1. Pointers'
    BY HeldPointers DEF PointersInv, Pointers, pointers
<1>2. Spawners # {} => Client \in alive /\ (Client \in held \/ active # {})
    BY DEF Spawners, PointersInv, Pointers
<1>3. SpawnInv'
    BY <1>2 DEF PointersInv, SpawnInv, pointers
<1> QED BY <1>1, <1>3 DEF PointersInv

LEMMA InitPointers == Init => PointersInv
<1> SUFFICES ASSUME Init PROVE PointersInv
    OBVIOUS
<1>1. /\ alive = {Client} /\ held = {Client} /\ refs = {} /\ active = {}
      /\ Client \in Objects /\ Client \notin Worlds \cup Actors
      /\ pending.call # "spawn"
    BY Distinct DEF Init, Objects, None
<1> QED BY <1>1 DEF PointersInv, Pointers, PointsTo, SpawnInv

LEMMA NextPointers == PointersInv /\ [Next]_vars => PointersInv'
<1> SUFFICES ASSUME PointersInv, [Next]_vars PROVE PointersInv'
    OBVIOUS
<1>1. ASSUME NEW o \in Objects, Drop(o) PROVE PointersInv'
    <2>1. held' \subseteq alive /\ UNCHANGED <<alive, refs, active, pending>>
          /\ pending.call = "none"
        BY <1>1 DEF Drop, Idle, PointersInv, Pointers
    <2>2. Pointers'
        BY <2>1, HeldPointers DEF PointersInv
    <2> QED BY <2>1, <2>2 DEF PointersInv, SpawnInv
<1>2. ASSUME NEW w \in Worlds, GetWorld(w) PROVE PointersInv'
    <2>1. /\ Client \in alive /\ UsesWorld(w, {}, w)
          /\ pending.call = "none" /\ pending' = pending
        BY <1>2 DEF GetWorld, Idle, PointersInv, Pointers
    <2>2. Pointers'
        BY <2>1, UsesWorldPointers DEF PointersInv
    <2> QED BY <2>1, <2>2 DEF PointersInv, SpawnInv
<1>3. ASSUME NEW w \in Worlds, NEW a \in Actors, SpawnReturns(a, w) PROVE PointersInv'
    <2>1. /\ Client \in alive /\ UsesWorld(w, {a}, a)
          /\ pending'.call = "none"
        BY <1>3 DEF SpawnReturns, PointersInv, SpawnInv, None
    <2>2. Pointers'
        BY <2>1, UsesWorldPointers DEF PointersInv
    <2> QED BY <2>1, <2>2 DEF PointersInv, SpawnInv
<1>4. ASSUME NEW a \in Actors, GetWorldOfActor(a) PROVE PointersInv'
    <2>1. /\ UNCHANGED <<alive, refs, active, pending>> /\ pending.call = "none"
          /\ held' = held \cup {w \in Worlds : <<a, w>> \in refs}
          /\ a \in Objects /\ Worlds \subseteq Objects
        BY <1>4 DEF GetWorldOfActor, Idle, Objects
    <2>2. \A w \in Worlds : <<a, w>> \in refs => w \in alive
        BY <2>1, Distinct DEF PointersInv, Pointers, PointsTo
    <2>3. Pointers'
        BY <2>1, <2>2, HeldPointers DEF PointersInv, Pointers
    <2> QED BY <2>1, <2>3 DEF PointersInv, SpawnInv
<1>5. CASE \/ Ask \/ CallReturns \/ GetBlueprintLibrary \/ BlueprintsReturn
           \/ \E a \in Actors : ApplyControl(a)
           \/ \E pattern \in Patterns : Filter(pattern)
           \/ CallThrows
    <2>1. /\ UNCHANGED pointers
          /\ pending'.call = "spawn" => pending' = pending
        BY <1>5 DEF Ask, CallReturns, GetBlueprintLibrary, BlueprintsReturn,
                    ApplyControl, Filter, CallThrows, Call, None
    <2> QED BY <2>1, CallPointers
<1>6. ASSUME NEW pos \in DOMAIN library, CallSpawn(pos) PROVE PointersInv'
    BY <1>6, CallPointers DEF CallSpawn, Call
<1>7. CASE UNCHANGED vars
    BY <1>7, CallPointers DEF vars
<1> QED BY <1>1, <1>2, <1>3, <1>4, <1>5, <1>6, <1>7, DestroyPointers DEF Next

-----------------------------------------------------------------------------

(* Which objects refer to which follows from what is alive and which world *)
(* is active, after any calls, failures and dropped handles                *)
(* (Client.h:74, World.h:54, Actor.h:57-66).                               *)
THEOREM PointersInvariant == Spec => []PointersInv
BY InitPointers, NextPointers, PTL DEF Spec

(* A handle can be used as long as the program has it, whatever it dropped *)
(* before, for any number of actors (Actor.h:57-66, World.h:50-54).        *)
THEOREM HandlesAreAlwaysUsable == Spec => []HandlesAreUsable
<1>1. PointersInv => HandlesAreUsable
    <2> SUFFICES ASSUME Pointers PROVE HandlesAreUsable
        BY DEF PointersInv
    <2>1. held # {} => Client \in alive
        BY DEF Pointers, Objects
    <2>2. ASSUME NEW a \in Actors \cap alive
          PROVE  \E w \in Worlds \cap alive : <<a, w>> \in refs
        <3>1. PICK w : w \in active
            BY DEF Pointers
        <3>2. w \in Worlds \cap alive /\ w \in Objects /\ a \in Objects
            BY <3>1 DEF Pointers, Objects
        <3>3. <<a, w>> \in refs
            BY <3>1, <3>2 DEF Pointers, PointsTo
        <3> QED BY <3>2, <3>3
    <2> QED BY <2>1, <2>2 DEF Pointers, HandlesAreUsable
<1> QED BY <1>1, PointersInvariant, PTL

(* A program that dropped everything leaves the client and the world,      *)
(* which hold each other, and nothing else (Client.h:74, World.h:54).      *)
THEOREM AlwaysLeaksTheWorldOnly == Spec => []LeaksTheWorldOnly
<1>1. PointersInv => LeaksTheWorldOnly
    <2> SUFFICES ASSUME Pointers, held = {}, Garbage = {}
                 PROVE  alive = IF active = {} THEN {} ELSE {Client} \cup active
        BY DEF PointersInv, LeaksTheWorldOnly, Idle
    <2>1. \A o \in alive : Referenced(o)
        BY DEF Garbage
    <2>2. Actors \cap alive = {}
        BY <2>1, ActorIsNotReferenced
    <2>3. alive \subseteq {Client} \cup active
        BY <2>2 DEF Pointers, Objects
    <2>4. CASE active = {}
        <3>1. Client \notin alive
            <4>1. \A p \in Objects : <<p, Client>> \notin refs
                BY <2>2, <2>4 DEF Pointers, PointsTo, Objects
            <4>2. ~Referenced(Client)
                BY <4>1 DEF Referenced, Pointers
            <4> QED BY <2>1, <4>2
        <3> QED BY <2>3, <2>4, <3>1
    <2>5. CASE active # {}
        BY <2>3, <2>5 DEF Pointers
    <2> QED BY <2>4, <2>5
<1> QED BY <1>1, PointersInvariant, PTL

-----------------------------------------------------------------------------
(* Induction, in the form of sets, and functions defined by recursion.     *)

LEMMA Induction ==
    ASSUME NEW S, 0 \in S, \A n \in Nat : n \in S => n + 1 \in S
    PROVE  Nat \subseteq S
<1> DEFINE R == OpToRel(<, Nat)
           T == Nat \ S
<1>1. \A x, y \in Nat : x < y => <<x, y>> \in R
    BY DEF OpToRel
<1>2. IsWellFoundedOn(R, Nat)
    BY NatLessThanWellFounded
<1> HIDE DEF R
<1>3. SUFFICES ASSUME T # {} PROVE FALSE
    OBVIOUS
<1>4. PICK x \in T : \A y \in T : ~(<<y, x>> \in R)
    <2>1. T \subseteq Nat
        OBVIOUS
    <2> HIDE DEF T
    <2> QED BY <1>2, <1>3, <2>1, WFMin
<1>5. x # 0 /\ x \in Nat
    OBVIOUS
<1>6. x - 1 \in Nat /\ x - 1 < x /\ (x - 1) + 1 = x
    BY <1>5
<1>7. x - 1 \in S
    BY <1>1, <1>4, <1>5, <1>6
<1> QED BY <1>4, <1>6, <1>7

(* A number of steps from a first value, each by a function of the number  *)
(* of the step and the value before it.                                    *)
Repeats(f, n, first, step) ==
    /\ f[0] = first
    /\ \A i \in 1..n : f[i] = step[<<i, f[i - 1]>>]

LEMMA Recursion ==
    ASSUME NEW V, NEW n \in Nat, NEW first \in V, NEW step \in [(1..n) \X V -> V]
    PROVE  \E f \in [0..n -> V] : Repeats(f, n, first, step)
<1> DEFINE Is(f, m) == Repeats(f, m, first, step)
           S == {m \in Nat : m <= n => \E f \in [0..m -> V] : Is(f, m)}
<1>1. 0 \in S
    <2> DEFINE f == [i \in 0..0 |-> first]
    <2>1. f \in [0..0 -> V] /\ Is(f, 0)
        BY DEF Repeats
    <2> QED BY <2>1
<1>2. ASSUME NEW m \in Nat, m \in S PROVE m + 1 \in S
    <2>1. SUFFICES ASSUME m + 1 <= n
                   PROVE  \E f \in [0..(m + 1) -> V] : Is(f, m + 1)
        OBVIOUS
    <2>2. PICK g \in [0..m -> V] : Is(g, m)
        BY <1>2, <2>1
    <2> DEFINE f == [i \in 0..(m + 1) |->
                        IF i <= m THEN g[i] ELSE step[<<m + 1, g[m]>>]]
    <2>3. step[<<m + 1, g[m]>>] \in V
        BY <2>1
    <2>4. f \in [0..(m + 1) -> V]
        BY <2>3
    <2>5. f[0] = first
        BY <2>2 DEF Repeats
    <2>6. ASSUME NEW i \in 1..(m + 1) PROVE f[i] = step[<<i, f[i - 1]>>]
        <3>1. CASE i \in 1..m
            <4>1. f[i] = g[i] /\ f[i - 1] = g[i - 1]
                BY <3>1
            <4>2. g[i] = step[<<i, g[i - 1]>>]
                BY <2>2, <3>1 DEF Repeats
            <4> QED BY <4>1, <4>2
        <3>2. CASE i = m + 1
            <4>1. f[m + 1] = step[<<m + 1, g[m]>>] /\ f[m] = g[m]
                OBVIOUS
            <4>2. (m + 1) - 1 = m
                OBVIOUS
            <4> HIDE DEF f
            <4> QED BY <3>2, <4>1, <4>2
        <3> QED BY <3>1, <3>2
    <2> HIDE DEF f
    <2> QED BY <2>4, <2>5, <2>6 DEF Repeats
<1>3. n \in S
    <2> HIDE DEF S
    <2> QED BY <1>1, <1>2, Induction
<1> QED BY <1>3

-----------------------------------------------------------------------------
(* What is copied of a library matches.                                    *)

LEMMA FilteredMatches ==
    ASSUME NEW T, NEW blueprints \in Seq(T), NEW pattern
    PROVE  Filtered(blueprints, pattern) \in
               Seq({t \in T : MatchWildcards(t, pattern)})
<1> DEFINE n == Len(blueprints)
           V == Seq({t \in T : MatchWildcards(t, pattern)})
           step == [p \in (1..n) \X V |->
                       IF MatchWildcards(blueprints[p[1]], pattern)
                         THEN Append(p[2], blueprints[p[1]]) ELSE p[2]]
           Is(f) == f = [i \in 0..n |->
                            IF i = 0 THEN <<>>
                            ELSE IF MatchWildcards(blueprints[i], pattern)
                                   THEN Append(f[i - 1], blueprints[i])
                                   ELSE f[i - 1]]
           copied == CHOOSE f : Is(f)
<1>1. n \in Nat /\ <<>> \in V
    OBVIOUS
<1>2. ASSUME NEW i \in 1..n, NEW x \in V, MatchWildcards(blueprints[i], pattern)
      PROVE  Append(x, blueprints[i]) \in V
    BY <1>2
<1> HIDE DEF V
<1>3. step \in [(1..n) \X V -> V]
    BY <1>2
<1>4. \A i \in 1..n : \A x \in V :
          step[<<i, x>>] = IF MatchWildcards(blueprints[i], pattern)
                             THEN Append(x, blueprints[i]) ELSE x
    OBVIOUS
<1> HIDE DEF step, n
<1>5. PICK f \in [0..n -> V] : Repeats(f, n, <<>>, step)
    BY <1>1, <1>3, Recursion
<1>6. Is(f)
    <2>1. f[0] = <<>>
        BY <1>5 DEF Repeats
    <2>2. ASSUME NEW i \in 1..n
          PROVE  f[i] = IF MatchWildcards(blueprints[i], pattern)
                          THEN Append(f[i - 1], blueprints[i]) ELSE f[i - 1]
        <3>1. f[i - 1] \in V
            BY <1>1
        <3>2. f[i] = step[<<i, f[i - 1]>>]
            BY <1>5 DEF Repeats
        <3> QED BY <1>4, <3>1, <3>2
    <2>3. \A i \in 0..n : i = 0 \/ i \in 1..n
        BY <1>1
    <2>4. f = [i \in 0..n |-> f[i]]
        OBVIOUS
    <2>5. ASSUME NEW i \in 0..n
          PROVE  f[i] = IF i = 0 THEN <<>>
                        ELSE IF MatchWildcards(blueprints[i], pattern)
                               THEN Append(f[i - 1], blueprints[i]) ELSE f[i - 1]
        BY <2>1, <2>2, <2>3, Zenon
    <2> QED BY <2>4, <2>5, Zenon
<1>7. Filtered(blueprints, pattern) = copied[n]
    BY DEF Filtered, n
<1>8. Is(copied)
    <2> HIDE DEF Is
    <2> QED BY <1>6
<1> HIDE DEF copied
<1>9. copied[0] = <<>>
    BY <1>1, <1>8
<1>10. ASSUME NEW i \in 1..n
       PROVE  copied[i] = IF MatchWildcards(blueprints[i], pattern)
                            THEN Append(copied[i - 1], blueprints[i])
                            ELSE copied[i - 1]
    <2>1. i \in 0..n /\ i # 0
        BY <1>1
    <2> QED BY <1>8, <2>1, Zenon
<1> DEFINE S == {i \in Nat : i <= n => copied[i] \in V}
<1>11. 0 \in S
    BY <1>1, <1>9
<1>12. \A i \in Nat : i \in S => i + 1 \in S
    <2> SUFFICES ASSUME NEW i \in Nat, copied[i] \in V, i + 1 <= n
                 PROVE  copied[i + 1] \in V
        BY <1>1
    <2>1. i + 1 \in 1..n /\ (i + 1) - 1 = i
        BY <1>1
    <2> QED BY <1>2, <1>10, <2>1
<1>13. copied[n] \in V
    <2> HIDE DEF S
    <2>1. Nat \subseteq S
        BY <1>11, <1>12, Induction
    <2> QED BY <1>1, <2>1 DEF S
<1> QED BY <1>7, <1>13 DEF V

-----------------------------------------------------------------------------
(* The type ids that match all of some patterns. *)
Matching(patterns) ==
    {t \in TypeIds : \A p \in patterns : MatchWildcards(t, p)}

Asked(wish) == wish \in Wishes /\ wish.blueprint \in Matching(wish.picked_by)

(* What the program filters matches what it filtered by, and so does what  *)
(* it asked for and what it got. *)
AskedInv ==
    /\ filters \subseteq Patterns
    /\ library \in Seq(Matching(filters))
    /\ pending \in [call : Calls, wish : Wishes \cup {NoActor}]
    /\ pending.call = "spawn" => Asked(pending.wish)
    /\ actor \in [Actors -> Wishes \cup {NoActor}]
    /\ \A a \in Actors \cap alive : Asked(actor[a])

LEMMA InitAsked == Init => AskedInv
<1> SUFFICES ASSUME Init PROVE AskedInv
    OBVIOUS
<1>1. library \in Seq(Matching(filters)) /\ filters \subseteq Patterns
    BY DEF Init
<1>2. None \in [call : Calls, wish : Wishes \cup {NoActor}] /\ None.call = "none"
    BY DEF None, Calls
<1>3. Actors \cap alive = {}
    BY Distinct DEF Init
<1>4. actor \in [Actors -> Wishes \cup {NoActor}]
    BY DEF Init
<1> QED BY <1>1, <1>2, <1>3, <1>4 DEF AskedInv, Init

(* What waits for the server changes, to what the program may ask for. *)
LEMMA CallAsked ==
    ASSUME AskedInv, UNCHANGED <<alive, library, filters, actor>>,
           pending' \in [call : Calls, wish : Wishes \cup {NoActor}],
           pending'.call = "spawn" => pending = pending' \/ Asked(pending'.wish)
    PROVE  AskedInv'
BY DEF AskedInv, Asked, Matching

LEMMA NextAsked == AskedInv /\ [Next]_vars => AskedInv'
<1> SUFFICES ASSUME AskedInv, [Next]_vars PROVE AskedInv'
    OBVIOUS
<1>0. None \in [call : Calls, wish : Wishes \cup {NoActor}] /\ None.call = "none"
    BY DEF None, Calls
<1>1. ASSUME NEW o \in Objects, Destroy(o) PROVE AskedInv'
    <2>1. /\ alive' = alive \ {o} /\ UNCHANGED <<pending, library, filters>>
          /\ actor' = [a \in Actors |-> IF a = o THEN NoActor ELSE actor[a]]
        BY <1>1 DEF Destroy
    <2>2. actor' \in [Actors -> Wishes \cup {NoActor}]
        BY <2>1 DEF AskedInv
    <2>3. \A a \in Actors \cap alive' : a \in Actors \cap alive /\ actor'[a] = actor[a]
        BY <2>1
    <2> QED BY <2>1, <2>2, <2>3 DEF AskedInv, Asked, Matching
<1>2. ASSUME NEW o \in Objects, Drop(o) PROVE AskedInv'
    BY <1>2 DEF Drop, AskedInv, Asked, Matching
<1>3. ASSUME NEW w \in Worlds, GetWorld(w) PROVE AskedInv'
    <2>1. UNCHANGED <<pending, library, filters, actor>> /\ alive' = alive \cup {w}
        BY <1>3 DEF GetWorld, UsesWorld
    <2>2. Actors \cap alive' = Actors \cap alive
        BY <2>1, Distinct
    <2> QED BY <2>1, <2>2 DEF AskedInv, Asked, Matching
<1>4. ASSUME NEW w \in Worlds, NEW a \in Actors, SpawnReturns(a, w) PROVE AskedInv'
    <2>1. /\ alive' = alive \cup {w} \cup {a} /\ pending' = None
          /\ actor' = [actor EXCEPT ![a] = pending.wish]
          /\ UNCHANGED <<library, filters>>
          /\ pending.call = "spawn"
        BY <1>4 DEF SpawnReturns, UsesWorld
    <2>2. Asked(pending.wish) /\ pending.wish \in Wishes
        BY <2>1 DEF AskedInv, Asked
    <2>3. /\ actor' \in [Actors -> Wishes \cup {NoActor}]
          /\ actor'[a] = pending.wish
          /\ \A b \in Actors : b # a => actor'[b] = actor[b]
        BY <2>1, <2>2 DEF AskedInv
    <2>4. \A b \in Actors \cap alive' : b = a \/ b \in alive
        BY <2>1, Distinct
    <2>5. \A b \in Actors \cap alive' : Asked(actor'[b])
        BY <2>2, <2>3, <2>4 DEF AskedInv
    <2> QED BY <1>0, <2>1, <2>3, <2>5 DEF AskedInv, Asked, Matching
<1>5. ASSUME NEW a \in Actors, GetWorldOfActor(a) PROVE AskedInv'
    BY <1>5 DEF GetWorldOfActor, AskedInv, Asked, Matching
<1>6. ASSUME NEW a \in Actors, ApplyControl(a) PROVE AskedInv'
    <2>1. /\ pending' = [call |-> "control", wish |-> actor[a]]
          /\ UNCHANGED <<alive, library, filters, actor>>
        BY <1>6 DEF ApplyControl, Call, pointers
    <2>2. actor[a] \in Wishes \cup {NoActor}
        BY DEF AskedInv
    <2>3. pending' \in [call : Calls, wish : Wishes \cup {NoActor}]
        BY <2>1, <2>2 DEF Calls
    <2> QED BY <2>1, <2>3, CallAsked
<1>7. CASE Ask \/ GetBlueprintLibrary
    <2>1. /\ UNCHANGED <<alive, library, filters, actor>>
          /\ \E function \in Calls \ {"spawn"} :
                 pending' = [call |-> function, wish |-> NoActor]
        BY <1>7 DEF Ask, GetBlueprintLibrary, Call, pointers, Calls
    <2>2. /\ pending' \in [call : Calls, wish : Wishes \cup {NoActor}]
          /\ pending'.call # "spawn"
        BY <2>1
    <2> QED BY <2>1, <2>2, CallAsked
<1>8. CASE CallReturns \/ CallThrows
    <2>1. pending' = None /\ UNCHANGED <<alive, library, filters, actor>>
        BY <1>8 DEF CallReturns, CallThrows, pointers
    <2> QED BY <1>0, <2>1, CallAsked
<1>9. CASE BlueprintsReturn
    <2>1. /\ library' = Blueprints /\ filters' = {} /\ pending' = None
          /\ UNCHANGED <<alive, actor>>
        BY <1>9 DEF BlueprintsReturn, pointers
    <2>2. Matching({}) = TypeIds
        BY DEF Matching
    <2>3. library' \in Seq(Matching(filters'))
        BY <2>1, <2>2, BlueprintsAssumption DEF TypeIds
    <2> QED BY <1>0, <2>1, <2>3 DEF AskedInv, Asked, Matching
<1>10. ASSUME NEW pattern \in Patterns, Filter(pattern) PROVE AskedInv'
    <2>1. /\ library' = Filtered(library, pattern)
          /\ filters' = filters \cup {pattern}
          /\ UNCHANGED <<alive, pending, actor>>
        BY <1>10 DEF Filter, pointers
    <2>2. Matching(filters \cup {pattern})
              = {t \in Matching(filters) : MatchWildcards(t, pattern)}
        BY DEF Matching
    <2>3. library' \in Seq(Matching(filters'))
        <3>1. library \in Seq(Matching(filters))
            BY DEF AskedInv
        <3>2. Filtered(library, pattern)
                  \in Seq({t \in Matching(filters) : MatchWildcards(t, pattern)})
            BY <3>1, FilteredMatches
        <3> QED BY <2>1, <2>2, <3>2
    <2> QED BY <2>1, <2>3 DEF AskedInv, Asked, Matching
<1>11. ASSUME NEW pos \in DOMAIN library, CallSpawn(pos) PROVE AskedInv'
    <2> DEFINE wish == [blueprint |-> library[pos], picked_by |-> filters]
    <2>1. /\ pending' = [call |-> "spawn", wish |-> wish]
          /\ UNCHANGED <<alive, library, filters, actor>>
        BY <1>11 DEF CallSpawn, Call, pointers
    <2>2. library[pos] \in Matching(filters)
        BY DEF AskedInv
    <2>3. wish \in Wishes /\ Asked(wish)
        BY <2>2 DEF AskedInv, Wishes, Asked, Matching
    <2>4. pending' \in [call : Calls, wish : Wishes \cup {NoActor}]
        BY <2>1, <2>3 DEF Calls
    <2> HIDE DEF wish
    <2>5. Asked(pending'.wish)
        BY <2>1, <2>3
    <2> QED BY <2>1, <2>4, <2>5, CallAsked
<1>12. CASE UNCHANGED vars
    BY <1>12 DEF vars, pointers, AskedInv, Asked, Matching
<1> QED BY <1>1, <1>2, <1>3, <1>4, <1>5, <1>6, <1>7, <1>8, <1>9, <1>10, <1>11,
           <1>12 DEF Next

(* An actor is of a type that the server offers and that matches every     *)
(* pattern it was looked for by, for any blueprints, patterns and orders   *)
(* of filtering (BlueprintLibrary.h:35-41, Client.cpp:26-27).              *)
THEOREM ActorsAreAlwaysAsAsked == Spec => []ActorsAreAsAsked
<1>1. Init => AskedInv
    BY InitAsked
<1>2. AskedInv /\ [Next]_vars => AskedInv'
    BY NextAsked
<1>3. AskedInv => ActorsAreAsAsked
    BY DEF AskedInv, Asked, Matching, ActorsAreAsAsked
<1> QED BY <1>1, <1>2, <1>3, PTL DEF Spec
=============================================================================
