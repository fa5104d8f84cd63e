SPECIFICATION Spec
CONSTANTS
    w1 = w1
    w2 = w2
    a1 = a1
    a2 = a2
    a3 = a3
    Client = client
    Worlds <- TwoWorlds
    Actors <- ThreeActors
    Blueprints <- Mustangs
    Matches <- SomePatterns
SYMMETRY Symmetric
INVARIANTS
    HandlesAreUsable
    LeaksTheWorldOnly
    ActorsAreAsAsked
\* A program that has dropped everything calls nothing more.
CHECK_DEADLOCK FALSE
