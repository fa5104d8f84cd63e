SPECIFICATION FairSpec
CONSTANTS
    w1 = w1
    w2 = w2
    Word <- MCWord
    Junk <- MCJunk
    Streams <- DistinctIds
    Tries = 1
    MaxWorkers = 2
INVARIANTS
    HandlersReferToLiving
    ReachesTheServer
PROPERTIES
    SubscriptionsAreServed
    StopReturns
\* A client that was destroyed does nothing more.
CHECK_DEADLOCK FALSE
