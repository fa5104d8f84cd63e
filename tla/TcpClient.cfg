SPECIFICATION FairSpec
CONSTANT MaxMessages = 3
INVARIANTS
    SingleChain
    ReadsWhatItAskedFor
PROPERTIES
    WindsDown
    ComesToRest
    Resubscribes
\* A stopped client comes to rest.
CHECK_DEADLOCK FALSE
