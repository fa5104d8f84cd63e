SPECIFICATION FairSpec
CONSTANTS
    m1 = m1
    m2 = m2
    m3 = m3
    Messages <- ThreeMessages
    StreamIds <- TwoIds
    UnsetIsPast = FALSE
INVARIANTS
    TypeOK
    Framed
    EachMessageOnce
    OutcomeIsTrue
    Watched
PROPERTIES
    ImplementsChannel
    ClosesItself
    EveryWriteEnds
\* A session ends: once closed and drained nothing is left to do.
CHECK_DEADLOCK FALSE
