SPECIFICATION Spec
CONSTANTS
    m1 = m1
    m2 = m2
    m3 = m3
    Messages <- TwoMessages
    StreamIds <- TwoIds
    UnsetIsPast = FALSE
INVARIANT
    QueryGotItsBytes
\* A session ends: once closed and drained nothing is left to do.
CHECK_DEADLOCK FALSE
