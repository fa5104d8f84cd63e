SPECIFICATION FairSpec
CONSTANTS
    c1 = c1
    c2 = c2
    c3 = c3
    Connections <- ThreeConnections
    Timeouts <- TwoTimeouts
    DefaultTimeout = 10000
    MaxErrors = 0
PROPERTY
    NewSessionsGetTimeout
