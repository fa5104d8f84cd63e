SPECIFICATION FairServerSpec
CONSTANTS
    c1 = c1
    c2 = c2
    c3 = c3
    Connections <- ThreeConnections
    Timeouts = {20500}
    DefaultTimeout = 10000
    MaxErrors = 1
    MaxWorkers = 2
INVARIANTS
    OneAcceptor
    NeverDry
    ClientsKept
PROPERTIES
    ConnectionsAreServed
\* A server that was destroyed does nothing more.
CHECK_DEADLOCK FALSE
