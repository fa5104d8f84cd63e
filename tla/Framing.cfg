SPECIFICATION FairSpec
CONSTANTS
    Base = 2
    HeaderSize = 2
    Sources <- MCSources
    MaxMessages = 3
    MaxBreaks = 1
INVARIANTS
    ReceivedAsWritten
PROPERTIES
    BreaksOnEmpty
    AllAreReceived
\* When all the messages were written and read nothing is left to do.
CHECK_DEADLOCK FALSE
