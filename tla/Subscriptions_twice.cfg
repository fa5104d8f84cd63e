SPECIFICATION Spec
CONSTANTS
    w1 = w1
    w2 = w2
    Word <- MCWord
    Junk <- MCJunk
    Streams <- TwoServers
    Tries = 1
    MaxWorkers = 1
INVARIANT HandlersReferToLiving
CHECK_DEADLOCK FALSE
