SPECIFICATION FairSpec
CONSTANTS
    None = none
    Clients = {c1, c2}
    Sessions = {s1, s2, s3}
PROPERTIES
    StreamIsFed
    EachGetsItsTurn
