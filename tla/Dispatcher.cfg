SPECIFICATION Spec
CONSTANTS
    s1 = s1
    s2 = s2
    s3 = s3
    w1 = w1
    w2 = w2
    Sessions <- ThreeSessions
    Writers <- TwoWriters
    NoSession = NoSession
    IdModulus = 4
SYMMETRY Symmetry
INVARIANTS
    TokensUnique
    OwnStreamOnly
PROPERTIES
    ImplementsTable
