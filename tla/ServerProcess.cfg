SPECIFICATION FairSpec
CONSTANTS
    Proc = {p}
    Config <- MCConfig
    Name = {alice, bob}
    Pub = {k1, k2}
    User = {u}
    MaxIds = 2
    MaxKeys = 2
    MaxStarts = 3
    MaxFaults = 2
INVARIANTS
    IndexInSync
    AnswersDurable
    TrustHolds
PROPERTIES
    KeyBound
    
    ComesUp
    
