SPECIFICATION FairSpec
CONSTANTS
    Conn = {c1, c2}
    Client = {k1}
    Enrolled = {k1}
    Stranger = stranger
    File = {f1}
    None = None
    MaxSlots = 1
    MaxPackets = 1
    MaxSize = 1
    MaxChunk = 1
    MaxRows = 1
    MaxBatch = 1
    MaxCrashes = 1
PROPERTIES
    
    LostIsCleanedUp
CHECK_DEADLOCK FALSE
