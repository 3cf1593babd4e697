SPECIFICATION FairTransferSpec
CONSTANTS
    Conn = {c1}
    Client = {k1}
    Enrolled = {k1}
    Stranger = stranger
    File = {f1, f2}
    None = None
    MaxSlots = 1
    MaxPackets = 3
    MaxSize = 3
    MaxChunk = 1
    MaxRows = 8
    MaxBatch = 2
    MaxCrashes = 0
    ClientOf <- OneClient
    Packets = 3
    MaxFiles = 2
    Requests = 2
    Answers = 1
    Faults = {"rotate", "disk", "file", "link", "rate"}
INVARIANTS
    InStep
    
    
PROPERTIES
    CompletedIsAgreed
    BatchesEnd
CHECK_DEADLOCK FALSE
