SPECIFICATION TransferSpec
CONSTANTS
    Conn = {c1, c2}
    Client = {k1}
    Enrolled = {k1}
    Stranger = stranger
    File = {f1, f2}
    None = None
    MaxSlots = 1
    MaxPackets = 3
    MaxSize = 3
    MaxChunk = 1
    MaxRows = 8
    MaxBatch = 0
    MaxCrashes = 0
    ClientOf <- OneClient
    Packets = 3
    MaxFiles = 2
    Requests = 8
    Answers = 8
    Faults = {}
SYMMETRY TransferSymmetry
INVARIANTS
    SentIsCompleted
CHECK_DEADLOCK FALSE
