SPECIFICATION Spec
CONSTANTS
    Conn = {c1, c2}
    Client = {k1}
    Enrolled = {k1}
    Stranger = stranger
    File = {f1}
    None = None
    MaxSlots = 2
    MaxPackets = 2
    MaxSize = 2
    MaxChunk = 1
    MaxRows = 2
    MaxBatch = 0
    MaxCrashes = 0
SYMMETRY Symmetry
INVARIANTS
    SlotAccounting
    ActiveUploadHoldsSlot
    RowOfSession
    DiskIsWhole
CHECK_DEADLOCK FALSE
