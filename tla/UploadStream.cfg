SPECIFICATION Spec
CONSTANTS
    Conn = {c1}
    Client = {k1, k2}
    Enrolled = {k1}
    Stranger = stranger
    File = {f1, f2}
    None = None
    MaxSlots = 1
    MaxPackets = 3
    MaxSize = 3
    MaxChunk = 2
    MaxRows = 2
    MaxBatch = 0
    MaxCrashes = 0
SYMMETRY Symmetry
INVARIANTS
    CompletedIsWhole
PROPERTIES
    SettledRowsAreFinal
CHECK_DEADLOCK FALSE
