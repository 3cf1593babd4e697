SPECIFICATION Spec
CONSTANTS
    HeaderLen = 2
    MaxPayload = 7
    ReadSize = 4
    Block = 2
    PlainBuf = 4
    MinChunk = 2
    ChunkUnit = 2
    MaxPackets = 3
    MaxFileSize = 12
    MaxChunkSize = 4
    FileSizes <- MCFileSizes
    Payload <- MCPayload
    MaxFrames = 3
INVARIANTS
    Delivered
    BufferBound
    WrittenIsPrefix
    
    UploadArrives
CHECK_DEADLOCK FALSE
