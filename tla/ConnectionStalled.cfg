SPECIFICATION Spec
CONSTANTS
    Conn = {c1}
    Ip = {i1}
    MaxConnections = 1
    MaxPerIp = 1
    ReadTimeout = 1
    HandshakeTimeout = 2
    IdleTimeout = 2
    UploadTimeout = 2
    MaxReqPerWindow = 2
    ReqWindow = 2
    MaxFrames = 1
    MaxTime = 6
INVARIANT StalledUploadIsCutOff
