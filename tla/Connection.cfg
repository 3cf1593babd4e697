SPECIFICATION Spec
CONSTANTS
    Conn = {c1, c2, c3}
    Ip = {i1, i2}
    MaxConnections = 2
    MaxPerIp = 1
    ReadTimeout = 1
    HandshakeTimeout = 1
    IdleTimeout = 1
    UploadTimeout = 2
    MaxReqPerWindow = 2
    ReqWindow = 1
    MaxFrames = 1
    MaxTime = 2
SYMMETRY ConnSymmetry
INVARIANTS HandshakeBound IdleBound RateBound LimiterAccounting
