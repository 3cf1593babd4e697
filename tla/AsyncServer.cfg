SPECIFICATION FairSpec
CONSTANTS
    Conn = {c1, c2}
    MaxActive = 1
INVARIANTS
    TypeOK
    AdmissionBound
    AcceptLoop
    OneOperation
    ReadIsGuarded
PROPERTIES
    RefusalIsJustified
    ShutdownDrains
CHECK_DEADLOCK FALSE
