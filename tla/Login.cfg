SPECIFICATION FairSpec
CONSTANTS
    Device = {d1, d2}
    MaxFaults = 3
    Faults = {"kill", "lose", "serverKill", "store", "save"}
INVARIANTS TypeOK PrivateKeyKept ConnectedKeyCurrent
PROPERTY Reconnects
