SPECIFICATION Spec
CONSTANTS
    k1 = k1
    k2 = k2
    w1 = w1
    w2 = w2
    g1 = g1
    Keys = {k1, k2}
    Writers = {w1}
    Spawned = {g1}
    WALMaxSize = 1
    SnapshotThreshold = 3
    MaxSnapshots = 1
    Tears = {}
    IOErrors = {}
    MaxLog = 3
    MaxClock = 1
INVARIANTS PutDurable
CHECK_DEADLOCK FALSE
