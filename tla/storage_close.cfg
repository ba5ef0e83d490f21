SPECIFICATION FairSpec
CONSTANTS
    k1 = k1
    k2 = k2
    w1 = w1
    w2 = w2
    g1 = g1
    Keys = {k1}
    Writers = {w1}
    Spawned = {g1}
    WALMaxSize = 2
    SnapshotThreshold = 1
    MaxSnapshots = 1
    Tears = {}
    IOErrors = {"snapshot", "write"}
    MaxLog = 1
    MaxClock = 3
PROPERTIES LatestSnapshotKept CloseTerminates
CHECK_DEADLOCK FALSE
