SPECIFICATION Spec
CONSTANTS
    k1 = k1
    k2 = k2
    w1 = w1
    w2 = w2
    g1 = g1
    Keys = {k1}
    Writers = {w1, w2}
    Spawned = {g1}
    WALMaxSize = 2
    SnapshotThreshold = 2
    MaxSnapshots = 1
    Tears = {"header", "exact", "payload"}
    IOErrors = {"partial", "sync", "rotate"}
    MaxLog = 3
    MaxClock = 1
SYMMETRY Symmetry
INVARIANTS TypeOK ReadsSeeAcked AccountedLoss 
CHECK_DEADLOCK FALSE
