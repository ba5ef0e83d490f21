SPECIFICATION FairSpec
CONSTANTS
    p1 = p1
    p2 = p2
    NoPeer = NoPeer
    Peers = {p1, p2}
    HintTTL = 1
    Faults = {"engine", "network", "membership", "crash"}
    MaxHints = 2
    MaxTime = 2
INVARIANTS TypeOK HintsAccounted OvertakenOnlyAfterFailure RecordsUntilDelivered
PROPERTIES HintsSettle KeepsPromise
CHECK_DEADLOCK FALSE
