SPECIFICATION Spec
CONSTANTS
    c1 = c1
    c2 = c2
    c3 = c3
    r1 = r1
    r2 = r2
    Ids = {"s"}
    Keys = {"a"}
    Replicas = {r1, r2}
    Skew <- SkewR2
    Calls = {c1, c2, c3}
    TTL = 1
    Epoch = 0
    MaxClock = 4
SYMMETRY Symmetric
INVARIANTS TypeOK OwnCopiesFlagged MonotonicMeansMonotonic FlagsHaveCause
CHECK_DEADLOCK FALSE
