SPECIFICATION Spec
CONSTANTS
    n1 = n1
    n2 = n2
    v1 = v1
    c1 = c1
    c2 = c2
    c3 = c3
    None = None
    Nodes = {n1, n2}
    Rank <- TwoRing
    N = 3
    Values = {v1}
    Calls = {c1, c2, c3}
    Requests = {c1}
    Age = 1
    MaxHops = 2
    ServesREST = {n1, n2}
    Faults = {"loss", "crash", "membership", "shutdown"}
    Ops = {"put", "get", "del"}
SYMMETRY Symmetry
INVARIANTS TypeOK AckedAtTwoNodes ForwardedSuccessNeedsLoneRing RepairNeedsLoneRing
CHECK_DEADLOCK FALSE
