SPECIFICATION FairSpec
CONSTANTS
    n1 = n1
    n2 = n2
    v1 = v1
    c1 = c1
    c2 = c2
    c3 = c3
    None = None
    Nodes = {n1, n2}
    Rank <- TwoRing
    N = 3
    Values = {v1}
    Calls = {c1, c2, c3}
    Requests = {c1}
    Age = 1
    MaxHops = 2
    ServesREST = {n1, n2}
    Faults = {"loss", "engine", "crash"}
    Ops = {"put", "get", "del"}
PROPERTIES CallsReturn
CHECK_DEADLOCK FALSE
