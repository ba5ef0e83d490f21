SPECIFICATION Spec
CONSTANTS
    n1 = n1
    n2 = n2
    Nodes = {n1, n2}
    Strings = {"x", "y", ""}
    Empty = ""
    None = None
    numBuckets = 4
    bucketIndex <- BucketOf
    ServesREST = {n1, n2}
    Flat = {n2}
    Faults = {"network"}
    Clients = {n1, n2}
    MaxWrites = 3
INVARIANTS TypeOK DiffExact OnlyEchoes
