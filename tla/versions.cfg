SPECIFICATION Spec
CONSTANTS
    Nodes = {"n1", "n2"}
    MaxVersions = 4
    MaxTime = 2
    MaxAnswers = 3
INVARIANTS TypeOK DescendantsAfter OnlyDescendantsAfter DetectKeepsEveryWrite
CHECK_DEADLOCK FALSE
