SPECIFICATION Spec
CONSTANTS
    Nodes = {"a", "b", "c", "d"}
    Self = "a"
    Addresses = {"old", "new"}
    Circle = 8
    VirtualNodes <- Virtual
    ChannelCap = 4
    MaxEvents = 6
INVARIANTS TypeOK RingMatchesMembers SuccessorsAreNearest ChannelTellsMembers
PROPERTIES MinimalMovement
CHECK_DEADLOCK FALSE
