CONSTANTS
    xSize = 9
    SplitFlags = {FALSE, TRUE}
    Uses = {"one", "batch"}
    ItemSizes = {0, 1, 3, 5}
    MaxItems = 6
    MaxHeld = 3
SPECIFICATION Spec
CHECK_DEADLOCK FALSE
INVARIANTS
    HeldIntact
    UnreadIntact
    FreeSizeSoundWithRoom
    SpaceReclaimed
