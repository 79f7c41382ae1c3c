CONSTANTS
    xSize = 8
    SplitFlags = {TRUE}
    Uses = {"any"}
    ItemSizes = {1, 4}
    MaxItems = 4
    MaxHeld = 2
SPECIFICATION Spec
CHECK_DEADLOCK FALSE
INVARIANTS
    HeldIntact
