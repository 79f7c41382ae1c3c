CONSTANTS
    xSize = 9
    SplitFlags = {FALSE}
    Uses = {"one"}
    ItemSizes = {0, 1, 2, 3}
    MaxItems = 5
    MaxHeld = 1
SPECIFICATION Spec
CHECK_DEADLOCK FALSE
INVARIANTS
    FreeSizeSound
