SPECIFICATION SysSpec
CONSTANTS
    ota_app_count = 1
    HasFactory = TRUE
    HasTest = TRUE
    MaxSeq = 4
    PartSectors = 2
    SecSize = 2
    ImageSectors <- MCImageSectors
    InitialParts <- MCInitialParts
    BootCopyApp = FALSE
    FactoryResetPin = FALSE
    RestartsAfterSet = FALSE
    MaxHandles = 1
    MaxFaults = 1
INVARIANTS
    ConfirmedAlwaysBoots
CHECK_DEADLOCK FALSE
