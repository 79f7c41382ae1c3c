SPECIFICATION SlotsSpec
CONSTANTS
    ota_app_count = 2
    HasFactory = TRUE
    HasTest = FALSE
    MaxSeq = 5
    PartSectors = 2
    SecSize = 2
    ImageSectors <- MCImageSectors
    InitialParts <- MCInitialParts
    BootCopyApp = FALSE
    FactoryResetPin = TRUE
    RestartsAfterSet = FALSE
    MaxHandles = 1
    MaxFaults = 2
INVARIANTS
    OldBootKept
    BootViewsAgree
    AlwaysBootable
    ExecutingIntact
    ConfirmationsHold
PROPERTIES
    SwitchesAtomically
    SeqMonotone
CHECK_DEADLOCK FALSE
