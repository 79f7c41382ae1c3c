SPECIFICATION MCSpec
CONSTANTS
    t1 = t1
    t2 = t2
    t3 = t3
    Threads = {t1, t2, t3}
    Main = app_main
    Waiters = {w1, w2, w3}
    Notifier = n
    Leases = {1, 2}
    StaticIp = 3
    LeaseExpires = FALSE
    QueueLen = 3
    MaxPolls = 1
    MaxDriverEvents = 5
    MaxConns = 3
    max_open_sockets = 2
    MailboxLen = 1
    MaxPosts = 1
    MaxRequests = 2
    ota_app_count = 2
    HasFactory = FALSE
    HasTest = FALSE
    MaxSeq = 12
    PartSectors = 3
    SecSize = 2
    ImageSectors <- MCImageSectors
    InitialParts <- MCInitialParts
    BootCopyApp = TRUE
    FactoryResetPin = FALSE
    RestartsAfterSet = TRUE
    MaxHandles = 4
    MaxFaults = 3
    Latest = 2
INVARIANTS
    PTypeOK
    DescriptorsKept
    NoMutualJoin
    MutexExclusion
    WaiterListSound
    LossReported
    ServedOncePerRound
    SocketsAccounted
    BootsOnlyWholeImage
    HandlesReturned
PROPERTIES
    FreedAfterEnd
    JoinReturns
    WaitersProceed
    LostOnce
    ServerProceeds
    DeviceUpdated
\* Threads end, and so do the notifier's and the waiters' programs; a stopped server
\* and a chip that has faulted do nothing more; the driver's events are bounded.
CHECK_DEADLOCK FALSE
