SPECIFICATION StSpec
CONSTANTS
    Leases = {1, 2}
    StaticIp = 3
    LeaseExpires = TRUE
    QueueLen = 3
    MaxPolls = 1
    MaxDriverEvents = 6
INVARIANTS
    LossReported
CHECK_DEADLOCK FALSE
