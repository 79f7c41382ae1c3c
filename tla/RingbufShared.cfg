CONSTANTS
    s1 = s1
    s2 = s2
    r1 = r1
    r2 = r2
    xSize = 3
    MaxSent = 5
    Senders = {s1, s2}
    Receivers = {r1, r2}
    SendSizes = {1, 3}
    MaxSizes = {0, 1}
    Waits = {"finite", "forever"}
    IsrSends = TRUE
    IsrReceives = TRUE
SPECIFICATION TSpec
CHECK_DEADLOCK FALSE
SYMMETRY Perms
INVARIANTS
    TypeOK
    Accounting
    LoanIntact
    FreeSizeExact
    OneHolder
    StreamIntact
PROPERTY
    ImplementsLendingQueue
