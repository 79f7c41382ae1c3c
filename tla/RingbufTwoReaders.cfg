CONSTANTS
    s1 = s1
    s2 = s2
    r1 = r1
    r2 = r2
    xSize = 2
    MaxSent = 4
    Senders = {s1}
    Receivers = {r1, r2}
    SendSizes = {1, 2}
    MaxSizes = {0, 1}
    Waits = {"forever"}
    IsrSends = FALSE
    IsrReceives = FALSE
SPECIFICATION CallSpec
CHECK_DEADLOCK FALSE
PROPERTY ReaderServed
