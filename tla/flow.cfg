SPECIFICATION Spec
CONSTANTS
    r1 = r1
    r2 = r2
    g = g
    c1 = c1
    c2 = c2
    None = None
    Sdus <- MCSdus
    Length <- MCLength
    RedLength <- MCRedLength
    Clients = {c1, c2}
    ClientOf <- MCClientOf
    Transient = {c2}
    MaxExportSessions = 1
    AggrSizeLimit = 2
    AggrTimeLimit = 1
    Purge = TRUE
    MayDie = TRUE
    MayStop = TRUE
INVARIANTS
    RedWindow
    OneOpenBlock
    BlocksConsistent
    SdusAccounted
    NoLostWakeup
\* A resetSpan that waits for a semaphore it has lost holds the SDR for ever.
CHECK_DEADLOCK FALSE
