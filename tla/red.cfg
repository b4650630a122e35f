SPECIFICATION Spec
CONSTANTS
    Sessions <- OneSession
    Block <- RedBlock
    SegLen = 1
    CkptLen = 1
    MaxClaims = 1
    MaxTimeouts = 1
    MaxCheckpoints = 2
    MaxReports = 2
    MaxImportSessions = 1
    Faults = {}
    NetCapacity = 2
    QueueBound = 1
    MayDuplicate = {TRUE, FALSE}
INVARIANTS
    TypeOK
    DeliveredOnce
    OneVerdict
    XmitCompleteOnce
    OneRetransmission
    ClaimsHeld
PROPERTIES
    ImplementsService
\* A finished span has nothing left to do.
CHECK_DEADLOCK FALSE
