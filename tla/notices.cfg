SPECIFICATION FairSpec
CONSTANTS
    Sessions <- OneSession
    Block <- RedBlock
    SegLen = 2
    CkptLen = 1
    MaxClaims = 20
    MaxTimeouts = 1
    MaxCheckpoints = 2
    MaxReports = 2
    MaxImportSessions = 1
    Faults = {}
    NetCapacity = 1
    QueueBound = 2
    MayDuplicate = {FALSE}
PROPERTIES
    BothCancellationsNotified
\* A finished span has nothing left to do.
CHECK_DEADLOCK FALSE
