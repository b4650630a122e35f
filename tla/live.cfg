SPECIFICATION FairSpec
CONSTANTS
    Sessions <- TwoSessions
    Block <- MixedThenGreen
    SegLen = 2
    CkptLen = 1
    MaxClaims = 20
    MaxTimeouts = 1
    MaxCheckpoints = 2
    MaxReports = 2
    MaxImportSessions = 1
    Faults = {"detached", "heap", "zco"}
    NetCapacity = 1
    QueueBound = 2
    MayDuplicate = {FALSE}
INVARIANTS
    CompletionTruthful
    NeverMiscolored
    CompleteAfterXmit
    NeverStranded
PROPERTIES
    SenderFinishes
    DeadImportsDrained
\* A finished span has nothing left to do.
CHECK_DEADLOCK FALSE
