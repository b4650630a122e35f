SPECIFICATION FairSpec
CONSTANTS
    r1 = r1
    r2 = r2
    g = g
    c1 = c1
    c2 = c2
    None = None
    Sdus <- MCSdus
    Length <- MCLength
    RedLength <- MCRedLength
    Clients = {c1, c2}
    ClientOf <- MCClientOf
    Transient = {}
    MaxExportSessions = 1
    AggrSizeLimit = 2
    AggrTimeLimit = 1
    Purge = TRUE
    MayDie = TRUE
    MayStop = FALSE
PROPERTIES
    SdusComeBack
