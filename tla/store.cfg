SPECIFICATION Spec
CONSTANTS
    None = None
    Tasks = {t1, t2}
    t1 = t1
    t2 = t2
    MapSize = 9
    HeapSize = 9
    SmallSizes = {1}
    SmallMaxAddr = 21
    LargeSizes = {1, 3}
    LastBucket = 3
    Configs <- Protected
    Reboots <- FileOnly
    Empty <- NewDataspace
    Updates <- HeapUpdates
    MaxLog = 0
    MaxDepth = 2
SYMMETRY TaskSymmetry
CHECK_DEADLOCK FALSE
INVARIANTS
    UnlockedIsCommitted
    LogRestores
    HeapWellFormed
    ObjectsIntact
