SPECIFICATION Spec
CONSTANTS
    TREEBIN_SHIFT = 2
    PageSize = 8
    Granularity = 16
    MmapThreshold = 14
    TrimThreshold = 20
    ReleaseRate = 2
    EarlyMemory = 72
    MemEnd = 360
    MaxRequest = 1000
    Workloads <- MCWorkloads
INVARIANTS BoundaryTags BinsExact BlocksSafe PagesAccounted NoAbort
PROPERTY BestFit
CHECK_DEADLOCK FALSE
