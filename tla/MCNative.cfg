SPECIFICATION NativeSpec
CONSTANTS
    Resolution = 1
    Cases <- MCCases
    MaxPasses = 4
    Rounds = 2
    ChunkRows = 3
    GraphRequests <- MCGraphRequests
    Full = 100
    Tiny = 1
    MaxWidth = 3
    BucketCalls <- MCBucketCalls
    FanIn = 2
    MostBuckets = 4
    HnswCases <- MCHnswCases
    M = 2
    Threads = 3
    ParallelFrom = 2
    StampLimit = 3
    LayoutCases <- MCLayoutCases
    Unit = 4
    Clip = 4
    SyncEvery = 2
    Bound = 16
    PoolThreads = 4
    Loops <- MCLoops
    MaxItems = 5
    MaxLoops = 2
    Searches <- MCSearches
    SearchThreads = {1, 2}
    BatchRows = 3
    ChunkOfRows = 3
INVARIANTS
    NearestFound
    HierarchySound
    IndexAsSerial
    GraphIsUnion
    BucketsSound
    TaskAlive
    EachItemOnce
    ErrorsReported
    AdditionsKept
PROPERTIES
    QualityNeverFalls
    BatchExact
    CallReturns
CHECK_DEADLOCK FALSE
