SPECIFICATION MassiveSpec
CONSTANTS
    NRow = 8
    K = 2
    ChunkRows = 3
    CheckpointEvery = 2
    NShards = 2
    Builds = {exact, near, far}
    MaxVersion = 1
    MaxStops = 2
    TornShards = {0}
    exact = exact
    near = near
    far = far
    Missing = Missing
    Infinite = Infinite
    Returned <- MCReturned
    Distance <- MCDistance
    RankedPlans <- MCRankedPlans
    WordBits = 12
    MinScale = 2
    MostScale = 1024
    MaxCoord = 9
    MaxStep = 3
    MaxFailures = 2
    Value <- MCValue
    Centers <- MCCenters
    PostRows = 7
    PostBlock = 2
    PostEvery = 2
    Probes = 2
    Near = 2
    BucketRows = 1
    FanOutRows = 2
    PostVersions = 1
    PostStops = 3
    WalkGraphs <- MCWalkGraphs
    QueryCalls <- MCQueryCalls
    Reach = 20
    MostStep = 30
    MaxOutward = 2
    Metrics <- MCMetrics
    ThreadsFrom = 5
    Block = 4
INVARIANTS
    WalktrapExact
    RowsStandAlone
    ScoresExact
    PostingGraphRight
    PostingWorkResumes
    CommittedAnswersKept
    ReplayIdempotent
    ResumeAccepted
    RanksActAsOne
    NothingOutlivesCall
PROPERTIES
    MassiveReturns
CHECK_DEADLOCK FALSE
