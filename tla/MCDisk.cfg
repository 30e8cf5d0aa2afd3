SPECIFICATION DiskSpec
CONSTANTS
    Input <- MCPairs
    BlockEdges = 1
    Every = 3
    Cap = 2
    FanIn = 2
    Missing = Missing
    MaxVersion = 1
    MaxStops = 2
    NEpochs = 5
    SnapshotEvery = 2
    Routes <- AllRoutes
    NoLayout = NoLayout
    Short = Short
    TornLayout = TornLayout
    InputChanges = 1
    LayoutStops = 3
    StopAt <- AllPoints
    PcaJobs <- MCPcaJobs
    PcaVersions = 1
    PcaHalts = 2
    TsneCalls <- MCTsneCalls
    Prime = 7681
    Generator = 17
    Grid2 = 4
    Grid3 = 8
    ExactRows = 3
    WideRows = 5
    NearFrom = 1
    Reach = 2
    BlockThreads = 2
    MostBlocks = 2
    EarlyPoll = 1
    NormalPoll = 2
    PollAfter = 1
    Switches = 1
    SensedRows = 4
    RecordEvery = 2
    GraphChunk = 2
    TsneKills = 1
INVARIANTS
    CommittedWorkKept
    ManifestVouches
    SnapshotDurable
    ResultIsUninterrupted
    PcaAsUninterrupted
    PcaWorkResumes
    TsneAsDirect
PROPERTIES
    RecordedCallsFinish
CHECK_DEADLOCK FALSE
