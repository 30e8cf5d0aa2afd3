SPECIFICATION RoutesSpec
CONSTANTS
    NRow = 4
    ChunkRows = 2
    CheckpointEvery = 1
    Route = "landmark"
    b1 = b1
    b2 = b2
    b3 = b3
    Builds = {b1, b2, b3}
    PilotOf <- MCPilots
    Missing = Missing
    Hole = Hole
    MaxVersion = 1
    MaxStops = 3
    ChangeAt <- MCSigned
    CrashAt <- AllPoints
INVARIANTS
    CommittedRowsDurable
    PublishedComplete
    InductiveOnRoutes
PROPERTIES
    KeepsCommittedLog
    FullSearchPublished
CHECK_DEADLOCK FALSE
