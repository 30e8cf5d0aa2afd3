SPECIFICATION RoutesSpec
CONSTANTS
    NRow = 3
    ChunkRows = 1
    CheckpointEvery = 1
    Route = "landmark"
    b1 = b1
    b2 = b2
    b3 = b3
    Builds = {b1}
    PilotOf <- MCPilots
    Missing = Missing
    Hole = Hole
    MaxVersion = 1
    MaxStops = 1
    ChangeAt <- MCAnytime
    CrashAt <- AllPoints
INVARIANT ResumedRowsMatch
CHECK_DEADLOCK FALSE
