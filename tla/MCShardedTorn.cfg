SPECIFICATION Spec
CONSTANTS
    NRow = 6
    K = 2
    ChunkRows = 2
    CheckpointEvery = 1
    NShards = 2
    Builds = {exact}
    MaxVersion = 0
    MaxStops = 1
    TornShards = {1}
    exact = exact
    near = near
    far = far
    Missing = Missing
    Infinite = Infinite
    Returned <- MCReturned
    Distance <- MCDistance
INVARIANTS
    ReplayIdempotent
CHECK_DEADLOCK FALSE
