SPECIFICATION PostSpec
CONSTANTS
    Value <- MCLine
    Centers <- MCEnds
    PostRows = 33
    PostBlock = 11
    PostEvery = 1
    Probes = 1
    Near = 1
    BucketRows = 1
    FanOutRows = 32
    PostVersions = 0
    PostStops = 0
INVARIANTS
    MissingRowsNamed
CHECK_DEADLOCK FALSE
