SPECIFICATION Spec
CONSTANTS
    Input <- MCPairs
    BlockEdges = 1
    Every = 3
    Cap = 2
    FanIn = 2
    Missing = Missing
    MaxVersion = 0
    MaxStops = 1
INVARIANTS
    InterruptedSortResumes
CHECK_DEADLOCK FALSE
