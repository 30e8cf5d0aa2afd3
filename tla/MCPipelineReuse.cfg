SPECIFICATION Spec
CONSTANTS
    Routes <- TsneRoute
    Missing = Missing
    Mixed = Mixed
    Foreign = Foreign
    MaxVersion = 0
    MaxStops = 2
    MaxTampers = 0
    StopAt <- Anywhere
INVARIANT CompletedStagesReused
CHECK_DEADLOCK FALSE
