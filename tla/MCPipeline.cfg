SPECIFICATION FairSpec
CONSTANTS
    Routes <- AllRoutes
    Missing = Missing
    Mixed = Mixed
    Foreign = Foreign
    MaxVersion = 1
    MaxStops = 2
    MaxTampers = 1
    StopAt <- Anywhere
INVARIANTS
    RecordCovered
    OneLineage
PROPERTIES
    KeepsCommittedLog
    RecordedCallReturns
CHECK_DEADLOCK FALSE
