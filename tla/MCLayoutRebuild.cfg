SPECIFICATION LayoutSpec
CONSTANTS
    NEpochs = 3
    SnapshotEvery = 2
    Routes <- MappedRoute
    NoLayout = NoLayout
    Short = Short
    TornLayout = TornLayout
    InputChanges = 0
    LayoutStops = 2
    StopAt <- AllPoints
INVARIANT MappedResumeRebuilds
CHECK_DEADLOCK FALSE
