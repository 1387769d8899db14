CONSTANTS
    Sizes <- MCSizes
    MaxRoots = 2
SPECIFICATION FairSpec
INVARIANTS
    IInv
    ReferencesFollow
    CompoundsExact
    Canonical
    SurvivorsExact
PROPERTIES
    FunctionPoolIsCollector
    TracingEnds
CHECK_DEADLOCK FALSE
