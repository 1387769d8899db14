CONSTANTS
    Sizes <- MCSizes
    MaxRoots = 1
SPECIFICATION Spec
INVARIANTS
    ReachableSurvives
CHECK_DEADLOCK FALSE
