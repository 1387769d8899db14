CONSTANTS
    Entity = {e1, e2, e3, e4}
    MaxRounds = 3
SPECIFICATION FairSpec
INVARIANTS
    IInv
    SwapInBounds
    OnlyStaleLost
PROPERTIES
    KeptSurvive
    CollectorSpec
    ConsolidationEnds
CHECK_DEADLOCK FALSE
