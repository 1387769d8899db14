CONSTANTS
    Entity = {e1, e2, e3}
    MaxRounds = 2
SPECIFICATION Spec
PROPERTY NopCollectKeepsAll
CHECK_DEADLOCK FALSE
