CONSTANTS
    N = 4
    MaxLength = 33
SPECIFICATION Spec
INVARIANTS
    IInv
    StorageShape
    EntriesBacked
PROPERTIES
    FaultWindow
    StrayWindow
CHECK_DEADLOCK FALSE
