CONSTANTS
    N = 2
    MaxLength = 6
SPECIFICATION Spec
INVARIANT NoFault
CHECK_DEADLOCK FALSE
