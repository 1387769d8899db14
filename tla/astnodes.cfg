CONSTANTS
    Var = {x, y}
    Block = {b1, b2, b3, b4}
    NoBlock = NoBlock
    Label = {la, lb}
    MaxNew = 1
    MaxKids = 2
    MaxNodes = 5
SPECIFICATION Spec
SYMMETRY Symmetry
VIEW View
INVARIANTS
    IInv
    OwnedOnce
    NothingLost
    UnwindingIsSound
    AssignFaultsBelow
PROPERTIES
    TreeEditsSpec
CHECK_DEADLOCK FALSE
