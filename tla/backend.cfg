CONSTANTS
    W = 2
    Params <- MCParams
    Bodies <- MCBodies
    Edits = {0, 1}
    Editable <- MCEditable
    Junk = {0, 3}
SPECIFICATION Spec
CHECK_DEADLOCK FALSE
INVARIANTS
    TypeOK
    TypesSound
    InferenceFresh
    LoweringTotal
    ValuesAgree
    PrintsOnce
    CodeAgrees
    
