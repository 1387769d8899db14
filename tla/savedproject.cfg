CONSTANTS
    Builtin <- MCBuiltin
    Tables <- MCTables
    Made <- MCMade
    Declared <- MCDeclared
    Bodies <- MCBodies
    MaxTypes = 5
    MaxFunctions = 2
SPECIFICATION Spec
INVARIANTS
    TypeOK
    RoundTrip
    NewTypesUnique
    TypesExact
    ErrorsExact
CHECK_DEADLOCK FALSE
