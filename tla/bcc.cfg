CONSTANTS
    Letter = {"f", "g", "h", "k"}
    Compiled <- MCCompiled
    Imported <- MCImported
    Projects <- MCProjects
    MaxFunctions = 3
    MaxTexts = 2
    Arguments <- MCArguments
SPECIFICATION Spec
INVARIANTS
    RelocationsResolve
    SectionsLinked
    DecidedByArguments
CHECK_DEADLOCK FALSE
