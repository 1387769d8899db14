CONSTANTS
    Letter = {"f", "g", "h", "k"}
    Compiled <- MCCompiled
    Imported <- MCImported
    Projects <- MCProjects
    MaxFunctions = 3
    MaxTexts = 2
    Arguments <- MCArguments
SPECIFICATION Spec
INVARIANT UsageAccepted
CHECK_DEADLOCK FALSE
