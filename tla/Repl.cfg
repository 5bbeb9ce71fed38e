SPECIFICATION Spec
CONSTANTS
    Paths <- MCPaths
    Initial <- MCInitial
    Edits = {"write", "rm", "chmod"}
    Editors = {"local", "remote"}
    MaxEdits = 3
    Commands = {"pushall"}
    MaxCmds = 1
    Faults = {"lost", "get", "crash"}
    MaxFaults = 1
    None = None
CHECK_DEADLOCK FALSE
INVARIANT TypeOK
INVARIANT QuietIsSame
PROPERTY EventuallySame
