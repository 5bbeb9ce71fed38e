SPECIFICATION Spec
CONSTANTS
    Paths <- MCPaths
    Initial <- MCInitial
    Edits = {"write", "rm", "chmod"}
    Editors = {"local", "remote"}
    MaxEdits = 3
    Commands = {}
    MaxCmds = 0
    Faults = {}
    MaxFaults = 0
    None = None
CHECK_DEADLOCK FALSE
INVARIANT QuietIsAllSame
