SPECIFICATION Spec
CONSTANTS
    Paths <- MCPaths
    Initial <- MCInitial
    Edits = {"rm", "chmod"}
    Editors = {"local", "remote"}
    MaxEdits = 2
    Commands = {}
    MaxCmds = 0
    Faults = {}
    MaxFaults = 0
    None = None
CHECK_DEADLOCK FALSE
PROPERTY ConflictsEnd
