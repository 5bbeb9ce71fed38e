SPECIFICATION Spec
CONSTANTS
  Names = {a}
  NObj = 4
  Users = {u1, u2}
  Kinds = {"create", "put", "get", "stat", "wstat", "remove"}
  MaxOps = 2
  MaxMsgs = 1
  MaxExt = 1
  MaxInval = 1
  MaxBreaks = 1
  None = None
INVARIANT TypeOK
INVARIANT CleanIsSynced
PROPERTY StaleIsDetected
PROPERTY RemovedIsLeft
PROPERTY EventuallySynced
CHECK_DEADLOCK FALSE
