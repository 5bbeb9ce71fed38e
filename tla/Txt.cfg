SPECIFICATION Spec
CONSTANTS
    Names = {m}
    PieceMax = 2
    EditMax = 2
    MaxIns = 2
    MaxDel = 2
    MaxRunes = 3
    MaxVers = 4
CHECK_DEADLOCK FALSE
INVARIANT TypeOK
 
 
PROPERTY MarksKept
