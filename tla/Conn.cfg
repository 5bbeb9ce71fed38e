SPECIFICATION FairSpec
CONSTANTS
    Devices = {"half", "whole", "pipe"}
    NBuf = 1
    MaxSend <- MCMaxSend
    LeftSends = 3
    RightSends = 0
    Discards = {2}
    FailsOn = {"pipe"}
    UserMay <- MCUserMay
    LeftMay = {"closeerr"}
    RightMay = {"quit"}
    BreaksOn = {"half", "whole"}
CHECK_DEADLOCK FALSE
INVARIANTS TypeOK
PROPERTIES ConnIsStream ReaderEnds HangsUp
