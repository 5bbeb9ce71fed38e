SPECIFICATION Spec
CONSTANTS
    Devices = {"half"}
    NBuf = 1
    MaxSend <- MCMaxSend
    LeftSends = 1
    RightSends = 0
    Discards = {}
    FailsOn = {"half"}
    UserMay <- MCUserMay
    LeftMay = {}
    RightMay = {}
    BreaksOn = {}
CHECK_DEADLOCK FALSE
PROPERTIES ConnIsStream
