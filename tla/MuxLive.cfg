SPECIFICATION FairSpec
CONSTANTS
    Tags = {"a"}
    Rpcs = {}
    Opener <- MCOpener
    NBUF = 2
    InCap = 1
    MaxSend <- MCMaxSend
    OutSends = 3
    RpcSends = 0
    ReplySends = 0
    Discards = {}
    UserMay = {"close"}
CHECK_DEADLOCK FALSE
PROPERTIES Delivery Hangup
