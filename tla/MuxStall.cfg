SPECIFICATION Spec
CONSTANTS
    Tags = {"b"}
    Rpcs = {"b"}
    Opener <- MCOpener
    NBUF = 2
    InCap = 1
    MaxSend <- MCMaxSend
    OutSends = 0
    RpcSends = 1
    ReplySends = 3
    Discards = {}
    UserMay = {}
CHECK_DEADLOCK FALSE
INVARIANT NeverBlocks
