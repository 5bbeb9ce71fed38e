SPECIFICATION Spec
CONSTANTS
    Tags = {"b"}
    Rpcs = {"b"}
    Opener <- MCOpener
    NBUF = 2
    InCap = 1
    MaxSend <- MCMaxSend
    OutSends = 0
    RpcSends = 1
    ReplySends = 1
    Discards = {}
    UserMay = {"closeerr"}
CHECK_DEADLOCK FALSE
INVARIANT NoPhantom
