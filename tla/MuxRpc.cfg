SPECIFICATION Spec
CONSTANTS
    Tags = {"b"}
    Rpcs = {"b"}
    Opener <- MCOpener
    NBUF = 2
    InCap = 1
    MaxSend <- MCMaxSend
    OutSends = 0
    RpcSends = 3
    ReplySends = 2
    Discards = {}
    UserMay = {"quit"}
CHECK_DEADLOCK FALSE
INVARIANTS NoPhantom
PROPERTIES RequestIsStream ReplyIsStream
