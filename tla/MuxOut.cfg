SPECIFICATION Spec
CONSTANTS
    Tags = {"a"}
    Rpcs = {}
    Opener <- MCOpener
    NBUF = 2
    InCap = 1
    MaxSend <- MCMaxSend
    OutSends = 5
    RpcSends = 0
    ReplySends = 0
    Discards = {2}
    UserMay = {"quit", "break", "closeerr", "close", "refuse"}
CHECK_DEADLOCK FALSE
INVARIANTS TypeOK OneWayNeverBlocks
PROPERTIES OutIsStream
