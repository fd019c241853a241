CONSTANTS
    u1 = u1
    u2 = u2
    Users <- MCUsers
    MaxSends <- MCMaxSends
    MsgSizes <- MCMsgSizes
    SockBuf <- MCSockBuf
    HighWaterMark <- MCHighWaterMark
    CheapPrepend <- MCCheapPrepend
    ExtraBufSize <- MCExtraBufSize
    InitialSize <- MCInitialSize
    PeerBytes <- MCPeerBytes
SPECIFICATION Spec
CHECK_DEADLOCK FALSE
INVARIANT
    SendBeforeShutdownIsWritten
